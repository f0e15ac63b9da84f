-------------------------- MODULE IntegrationService --------------------------
(***************************************************************************)
(* The integration service (integration/http_server.go, internal/httpapi)  *)
(* with the host agent it calls.  Its HTTP handlers run concurrently and   *)
(* take one mutex each: POST /ndpi/enable and /disable pass the request on *)
(* to the agent; POST /apply asks the agent to ensure Suricata, gives the  *)
(* mutex up, takes it again and has suricatasc reload the rules; POST      *)
(* /plan reconciles suricata.yaml with the template by itself, without the *)
(* agent, and restarts Suricata; GET /plan only looks.                     *)
(*                                                                         *)
(* The agent is module HostAgent: request c of the service makes at most   *)
(* one request to it, which has the same name there.  All requests to the  *)
(* agent come from the service.  The patch is module SuricataYaml; here it *)
(* matters what it makes of the file and whether it reports a change.  It  *)
(* does so of a file whose plugin line is on already if the unix-command   *)
(* block differs from the template's, and where a blank line follows it,   *)
(* as at the end of a file, the block differs from that of the             *)
(* repository's template even if it has just been patched: such a file is  *)
(* replaced by itself, and Suricata restarted.                             *)
(* Modelled are files that mention the plugin on one line at most,         *)
(* commented at most once, and a reload_command that is sent: shutdown is  *)
(* refused when the configuration is loaded, none is skipped.              *)
(***************************************************************************)
EXTENDS Naturals

CONSTANTS
  Calls,      \* the requests to the service; each is served once
  Nobody,     \* holds the mutex when no call does
  Versions,   \* contents of suricata.yaml other than the plugin line
  Patched,    \* Patched[v]: what the patch makes of version v
  Settled,    \* the versions of which the patch reports no change
  Faults      \* the faults that may happen, as in HostAgent

VARIABLES
  cfg, unit, plugin, job,                  \* the host, as in HostAgent
  op, pc, snap, systemctl, gone, resp,     \* the agent, as in HostAgent
  mutex,    \* Runner.mu: the call that holds it, or Nobody
  kind,     \* kind[c]: what call c asks for
  at,       \* at[c]: where its handler stands
  base,     \* base[c]: the contents a Reconcile has read
  restart,  \* restart[c]: the systemctl process a Reconcile runs
  reply     \* reply[c]: the answer

Agent == INSTANCE HostAgent WITH Requests <- Calls

ASSUME CallsAssumption == Nobody \notin Calls
ASSUME ServiceVersionsAssumption == Versions # {}
ASSUME PatchedAssumption == Patched \in [Versions -> Versions]
ASSUME SettledAssumption == Settled \subseteq Versions
ASSUME ServiceFaultsAssumption == Faults \subseteq Agent!AllFaults

agentVars == <<op, pc, snap, systemctl, gone, resp>>
hostVars == <<cfg, unit, plugin, job>>
serviceVars == <<mutex, kind, at, base, restart, reply>>
vars == <<hostVars, agentVars, serviceVars>>

-----------------------------------------------------------------------------
Toggles == {"enable", "disable"}
Kinds == Toggles \cup {"apply", "reconcile", "plan"}
Locked == {"send", "await", "reload", "read", "validate", "replace",
           "restart", "wait"}
Waiting == {"lock", "relock"}
Replies == {"changed", "unchanged", "would_change", "reloaded", "not_reloaded",
            "error"}

TypeOK ==
  /\ Agent!TypeOK
  /\ mutex \in Calls \cup {Nobody}
  /\ kind \in [Calls -> Kinds \cup {"none"}]
  /\ at \in [Calls -> Locked \cup Waiting \cup {"idle", "done", "aborted"}]
  /\ base \in [Calls -> Agent!Contents]
  /\ restart \in [Calls -> {"none", "running", "ok", "failed"}]
  /\ reply \in [Calls -> Replies \cup {"none"}]

Patch(contents) ==
  [contents EXCEPT !.ndpi = "on", !.rest = Patched[contents.rest]]

\* A plausible bug: a block that differs from the template's counts for nothing.
ReportedForPluginOnly(contents) == contents.ndpi # "on"

\* Whether the patch reports a change.
Reported(contents) == contents.ndpi # "on" \/ contents.rest \notin Settled

\* A plausible bug: the agent is asked to apply.
RequestSame(k) == k

\* What the agent is asked on behalf of a call.
Request(k) == IF k = "apply" THEN "ensure" ELSE k
MayFail(faults) == Faults \cap faults # {}

GoTo(c, label) == at' = [at EXCEPT ![c] = label]

\* A handler answers and its deferred Unlock runs.
Return(c, answer) ==
  /\ GoTo(c, "done")
  /\ reply' = [reply EXCEPT ![c] = answer]
  /\ mutex' = Nobody

-----------------------------------------------------------------------------
Init ==
  /\ Agent!Init
  /\ mutex = Nobody
  /\ kind = [c \in Calls |-> "none"]
  /\ at = [c \in Calls |-> "idle"]
  /\ base = [c \in Calls |-> cfg]
  /\ restart = [c \in Calls |-> "none"]
  /\ reply = [c \in Calls |-> "none"]

Begin(c, k) ==
  /\ at[c] = "idle"
  /\ kind' = [kind EXCEPT ![c] = k]
  /\ GoTo(c, "lock")
  /\ UNCHANGED <<hostVars, agentVars, mutex, base, restart, reply>>

\* A plausible bug: no mutex.
LockFree(c) ==
  /\ at[c] \in Waiting
  /\ mutex' = c
  /\ GoTo(c, IF at[c] = "relock" THEN "reload"
             ELSE IF kind[c] \in {"plan", "reconcile"} THEN "read" ELSE "send")
  /\ UNCHANGED <<hostVars, agentVars, kind, base, restart, reply>>

Lock(c) ==
  /\ at[c] \in Waiting
  /\ mutex = Nobody
  /\ mutex' = c
  /\ GoTo(c, IF at[c] = "relock" THEN "reload"
             ELSE IF kind[c] \in {"plan", "reconcile"} THEN "read" ELSE "send")
  /\ UNCHANGED <<hostVars, agentVars, kind, base, restart, reply>>

\* callHostAgent, ensureSuricataViaHostAgent: the client connects to the
\* agent's socket, or fails to.
Send(c) ==
  /\ at[c] = "send"
  /\ \/ /\ MayFail({"hangup", "crash"})
        /\ Return(c, "error")
        /\ UNCHANGED <<hostVars, agentVars>>
     \/ /\ Agent!Arrive(c, Request(kind[c]))
        /\ GoTo(c, "await")
        /\ UNCHANGED <<mutex, reply>>
  /\ UNCHANGED <<kind, base, restart>>

\* A plausible bug: a client without a timeout that waits for the agent's
\* answer even when the connection is lost.
ReceiveAnswerOnly(c) ==
  /\ at[c] = "await"
  /\ pc[c] = "done"
  /\ IF kind[c] = "apply" /\ resp[c] \notin Agent!Failures
       THEN GoTo(c, "relock") /\ mutex' = Nobody /\ UNCHANGED reply
       ELSE Return(c, IF resp[c] \in Agent!Failures THEN "error" ELSE resp[c])
  /\ UNCHANGED <<hostVars, agentVars, kind, base, restart>>

\* A plausible bug: POST /apply asks for the mutex again while it has it.
ReceiveKeepsMutex(c) ==
  /\ at[c] = "await"
  /\ pc[c] \in {"done", "aborted"}
  /\ IF kind[c] = "apply" /\ pc[c] = "done" /\ resp[c] \notin Agent!Failures
       THEN GoTo(c, "relock") /\ UNCHANGED <<mutex, reply>>
       ELSE Return(c, IF pc[c] = "aborted" \/ resp[c] \in Agent!Failures
                        THEN "error" ELSE resp[c])
  /\ UNCHANGED <<hostVars, agentVars, kind, base, restart>>

\* The agent's answer; an agent that died closes the connection.
Receive(c) ==
  /\ at[c] = "await"
  /\ \/ pc[c] = "aborted" /\ Return(c, "error")
     \/ /\ pc[c] = "done"
        /\ resp[c] \in Agent!Failures
        /\ Return(c, "error")
     \/ /\ pc[c] = "done"
        /\ resp[c] \notin Agent!Failures
        /\ kind[c] \in Toggles
        /\ Return(c, resp[c])
     \/ /\ pc[c] = "done"
        /\ resp[c] \notin Agent!Failures
        /\ kind[c] = "apply"
        /\ GoTo(c, "relock")
        /\ mutex' = Nobody
        /\ UNCHANGED reply
  /\ UNCHANGED <<hostVars, agentVars, kind, base, restart>>

\* The client's timeout passes, or the caller of the service hangs up and the
\* context of its request takes the request to the agent with it.
GiveUp(c) ==
  /\ at[c] = "await"
  /\ Agent!Hangup(c)
  /\ Return(c, "error")
  /\ UNCHANGED <<kind, base, restart>>

\* ApplyConfigWithContext: a reload that fails or times out is answered 200.
\* One that succeeds after the caller hung up is an error.
Reload(c) ==
  /\ at[c] = "reload"
  /\ \/ unit = "active" /\ Return(c, "reloaded")
     \/ unit = "active" /\ MayFail({"hangup"}) /\ Return(c, "error")
     \/ Return(c, "not_reloaded")
  /\ UNCHANGED <<hostVars, agentVars, kind, base, restart>>

\* PlanConfig tells what a Reconcile would do.
Plan(c) ==
  /\ at[c] = "read"
  /\ kind[c] = "plan"
  /\ \/ MayFail({"io"}) /\ Return(c, "error")
     \/ Return(c, IF Reported(cfg) THEN "would_change" ELSE "unchanged")
  /\ UNCHANGED <<hostVars, agentVars, kind, base, restart>>

\* ReconcileConfig up to the patch.  It goes on where a change is reported,
\* whether or not there is one.
ReadConfig(c) ==
  /\ at[c] = "read"
  /\ kind[c] = "reconcile"
  /\ \/ MayFail({"io"}) /\ Return(c, "error") /\ UNCHANGED base
     \/ ~Reported(cfg) /\ Return(c, "unchanged") /\ UNCHANGED base
     \/ /\ Reported(cfg)
        /\ base' = [base EXCEPT ![c] = cfg]
        /\ GoTo(c, "validate")
        /\ UNCHANGED <<mutex, reply>>
  /\ UNCHANGED <<hostVars, agentVars, kind, restart>>

\* The patched file goes to a temporary file that suricata -T tests.
Validate(c) ==
  /\ at[c] = "validate"
  /\ \/ MayFail({"io", "boot", "hangup"}) /\ Return(c, "error")
     \/ GoTo(c, "replace") /\ UNCHANGED <<mutex, reply>>
  /\ UNCHANGED <<hostVars, agentVars, kind, base, restart>>

\* A plausible bug: Suricata is not restarted after the file was replaced.
ReplaceConfigOnly(c) ==
  /\ at[c] = "replace"
  /\ cfg' = Patch(base[c])
  /\ Return(c, "changed")
  /\ UNCHANGED <<unit, plugin, job, agentVars, kind, base, restart>>

ReplaceConfig(c) ==
  /\ at[c] = "replace"
  /\ \/ /\ MayFail({"io"})
        /\ Return(c, "error")
        /\ UNCHANGED cfg
     \/ /\ cfg' = Patch(base[c])
        /\ GoTo(c, "restart")
        /\ UNCHANGED <<mutex, reply>>
  /\ UNCHANGED <<unit, plugin, job, agentVars, kind, base, restart>>

\* systemctl is started unless the caller has hung up meanwhile.
CallRestart(c) ==
  /\ at[c] = "restart"
  /\ \/ /\ MayFail({"refuse", "hangup"})
        /\ Return(c, "error")
        /\ UNCHANGED <<job, restart>>
     \/ /\ job' = "stop"
        /\ restart' = [restart EXCEPT ![c] = "running"]
        /\ GoTo(c, "wait")
        /\ UNCHANGED <<mutex, reply>>
  /\ UNCHANGED <<cfg, unit, plugin, agentVars, kind, base>>

\* A plausible bug: systemctl is not waited for.
WaitRestartNot(c) ==
  /\ at[c] = "wait"
  /\ Return(c, "changed")
  /\ restart' = [restart EXCEPT ![c] = "none"]
  /\ UNCHANGED <<hostVars, agentVars, kind, base>>

\* A minute may pass at any moment.
WaitRestart(c) ==
  /\ at[c] = "wait"
  /\ \/ restart[c] = "ok" /\ Return(c, "changed")
     \/ Return(c, "error")
  /\ restart' = [restart EXCEPT ![c] = "none"]
  /\ UNCHANGED <<hostVars, agentVars, kind, base>>

\* The service dies; its connections to the agent are closed.
ServiceCrash ==
  /\ "crash" \in Faults
  /\ at' = [c \in Calls |->
              IF at[c] \in Locked \cup Waiting THEN "aborted" ELSE at[c]]
  /\ mutex' = Nobody
  /\ restart' = [c \in Calls |-> "none"]
  /\ gone' = gone \cup {c \in Calls : at[c] = "await"}
  /\ UNCHANGED <<hostVars, op, pc, snap, systemctl, resp, kind, base, reply>>

-----------------------------------------------------------------------------
Handler(c) ==
  \/ Lock(c) \/ Send(c) \/ Receive(c) \/ Reload(c) \/ Plan(c)
  \/ ReadConfig(c) \/ Validate(c) \/ ReplaceConfig(c)
  \/ CallRestart(c) \/ WaitRestart(c)

AgentStep ==
  /\ \/ \E c \in Calls : Agent!Handler(c)
     \/ Agent!AgentCrash
  /\ UNCHANGED serviceVars

\* Every systemctl learns of the end of the job, the service's own as well.
UnitStart ==
  /\ Agent!UnitStart
  /\ restart' = [c \in Calls |->
       IF restart[c] = "running"
         THEN IF unit' = "starting" THEN "ok" ELSE "failed"
         ELSE restart[c]]
  /\ UNCHANGED <<mutex, kind, at, base, reply>>

HostStep ==
  \/ UnitStart
  \/ (Agent!UnitStop \/ Agent!Boot \/ Agent!Death) /\ UNCHANGED serviceVars

Next ==
  \/ \E c \in Calls, k \in Kinds : Begin(c, k)
  \/ \E c \in Calls : Handler(c) \/ GiveUp(c)
  \/ ServiceCrash
  \/ AgentStep
  \/ HostStep

Spec == Init /\ [][Next]_vars

\* As in HostAgent; Go's mutex serves those who wait for it in turn, so that
\* with finitely many calls weak fairness is enough.
Fairness ==
  /\ \A c \in Calls : WF_vars(Handler(c))
  /\ \A c \in Calls : WF_vars(Agent!Handler(c) /\ UNCHANGED serviceVars)
  /\ WF_vars(HostStep)

FairSpec == Spec /\ Fairness

-----------------------------------------------------------------------------
(* The register of ConfigRegister that the calls implement.  The handler of *)
(* the agent is the one that knows how far a toggle is.                     *)

Writers == Toggles \cup {"reconcile"}

TogglePhase(c) ==
  CASE pc[c] \in {"read", "write"} -> "pending"
    [] pc[c] \in {"restart", "wait"} \/ resp[c] = "changed" -> "taken"
    [] resp[c] = "unchanged" -> "kept"
    [] pc[c] = "idle" /\ at[c] \in {"lock", "send"} -> "pending"
    [] OTHER -> "over"

ReconcilePhase(c) ==
  CASE at[c] \in {"lock", "read", "validate", "replace"} -> "pending"
    [] at[c] \in {"restart", "wait"} \/ reply[c] = "changed" -> "taken"
    [] reply[c] = "unchanged" -> "kept"
    [] OTHER -> "over"

Phase(c) ==
  CASE kind[c] \in Toggles -> TogglePhase(c)
    [] kind[c] = "reconcile" -> ReconcilePhase(c)
    [] OTHER -> "idle"

Late == {c \in gone : kind[c] \in Toggles}

Register == INSTANCE ConfigRegister WITH
  file <- cfg,
  want <- [c \in Calls |-> IF kind[c] \in Writers THEN kind[c] ELSE "none"],
  phase <- [c \in Calls |-> Phase(c)],
  reply <- [c \in Calls |-> IF kind[c] \in Writers THEN reply[c] ELSE "none"],
  late <- Late

-----------------------------------------------------------------------------
(* Properties *)

ToggleWrites(c) == pc[c] = "write" /\ pc'[c] = "restart"
ReconcileWrites(c) == at[c] = "replace" /\ at'[c] = "restart"

\* http_server.go:71-108: the mutex keeps the service's calls from writing over
\* each other: whoever replaces suricata.yaml replaces what it has read, be it
\* the agent or the service, unless the service gave up on the agent.
WritesAreFresh ==
  [][gone = {} =>
       \A c \in Calls :
         /\ ToggleWrites(c) => cfg.rest = snap[c].rest /\ cfg.ndpi # snap[c].ndpi
         /\ ReconcileWrites(c) => base[c] = cfg]_vars

\* http_server.go:71-166, reconcile_config.go:20-149: however the calls, the
\* agent's handlers and their faults interleave, each call changes the file at
\* one instant or not at all, its answer does not lie about which, and nothing
\* it is not about changes with it, up to calls the service has given up on.
ImplementsRegister == Register!Spec

\* http_server.go:71-166: nobody waits for the mutex for ever: whoever holds it
\* is a handler at work, and one that awaits the agent has sent its request.
WaitersAreServed ==
  mutex # Nobody =>
    /\ at[mutex] \in Locked
    /\ at[mutex] = "await" => pc[mutex] # "idle" /\ mutex \notin gone

Disagree == unit = "active" /\ plugin # (cfg.ndpi = "on")

\* reconcile_config.go:116-147, handlers.go:118-188: between two writers and
\* two ways to restart, whenever the running Suricata differs from the file,
\* someone still owes the restart, or a restart was lost: the agent or the
\* service died at work, a toggle's restart failed, or a Reconcile did.
RestartOwed ==
  Disagree =>
    \/ job # "none"
    \/ \E c \in Calls :
         \/ pc[c] = "restart" /\ op[c] \in Toggles
         \/ at[c] = "restart"
         \/ pc[c] = "aborted" \/ resp[c] = "RESTART_FAILED"
         \/ kind[c] = "reconcile" /\ (at[c] = "aborted" \/ reply[c] = "error")

\* reconcile_config.go:116-149, http_server.go:113-134: a call answered 200 that
\* wrote the file took effect in Suricata, as long as nobody asks for the
\* opposite.
ChangedMeansLoaded ==
  \A c \in Calls :
    (/\ reply[c] = "changed"
     /\ \A q \in Calls : kind[q] \in {"enable", "disable", "reconcile"} =>
          (kind[q] = "disable" <=> kind[c] = "disable")
     /\ unit = "active")
    => plugin = (kind[c] # "disable")

\* http_server.go:71-166: every call is answered and the mutex released,
\* whatever becomes of the agent, of Suricata and of the caller, unless the
\* service dies.
EveryCallAnswered ==
  \A c \in Calls :
    at[c] \in Locked \cup Waiting ~> at[c] \in {"done", "aborted"}

\* README.md:217-218: the agent modifies the file by commenting or uncommenting
\* the plugin line; a write of a toggle leaves everything else as it is.
TogglesTouchOnlyPluginLine ==
  [][\A c \in Calls : ToggleWrites(c) => cfg'.rest = cfg.rest]_vars

\* README.md:105-107: the integration service works through the host agent and
\* does not restart Suricata to toggle the plugin: a restart it asks for by
\* itself follows a write that left the plugin line as it was.
ServiceRestartsToggleNothing ==
  [][\A c \in Calls :
       at[c] = "restart" /\ at'[c] = "wait" =>
         base[c].ndpi = cfg.ndpi]_vars

\* README.md:316: POST /apply ensures Suricata before it reloads the rules, so
\* where nothing fails the reload finds Suricata running.
ApplyReachesSuricata ==
  [][\A c \in Calls : at[c] = "reload" /\ at'[c] = "done" => unit = "active"]_vars

=============================================================================
