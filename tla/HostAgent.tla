------------------------------ MODULE HostAgent ------------------------------
(***************************************************************************)
(* The host agent (pkg/hostagent): an HTTP server on a unix socket whose   *)
(* handlers run concurrently, one goroutine per request, and share nothing *)
(* but the host: the file suricata.yaml, the systemd unit of Suricata and  *)
(* the control socket.  No lock protects any of them.                      *)
(*                                                                         *)
(* Modelled: POST /ndpi/enable, /ndpi/disable, /suricata/ensure and        *)
(* /suricata/reload, step by step, with every early return; systemd's      *)
(* restart jobs and the life of the Suricata process (external, from how   *)
(* the handlers use them); timeouts, clients that hang up, I/O errors, a   *)
(* systemctl that refuses, Suricata failing to start or dying, and a crash *)
(* of the agent.  Reading the file and renaming a new one over it are      *)
(* atomic steps: module AtomicWrite shows why.  IntegrationService adds    *)
(* the other writer of the file.  The file mentions the plugin on one line *)
(* at most, commented at most once; SuricataYaml has the files that do     *)
(* otherwise.                                                              *)
(***************************************************************************)
EXTENDS Naturals, FiniteSets

CONSTANTS
  Requests,   \* the requests of one behaviour; each is served once
  Versions,   \* contents of the file other than the plugin line
  Faults      \* the faults that may happen, a subset of AllFaults

AllFaults ==
  {"io",       \* a read or a write of suricata.yaml fails
   "refuse",   \* systemctl cannot be started or its request is rejected
   "hangup",   \* the client closes the connection while it waits
   "busy",     \* Suricata runs, but its control socket refuses a connection
   "boot",     \* Suricata fails to start
   "death",    \* Suricata dies
   "crash"}    \* the agent dies; socket activation starts a new one

ASSUME FaultsAssumption == Faults \subseteq AllFaults
ASSUME VersionsAssumption == Versions # {}

VARIABLES
  cfg,      \* suricata.yaml: the plugin line, and everything else
  unit,     \* the Suricata process: "inactive", "starting", "active", "failed"
  plugin,   \* whether that process has loaded the plugin
  job,      \* phase of systemd's restart job: "none", "stop" or "start"
  op,       \* op[r]: what request r asks for
  pc,       \* pc[r]: where its handler stands
  snap,     \* snap[r]: the new contents of the file the handler prepared
  systemctl,\* systemctl[r]: the systemctl process the handler runs
  gone,     \* the requests whose client hung up
  resp      \* resp[r]: the answer, by its code

hostVars == <<cfg, unit, plugin, job>>
vars == <<cfg, unit, plugin, job, op, pc, snap, systemctl, gone, resp>>

-----------------------------------------------------------------------------
(* Types *)

Toggles == {"enable", "disable"}
Ops == Toggles \cup {"ensure", "reload"}
Contents == [ndpi : {"on", "off", "missing"}, rest : Versions]
Attempts == {"try1", "try2", "try3", "try4", "try5"}
Reloading == {"find", "ready"} \cup Attempts
InFlight ==
  {"read", "write", "connect", "restart", "wait", "poll"} \cup Reloading
ErrorKinds == {"notexist", "permission", "noline", "other"}
Failures == {"NOT_FOUND", "PERMISSION", "NDPI_NOT_CONFIGURED", "INTERNAL",
             "RESTART_FAILED", "SURICATA_RESTART_FAILED", "SURICATA_NOT_READY",
             "RELOAD_FAILED"}
Answers == Failures \cup
  {"changed", "unchanged", "already_running", "started", "reloaded"}

TypeOK ==
  /\ cfg \in Contents
  /\ unit \in {"inactive", "starting", "active", "failed"}
  /\ plugin \in BOOLEAN
  /\ job \in {"none", "stop", "start"}
  /\ op \in [Requests -> Ops \cup {"none"}]
  /\ pc \in [Requests -> InFlight \cup {"idle", "done", "aborted"}]
  /\ snap \in [Requests -> Contents]
  /\ systemctl \in [Requests -> {"none", "running", "ok", "failed"}]
  /\ gone \subseteq Requests
  /\ resp \in [Requests -> Answers \cup {"none"}]
  /\ \A r \in Requests :
        /\ pc[r] \in {"read", "write"} => op[r] \in Toggles
        /\ pc[r] \in {"connect", "poll"} => op[r] = "ensure"
        /\ pc[r] \in {"restart", "wait"} => op[r] \in Toggles \cup {"ensure"}
        /\ pc[r] \in Reloading => op[r] = "reload"
        /\ systemctl[r] # "none" => pc[r] = "wait"
        /\ resp[r] # "none" <=> pc[r] = "done"

-----------------------------------------------------------------------------
(* Helpers *)

Target(o) == IF o = "enable" THEN "on" ELSE "off"
Loads(contents) == contents.ndpi = "on"

\* A plausible bug: an error the classification does not know gets no code.
ClassifyErrNoDefault(kind) == IF kind = "other" THEN "none" ELSE "INTERNAL"

\* Which code an error of the file operations is reported under.  TIMEOUT is
\* left out: it is for the end of a context, and these take none.
ClassifyErr(kind) ==
  CASE kind = "notexist"   -> "NOT_FOUND"
    [] kind = "permission" -> "PERMISSION"
    [] kind = "noline"     -> "NDPI_NOT_CONFIGURED"
    [] OTHER               -> "INTERNAL"

RestartError(o) ==
  IF o = "ensure" THEN "SURICATA_RESTART_FAILED" ELSE "RESTART_FAILED"

\* Where the mux sends a request.
Entry(o) ==
  CASE o = "ensure" -> "connect"
    [] o = "reload" -> "find"
    [] OTHER        -> "read"

\* The attempt after a failed one that is not the last.
AfterTry ==
  [try1 |-> "try2", try2 |-> "try3", try3 |-> "try4", try4 |-> "try5"]

GoTo(r, label) == pc' = [pc EXCEPT ![r] = label]

Answer(r, code) ==
  /\ GoTo(r, "done")
  /\ resp' = [resp EXCEPT ![r] = code]

-----------------------------------------------------------------------------
Init ==
  /\ cfg \in Contents
  /\ unit \in {"inactive", "active"}
  /\ plugin = (unit = "active" /\ Loads(cfg))
  /\ job = "none"
  /\ op = [r \in Requests |-> "none"]
  /\ pc = [r \in Requests |-> "idle"]
  /\ snap = [r \in Requests |-> cfg]
  /\ systemctl = [r \in Requests |-> "none"]
  /\ gone = {}
  /\ resp = [r \in Requests |-> "none"]

\* The mux hands a POST request to its handler.
Arrive(r, o) ==
  /\ pc[r] = "idle"
  /\ op' = [op EXCEPT ![r] = o]
  /\ GoTo(r, Entry(o))
  /\ UNCHANGED <<hostVars, snap, systemctl, gone, resp>>

\* SetNDPIEnabledWithFS up to the write: read the whole file, find the plugin
\* line, and prepare the file with that line switched.
ReadConfig(r) ==
  /\ pc[r] = "read"
  /\ \/ /\ "io" \in Faults
        /\ \E kind \in {"notexist", "permission", "other"} :
              Answer(r, ClassifyErr(kind))
        /\ UNCHANGED snap
     \/ /\ cfg.ndpi = "missing"
        /\ Answer(r, ClassifyErr("noline"))
        /\ UNCHANGED snap
     \/ /\ cfg.ndpi = Target(op[r])
        /\ Answer(r, "unchanged")
        /\ UNCHANGED snap
     \/ /\ cfg.ndpi \notin {"missing", Target(op[r])}
        /\ snap' = [snap EXCEPT ![r] = [cfg EXCEPT !.ndpi = Target(op[r])]]
        /\ GoTo(r, "write")
        /\ UNCHANGED resp
  /\ UNCHANGED <<hostVars, op, systemctl, gone>>

\* A plausible bug: an error that follows the rename is reported as a write
\* that did not happen.
WriteConfigLateError(r) ==
  /\ pc[r] = "write"
  /\ cfg' = snap[r]
  /\ \/ "io" \in Faults /\ Answer(r, ClassifyErr("other"))
     \/ GoTo(r, "restart") /\ UNCHANGED resp
  /\ UNCHANGED <<unit, plugin, job, op, snap, systemctl, gone>>

\* A plausible bug: the handler reports success before it restarts Suricata.
WriteConfigNoRestart(r) ==
  /\ pc[r] = "write"
  /\ cfg' = snap[r]
  /\ Answer(r, "changed")
  /\ UNCHANGED <<unit, plugin, job, op, snap, systemctl, gone>>

\* writeFileAtomic: the file prepared from what was read replaces whatever the
\* file holds now, or nothing is written.
WriteConfig(r) ==
  /\ pc[r] = "write"
  /\ \/ /\ "io" \in Faults
        /\ \E kind \in {"notexist", "permission", "other"} :
              Answer(r, ClassifyErr(kind))
        /\ UNCHANGED cfg
     \/ /\ cfg' = snap[r]
        /\ GoTo(r, "restart")
        /\ UNCHANGED resp
  /\ UNCHANGED <<unit, plugin, job, op, snap, systemctl, gone>>

\* SuricataEnsure: one attempt to connect decides whether to restart.
Connect(r) ==
  /\ pc[r] = "connect"
  /\ \/ unit = "active" /\ Answer(r, "already_running")
     \/ /\ unit # "active" \/ "busy" \in Faults
        /\ GoTo(r, "restart")
        /\ UNCHANGED resp
  /\ UNCHANGED <<hostVars, op, snap, systemctl, gone>>

\* A plausible bug: the exit status of systemctl is ignored when it could not
\* hand its request to systemd.
CallRestartUnchecked(r) ==
  /\ pc[r] = "restart"
  /\ \/ /\ r \in gone \/ "refuse" \in Faults
        /\ Answer(r, "changed")
        /\ UNCHANGED <<job, systemctl>>
     \/ /\ r \notin gone
        /\ job' = "stop"
        /\ systemctl' = [systemctl EXCEPT ![r] = "running"]
        /\ GoTo(r, "wait")
        /\ UNCHANGED resp
  /\ UNCHANGED <<cfg, unit, plugin, op, snap, gone>>

\* ServiceManager.Restart starts systemctl, unless the request's context is
\* already cancelled.  systemd merges the request into a restart job whose stop
\* has not happened yet, and begins again with the stop otherwise.
CallRestart(r) ==
  /\ pc[r] = "restart"
  /\ \/ /\ r \in gone \/ "refuse" \in Faults
        /\ Answer(r, RestartError(op[r]))
        /\ UNCHANGED <<job, systemctl>>
     \/ /\ r \notin gone
        /\ job' = "stop"
        /\ systemctl' = [systemctl EXCEPT ![r] = "running"]
        /\ GoTo(r, "wait")
        /\ UNCHANGED resp
  /\ UNCHANGED <<cfg, unit, plugin, op, snap, gone>>

\* A plausible bug: a wait that times out takes the restart job back, wherever
\* systemd is with it.
WaitRestartCancelsJob(r) ==
  /\ pc[r] = "wait"
  /\ \/ /\ systemctl[r] = "ok"
        /\ IF op[r] = "ensure" THEN GoTo(r, "poll") /\ UNCHANGED resp
                               ELSE Answer(r, "changed")
        /\ UNCHANGED job
     \/ Answer(r, RestartError(op[r])) /\ job' = "none"
  /\ systemctl' = [systemctl EXCEPT ![r] = "none"]
  /\ UNCHANGED <<cfg, unit, plugin, op, snap, gone>>

\* ServiceManager.Restart returns.  RestartTimeout may pass at any moment,
\* even after systemctl succeeded; systemctl is killed then, and when the
\* client hangs up, but the job it submitted stays with systemd.
WaitRestart(r) ==
  /\ pc[r] = "wait"
  /\ \/ /\ systemctl[r] = "ok"
        /\ IF op[r] = "ensure" THEN GoTo(r, "poll") /\ UNCHANGED resp
                               ELSE Answer(r, "changed")
     \/ Answer(r, RestartError(op[r]))
  /\ systemctl' = [systemctl EXCEPT ![r] = "none"]
  /\ UNCHANGED <<hostVars, op, snap, gone>>

\* SuricataEnsure polls the control socket until it answers or the deadline
\* passes.
Poll(r) ==
  /\ pc[r] = "poll"
  /\ \/ unit = "active" /\ Answer(r, "started")
     \/ Answer(r, "SURICATA_NOT_READY")
  /\ UNCHANGED <<hostVars, op, snap, systemctl, gone>>

\* SuricataReload up to its deadline's start: FirstExistingSocket only looks for
\* the socket's file, which a Suricata that died may have left behind.  Without
\* paths.suricatasc, which the configuration must have, it would not come here.
FindSocket(r) ==
  /\ pc[r] = "find"
  /\ \/ unit # "active" /\ Answer(r, "SURICATA_NOT_READY")
     \/ GoTo(r, "ready") /\ UNCHANGED resp
  /\ UNCHANGED <<hostVars, op, snap, systemctl, gone>>

\* waitSuricataReady asks for the uptime until Suricata answers or three seconds
\* have passed.  The context does not come from the request: a client that
\* hangs up stops nothing.
WaitReady(r) ==
  /\ pc[r] = "ready"
  /\ \/ unit = "active" /\ GoTo(r, "try1") /\ UNCHANGED resp
     \/ Answer(r, "SURICATA_NOT_READY")
  /\ UNCHANGED <<hostVars, op, snap, systemctl, gone>>

\* A plausible bug: suricatasc is tried until it succeeds.
TryReloadForever(r) ==
  /\ pc[r] \in Attempts
  /\ \/ unit = "active" /\ Answer(r, "reloaded")
     \/ pc[r] = "try5" /\ GoTo(r, "try1") /\ UNCHANGED resp
     \/ pc[r] # "try5" /\ GoTo(r, AfterTry[pc[r]]) /\ UNCHANGED resp
  /\ UNCHANGED <<hostVars, op, snap, systemctl, gone>>

\* One run of suricatasc.  It may fail for any reason, and fails at once when
\* the deadline has passed: the loop is not left then, because its `break`
\* leaves the select, but it ends with the fifth attempt.
TryReload(r) ==
  /\ pc[r] \in Attempts
  /\ \/ unit = "active" /\ Answer(r, "reloaded")
     \/ pc[r] = "try5" /\ Answer(r, "RELOAD_FAILED")
     \/ pc[r] # "try5" /\ GoTo(r, AfterTry[pc[r]]) /\ UNCHANGED resp
  /\ UNCHANGED <<hostVars, op, snap, systemctl, gone>>

-----------------------------------------------------------------------------
(* The host and the clients *)

UnitStop ==
  /\ job = "stop"
  /\ unit' = "inactive"
  /\ job' = "start"
  /\ UNCHANGED <<cfg, plugin, op, pc, snap, systemctl, gone, resp>>

\* The job ends when the process is forked (Type=simple), before Suricata
\* has read its configuration; every systemctl still waiting learns of it.
UnitStart ==
  /\ job = "start"
  /\ job' = "none"
  /\ \E ok \in BOOLEAN :
        /\ ok \/ "boot" \in Faults
        /\ unit' = IF ok THEN "starting" ELSE "failed"
        /\ systemctl' = [r \in Requests |->
             IF systemctl[r] = "running" THEN IF ok THEN "ok" ELSE "failed"
                                         ELSE systemctl[r]]
  /\ UNCHANGED <<cfg, plugin, op, pc, snap, gone, resp>>

\* Suricata reads suricata.yaml, loads the plugin if its line is active, and
\* opens the control socket; or it gives up.
Boot ==
  /\ unit = "starting"
  /\ \/ unit' = "active" /\ plugin' = Loads(cfg)
     \/ "boot" \in Faults /\ unit' = "failed" /\ UNCHANGED plugin
  /\ UNCHANGED <<cfg, job, op, pc, snap, systemctl, gone, resp>>

Death ==
  /\ "death" \in Faults
  /\ unit = "active"
  /\ unit' = "failed"
  /\ UNCHANGED <<cfg, plugin, job, op, pc, snap, systemctl, gone, resp>>

Hangup(r) ==
  /\ "hangup" \in Faults
  /\ pc[r] \in InFlight
  /\ gone' = gone \cup {r}
  /\ UNCHANGED <<hostVars, op, pc, snap, systemctl, resp>>

\* The agent dies with everything its handlers know.  The restart job, if one
\* was submitted, stays with systemd.
AgentCrash ==
  /\ "crash" \in Faults
  /\ pc' = [r \in Requests |-> IF pc[r] \in InFlight THEN "aborted" ELSE pc[r]]
  /\ systemctl' = [r \in Requests |-> "none"]
  /\ UNCHANGED <<hostVars, op, snap, gone, resp>>

-----------------------------------------------------------------------------
Handler(r) ==
  \/ ReadConfig(r)
  \/ WriteConfig(r)
  \/ Connect(r)
  \/ CallRestart(r)
  \/ WaitRestart(r)
  \/ Poll(r)
  \/ FindSocket(r)
  \/ WaitReady(r)
  \/ TryReload(r)

Systemd == UnitStop \/ UnitStart \/ Boot

Next ==
  \/ \E r \in Requests, o \in Ops : Arrive(r, o)
  \/ \E r \in Requests : Handler(r) \/ Hangup(r)
  \/ Systemd
  \/ Death
  \/ AgentCrash

Spec == Init /\ [][Next]_vars

\* net/http runs every handler in a goroutine the Go scheduler never starves,
\* each wait of a handler has a deadline, and systemd works its queue off.
Fairness ==
  /\ \A r \in Requests : WF_vars(Handler(r))
  /\ WF_vars(UnitStop) /\ WF_vars(UnitStart) /\ WF_vars(Boot)

FairSpec == Spec /\ Fairness

-----------------------------------------------------------------------------
(* The register of ToggleRegister that the toggles implement.  Ensures and  *)
(* reloads are none of its calls.                                           *)

IsToggle(r) == op[r] \in Toggles

Phase(r) ==
  CASE ~IsToggle(r) -> "idle"
    [] IsToggle(r) /\ pc[r] \in {"read", "write"} -> "pending"
    [] IsToggle(r) /\ pc[r] \in {"restart", "wait"} -> "taken"
    [] OTHER -> pc[r]

Outcome(r) ==
  CASE ~IsToggle(r) -> "none"
    [] IsToggle(r) /\ resp[r] = "NDPI_NOT_CONFIGURED" -> "not_configured"
    [] IsToggle(r) /\ resp[r] = "RESTART_FAILED" -> "not_restarted"
    [] IsToggle(r) /\ resp[r] \in {"NOT_FOUND", "PERMISSION", "INTERNAL"} ->
         "not_written"
    [] OTHER -> resp[r]

Register == INSTANCE ToggleRegister WITH
  value <- cfg.ndpi,
  want <- [r \in Requests |-> IF IsToggle(r) THEN op[r] ELSE "none"],
  phase <- [r \in Requests |-> Phase(r)],
  answer <- [r \in Requests |-> Outcome(r)]

-----------------------------------------------------------------------------
(* Properties *)

Disagree == unit = "active" /\ plugin # Loads(cfg)

\* Faults that can keep a handler from submitting a restart it owes.
RestartMayBeLost == Faults \cap {"refuse", "hangup", "crash"} # {}

Lost(r) ==
  /\ op[r] \in Toggles
  /\ pc[r] = "aborted" \/ resp[r] = "RESTART_FAILED"

\* handlers.go:118-188: whenever the running Suricata differs from the file,
\* somebody still owes the restart: a toggle that has written but not yet
\* called systemctl, or systemd.  Only a restart that failed or a dead agent
\* can leave the two apart, however many requests interleave.
RestartOwed ==
  Disagree =>
    \/ job # "none"
    \/ \E r \in Requests :
          /\ op[r] \in Toggles
          /\ pc[r] = "restart" \/ (RestartMayBeLost /\ Lost(r))

\* handlers.go:124-151: a toggle answered 200 with changed=true took effect in
\* the process and not only in the file, as long as nobody asks for the
\* opposite: whatever fails around it, no running Suricata has the plugin in
\* another state than the answer says.
ChangedMeansLoaded ==
  \A r \in Requests :
    (/\ resp[r] = "changed"
     /\ \A q \in Requests : op[q] \in Toggles => op[q] = op[r]
     /\ unit = "active")
    => plugin = (op[r] = "enable")

\* handlers.go:118-188: however the steps of concurrent calls interleave and
\* whatever fails, each call changes the plugin line at one instant or not at
\* all, and its answer does not lie about which.
ImplementsRegister == Register!Spec

\* README.md:234-235 says that enabling or disabling restarts Suricata, so an
\* answer 200 with changed=false should mean what changed=true means.
UnchangedMeansLoaded ==
  \A r \in Requests :
    (/\ resp[r] = "unchanged"
     /\ \A q \in Requests :
           /\ op[q] \in Toggles => op[q] = op[r]
           /\ pc[q] \notin InFlight
     /\ job = "none"
     /\ unit = "active")
    => plugin = (op[r] = "enable")

\* handlers.go:37-188: whoever has seen Suricata run, or has had systemd restart
\* it, is not left with a Suricata that is stopped and that systemd will not
\* start: timeouts, hang-ups and crashes between the halves of a restart leave
\* the second half to systemd, however many restarts run into each other.  (A
\* Suricata that fails to start or dies is "failed".)
NeverLeftStopped ==
  unit = "inactive" /\ job = "none" =>
    \A r \in Requests :
      /\ resp[r] \notin {"already_running", "started", "changed", "reloaded"}
      /\ systemctl[r] = "none"
      /\ pc[r] \notin {"poll"} \cup Attempts

\* handlers.go:37-188, handlers_reload.go:21-87: no handler waits or tries again
\* forever, whatever fails: every request is answered, unless the agent dies.
EveryRequestAnswered ==
  \A r \in Requests : pc[r] \in InFlight ~> pc[r] \in {"done", "aborted"}

\* handlers.go:58-81: concurrent requests, timeouts and crashes of the agent
\* cannot leave Suricata stopped between the two halves of a restart: once an
\* ensure succeeded, Suricata ends up running, unless it failed by itself.
EnsureConverges ==
  \A r \in Requests :
    (resp[r] \in {"already_running", "started"}) ~>
      []((unit = "active" \/ unit = "failed") /\ job = "none")

=============================================================================
