---------------------------- MODULE ConfigRegister ----------------------------
(***************************************************************************)
(* What the integration service promises the callers of POST /ndpi/enable, *)
(* /ndpi/disable and /plan, whose work two programs share: suricata.yaml   *)
(* is a register of two fields, the plugin line and the rest.  Every call  *)
(* takes effect on it at one instant between its arrival and its answer,   *)
(* or never, or finds at such an instant that there is nothing to do, and  *)
(* the answer tells which.  A Reconcile may find something to do where it  *)
(* then changes nothing: of a file that is not settled it says it changed  *)
(* it, whether it did or not.  The exception is a toggle the service has   *)
(* given up on: it may take effect late, and then a toggle may put back an *)
(* old rest.  IntegrationService is shown to implement this.               *)
(***************************************************************************)
CONSTANTS Calls, Versions, Patched, Settled  \* as in IntegrationService

VARIABLES
  file,    \* suricata.yaml, as in IntegrationService
  want,    \* want[c]: what c asks for, once it has been called
  phase,   \* phase[c]: what has become of it
  reply,   \* reply[c]: what its caller was told
  late     \* the calls the service gave up on, or died over

regVars == <<file, want, phase, reply, late>>

Toggles == {"enable", "disable"}
Working == {"pending", "taken", "kept", "over"}

Line(w) == IF w = "disable" THEN "off" ELSE "on"
Result(w, f) ==
  [ndpi |-> Line(w),
   rest |-> IF w = "reconcile" THEN Patched[f.rest] ELSE f.rest]

\* What a call has something to do with.
Due(w, f) == f.ndpi # Line(w) \/ (w = "reconcile" /\ f.rest \notin Settled)

Init ==
  /\ file \in [ndpi : {"on", "off", "missing"}, rest : Versions]
  /\ want = [c \in Calls |-> "none"]
  /\ phase = [c \in Calls |-> "idle"]
  /\ reply = [c \in Calls |-> "none"]
  /\ late = {}

Call(c, w) ==
  /\ phase[c] = "idle"
  /\ want' = [want EXCEPT ![c] = w]
  /\ phase' = [phase EXCEPT ![c] = "pending"]
  /\ UNCHANGED <<file, reply, late>>

\* The one step that changes the file, and nothing in it but what the call is
\* about, unless some call is late.
TakeEffect(c) ==
  /\ phase[c] = "pending"
  /\ reply[c] = "none" \/ c \in late
  /\ want[c] \in Toggles => file.ndpi # "missing"
  /\ \/ Due(want[c], file) /\ file' = Result(want[c], file)
     \/ late # {} /\ \E v \in Versions :
                        file' = Result(want[c], [file EXCEPT !.rest = v])
  /\ phase' = [phase EXCEPT ![c] = "taken"]
  /\ UNCHANGED <<want, reply, late>>

\* There is nothing to do.
Keep(c) ==
  /\ phase[c] = "pending"
  /\ ~Due(want[c], file)
  /\ phase' = [phase EXCEPT ![c] = "kept"]
  /\ UNCHANGED <<file, want, reply, late>>

\* Calls that get no further: they failed, or who worked for them died.
Drop(dropped) ==
  /\ \A c \in dropped : phase[c] \in Working
  /\ phase' = [c \in Calls |-> IF c \in dropped THEN "over" ELSE phase[c]]
  /\ UNCHANGED <<file, want, reply, late>>

Return(c, answer, outcome) ==
  /\ reply[c] = "none"
  /\ reply' = [reply EXCEPT ![c] = answer]
  /\ phase' = [phase EXCEPT ![c] = outcome]
  /\ UNCHANGED <<file, want, late>>

Answer(c) ==
  \/ phase[c] = "taken" /\ Return(c, "changed", "taken")
  \/ phase[c] = "kept" /\ Return(c, "unchanged", "kept")
  \/ /\ phase[c] = "pending"
     /\ ~Due(want[c], file)
     /\ Return(c, "unchanged", "kept")
  \/ phase[c] \in Working /\ Return(c, "error", "over")

\* The answer is an error, and the call goes on.
GiveUp(c) ==
  /\ want[c] \in Toggles
  /\ reply[c] = "none"
  /\ reply' = [reply EXCEPT ![c] = "error"]
  /\ late' = late \cup {c}
  /\ UNCHANGED <<file, want, phase>>

\* The service dies.  Of the calls that have no answer yet, the toggles that
\* the agent works on go on.
Crash(left) ==
  /\ \A c \in left : want[c] \in Toggles /\ reply[c] = "none"
  /\ late' = late \cup left
  /\ phase' = [c \in Calls |->
       IF phase[c] \in Working /\ reply[c] = "none" /\ c \notin left
         THEN "over" ELSE phase[c]]
  /\ UNCHANGED <<file, want, reply>>

Next ==
  \/ \E some \in SUBSET Calls : Drop(some) \/ Crash(some)
  \/ \E c \in Calls :
        \/ \E w \in Toggles \cup {"reconcile"} : Call(c, w)
        \/ TakeEffect(c) \/ Keep(c) \/ Answer(c) \/ GiveUp(c)

Spec == Init /\ [][Next]_regVars

=============================================================================
