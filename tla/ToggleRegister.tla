---------------------------- MODULE ToggleRegister ----------------------------
(***************************************************************************)
(* What the host agent promises the callers of POST /ndpi/enable and       *)
(* /ndpi/disable: the plugin line is a register.  Every call takes effect  *)
(* on it at one instant between its arrival and its answer, or never, and  *)
(* the answer tells which.  HostAgent is shown to implement this.          *)
(***************************************************************************)
CONSTANT Requests

VARIABLES
  value,   \* the plugin line: "on", "off" or "missing"
  want,    \* want[r]: "enable" or "disable", once r has been called
  phase,   \* phase[r]: how far r has come
  answer   \* answer[r]: what its caller was told

regVars == <<value, want, phase, answer>>

Values == {"on", "off", "missing"}
Phases == {"idle", "pending", "taken", "done", "aborted"}
Outcomes == {"changed", "unchanged", "not_configured", "not_written",
             "not_restarted"}

Wanted(w) == IF w = "enable" THEN "on" ELSE "off"

Init ==
  /\ value \in Values
  /\ want = [r \in Requests |-> "none"]
  /\ phase = [r \in Requests |-> "idle"]
  /\ answer = [r \in Requests |-> "none"]

Call(r, w) ==
  /\ phase[r] = "idle"
  /\ want' = [want EXCEPT ![r] = w]
  /\ phase' = [phase EXCEPT ![r] = "pending"]
  /\ UNCHANGED <<value, answer>>

\* The one step that changes the register.
TakeEffect(r) ==
  /\ phase[r] = "pending"
  /\ value # "missing"
  /\ value' = Wanted(want[r])
  /\ phase' = [phase EXCEPT ![r] = "taken"]
  /\ UNCHANGED <<want, answer>>

Return(r, outcome) ==
  /\ phase' = [phase EXCEPT ![r] = "done"]
  /\ answer' = [answer EXCEPT ![r] = outcome]
  /\ UNCHANGED <<value, want>>

\* The answers of a call that took effect.
ReturnTaken(r) ==
  /\ phase[r] = "taken"
  /\ \E outcome \in {"changed", "not_restarted"} : Return(r, outcome)

\* The answers of a call that did not: each is true when it is given.
ReturnPending(r) ==
  /\ phase[r] = "pending"
  /\ \/ value = Wanted(want[r]) /\ Return(r, "unchanged")
     \/ value = "missing" /\ Return(r, "not_configured")
     \/ Return(r, "not_written")

\* The agent dies: no call in progress is answered.
Crash ==
  /\ phase' = [r \in Requests |->
       IF phase[r] \in {"pending", "taken"} THEN "aborted" ELSE phase[r]]
  /\ UNCHANGED <<value, want, answer>>

Next ==
  \/ \E r \in Requests :
        \/ \E w \in {"enable", "disable"} : Call(r, w)
        \/ TakeEffect(r)
        \/ ReturnTaken(r)
        \/ ReturnPending(r)
  \/ Crash

Spec == Init /\ [][Next]_regVars

=============================================================================
