------------------------------ MODULE AtomicFile ------------------------------
(***************************************************************************)
(* What writeFileAtomic promises: a file whose contents are replaced as a  *)
(* whole or not at all, for its readers and across a loss of power, by     *)
(* callers that are told which.  AtomicWrite is shown to implement this.   *)
(***************************************************************************)
CONSTANTS
  Writers,  \* each replaces the contents once; its name stands for them
  Old       \* the first contents

VARIABLES
  visible,  \* the contents a reader gets
  stable,   \* the contents a loss of power leaves
  phase     \* phase[w]: "running", "replaced", "ok", "error" or "dead"

fileVars == <<visible, stable, phase>>

Init ==
  /\ visible = Old
  /\ stable = Old
  /\ phase = [w \in Writers |-> "running"]

Become(w, next) == phase' = [phase EXCEPT ![w] = next]

Replace(w) ==
  /\ phase[w] = "running" /\ Become(w, "replaced")
  /\ visible' = w
  /\ UNCHANGED stable

Return(w) ==
  /\ \/ phase[w] = "replaced" /\ Become(w, "ok")
     \/ phase[w] = "running" /\ Become(w, "error")
  /\ UNCHANGED <<visible, stable>>

Kill(w) ==
  /\ phase[w] \in {"running", "replaced"} /\ Become(w, "dead")
  /\ UNCHANGED <<visible, stable>>

\* Durability is not promised: what is in place becomes stable in its own time.
Settle ==
  /\ stable' = visible
  /\ UNCHANGED <<visible, phase>>

\* Callers that have not begun may begin after the reboot.
PowerLoss ==
  /\ visible' = stable
  /\ \E dead \in SUBSET {w \in Writers : phase[w] \in {"running", "replaced"}} :
        /\ \A w \in Writers : phase[w] = "replaced" => w \in dead
        /\ phase' = [w \in Writers |-> IF w \in dead THEN "dead" ELSE phase[w]]
  /\ UNCHANGED stable

Next ==
  \/ \E w \in Writers : Replace(w) \/ Return(w) \/ Kill(w)
  \/ Settle
  \/ PowerLoss

Spec == Init /\ [][Next]_fileVars

=============================================================================
