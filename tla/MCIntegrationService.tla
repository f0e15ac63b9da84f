------------------------ MODULE MCIntegrationService -------------------------
(* Small instances of IntegrationService for TLC. *)
EXTENDS IntegrationService

CONSTANTS
  c1, c2,
  before,  \* a file nobody has patched yet
  open,    \* one whose unix-command block a blank line follows
  closed   \* one whose unix-command block a key follows

TwoCalls == {c1, c2}

\* The template of the repository leaves a patched file as it is in either
\* case; it reports a change of it all the same if the block is open.
PatchedVersions == {open, closed}
KeepingPatch == [v \in PatchedVersions |-> v]
ClosedOnes == {closed}

\* A file that is patched for the first time.
FirstVersions == {before, open}
FirstPatch == [v \in FirstVersions |-> open]
NoVersion == {}

AllFaults == {"io", "refuse", "hangup", "busy", "boot", "death", "crash"}
NoFaults == {}
TimeoutsOnly == {"hangup"}

=============================================================================
