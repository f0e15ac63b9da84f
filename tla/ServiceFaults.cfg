SPECIFICATION FairSpec
CONSTANTS
  c1 = c1
  c2 = c2
  before = before
  open = open
  closed = closed
  Nobody = nobody
  Calls <- TwoCalls
  Versions <- PatchedVersions
  Patched <- KeepingPatch
  Settled <- ClosedOnes
  Faults <- AllFaults
CHECK_DEADLOCK FALSE
INVARIANTS TypeOK RestartOwed ChangedMeansLoaded WaitersAreServed
PROPERTIES WritesAreFresh EveryCallAnswered ImplementsRegister
