SPECIFICATION FairSpec
CONSTANTS
  r1 = r1
  r2 = r2
  v1 = v1
  Requests <- TwoRequests
  Versions <- OneVersion
  Faults <- AllFaults
CHECK_DEADLOCK FALSE
INVARIANTS TypeOK ChangedMeansLoaded RestartOwed NeverLeftStopped
PROPERTIES EveryRequestAnswered EnsureConverges ImplementsRegister
