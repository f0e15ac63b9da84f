SPECIFICATION Spec
CONSTANTS
  r1 = r1
  r2 = r2
  v1 = v1
  Requests <- TwoRequests
  Versions <- OneVersion
  Faults <- RefusalOnly
CHECK_DEADLOCK FALSE
INVARIANT UnchangedMeansLoaded
