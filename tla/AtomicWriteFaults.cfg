SPECIFICATION Spec
CONSTANTS
  w1 = w1
  w2 = w2
  Writers <- TwoWriters
  Old = old
  NoFile = nofile
  Faults <- AllFaults
CHECK_DEADLOCK FALSE
INVARIANTS TypeOK ReaderSeesWholeFile PowerLossLeavesWholeFile NoLitter
PROPERTY ImplementsAtomicFile
