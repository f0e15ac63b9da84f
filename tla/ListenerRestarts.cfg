SPECIFICATION FairSpec
CONSTANTS
  a1 = a1
  a2 = a2
  a3 = a3
  a4 = a4
  Agents <- FourAgents
  Nothing = nothing
  Foreign = foreign
  Stale = stale
  Systemd = systemd
  Overlap = FALSE
CHECK_DEADLOCK FALSE
INVARIANTS TypeOK Reachable
PROPERTIES StaleNeverBlocks FailsForAReason
