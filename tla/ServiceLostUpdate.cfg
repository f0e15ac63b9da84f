SPECIFICATION Spec
CONSTANTS
  c1 = c1
  c2 = c2
  before = before
  open = open
  closed = closed
  Nobody = nobody
  Calls <- TwoCalls
  Versions <- FirstVersions
  Patched <- FirstPatch
  Settled <- NoVersion
  Faults <- TimeoutsOnly
CHECK_DEADLOCK FALSE
PROPERTY TogglesTouchOnlyPluginLine
