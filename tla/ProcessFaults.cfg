SPECIFICATION FairSpec
CONSTANTS
  c1 = c1
  c2 = c2
  Calls <- TwoCalls
  MaxFaults = 5
INVARIANT TypeOK
PROPERTIES CleanExit SignalEndsProcess ServesOnceSuricataStays
