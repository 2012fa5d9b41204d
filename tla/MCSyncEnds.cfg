SPECIFICATION FairSpec
CONSTANTS
  c1 = c1
  Captures = {c1}
  RamMax = 2
  ListMax = 2
  MaxAttempts = 2
  MaxFaults = 0
  MaxHubErrors = 0
  MaxCrashes = 0
  EmptyRecIds = FALSE
PROPERTY SyncEnds
CHECK_DEADLOCK FALSE
