SPECIFICATION FairSpec
CONSTANTS
  c1 = c1
  c2 = c2
  Captures = {c1, c2}
  RamMax = 1
  ListMax = 1
  MaxAttempts = 2
  MaxFaults = 0
  MaxHubErrors = 1
  MaxCrashes = 0
  EmptyRecIds = FALSE
PROPERTY NoStarvation
CHECK_DEADLOCK FALSE
