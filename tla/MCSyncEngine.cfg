SPECIFICATION FairSpec
CONSTANTS
  c1 = c1
  c2 = c2
  Captures = {c1, c2}
  RamMax = 1
  ListMax = 1
  MaxAttempts = 2
  MaxFaults = 2
  MaxHubErrors = 1
  MaxCrashes = 2
  EmptyRecIds = TRUE
INVARIANTS DistinctNames NoCaptureLost AttemptsBounded 
PROPERTIES KeepsPromise EveryCaptureSettles SyncEndsWhenNothingPending
CHECK_DEADLOCK FALSE
