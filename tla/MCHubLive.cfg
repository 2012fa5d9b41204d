SPECIFICATION FairSpec
CONSTANTS
  a = a
  p = p
  q = q
  Clients = {a}
  Posts = {p, q}
  Plans <- SmallPlans
  TodoistDedupes = FALSE
  TodoistRefuses = FALSE
  RetainZero = TRUE
  MaxFaults = 3
  MaxCrashes = 2
PROPERTY EveryRecordingEnds
CHECK_DEADLOCK FALSE
