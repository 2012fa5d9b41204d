SPECIFICATION Spec
CONSTANTS
  a = a
  b = b
  p = p
  q = q
  r = r
  Clients = {a, b}
  Posts = {p, q, r}
  Plans <- SmallPlans
  TodoistDedupes = FALSE
  TodoistRefuses = FALSE
  RetainZero = FALSE
  MaxFaults = 1
  MaxCrashes = 2
SYMMETRY Symmetry
INVARIANTS AnswersAgree AudioWhileNeeded DuplicatesNeedALoss DoneIsComplete OnePlan
PROPERTIES IsHubService
CHECK_DEADLOCK FALSE
