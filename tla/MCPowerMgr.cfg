SPECIFICATION FairSpec
CONSTANTS
  Moments <- MCMoments
  Era = 3
  BuildTime = 4
  Today = 4
  Random = {1}
  MaxBoots = 2
  MaxPresses = 2
INVARIANTS
  TypeOK
  AsleepIsSafe
  IdsApart
  ValidIsPlausible
PROPERTIES
  SleepCutsOnlyTheUnheard
  IdleSleeps
  NapFindsWork
CHECK_DEADLOCK FALSE
