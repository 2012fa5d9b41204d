SPECIFICATION FairSpec
CONSTANTS
  Sources <- MCSources
  Air <- MCAir
  None = None
  MaxProfiles = 2
  MaxRetry = 5
  MaxDrains = 3
  MaxLosses = 8
INVARIANTS FlagTellsTheLink
PROPERTIES OnlineIsUp RetriesEnd
CHECK_DEADLOCK FALSE
