SPECIFICATION FairSpec
CONSTANTS
  RingCap = 1
  MaxChunks = 1
  MaxPresses = 3
  MaxFaults = 1
  Boots = {"BOOT_COMPLETE", "REC_PRESS"}
  WorkCap = 3
  EventCap = 6
INVARIANTS TypeOK PressIsHeard GoldenRule SavedIsWhole SavedOnce ConfirmMeansSaved LoopHasRoom
PROPERTIES NothingStaleEnds Home
CHECK_DEADLOCK FALSE
