SPECIFICATION Spec
CONSTANTS
  RingCap = 1
  MaxChunks = 2
  MaxPresses = 2
  MaxFaults = 0
  Boots = {"BOOT_COMPLETE", "REC_PRESS"}
  WorkCap = 2
  EventCap = 5
INVARIANT RecordingIsHeard
CHECK_DEADLOCK FALSE
