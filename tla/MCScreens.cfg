SPECIFICATION FairSpec
CONSTANTS
  QueueLen = 2
  Voltages <- MCVoltages
  Counts <- MCCounts
  MaxChanges = 6
INVARIANTS ScreenIsTrue LayoutFits
PROPERTIES Settles
CHECK_DEADLOCK FALSE
