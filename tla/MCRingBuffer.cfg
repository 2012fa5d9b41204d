SPECIFICATION Spec
CONSTANTS
  Capacity = 3
  Bytes = {0, 1}
  MaxLen = 4
  Wrap = 2
PROPERTY IsFifo
CHECK_DEADLOCK FALSE
