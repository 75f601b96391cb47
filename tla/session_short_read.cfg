SPECIFICATION Spec
CONSTANTS
  LEN = 3
  BUFFER_SIZE = 4
  U16 = 8
INVARIANT WholePacketIsPcData
CHECK_DEADLOCK FALSE
