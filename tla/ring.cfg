SPECIFICATION Spec
CONSTANTS
  BUFFER_SIZE = 4
  U8 = 2
  U16 = 8
INVARIANTS TypeOK IndexCoherence
PROPERTIES UnreadIsKept IsByteQueue
