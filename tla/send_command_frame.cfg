SPECIFICATION Spec
CONSTANTS
  INT = 4
  FRAME = 3
  POINTER = 4
  MaxCalls = 3
  MaxBytes = 7
PROPERTY SendsFrames
CHECK_DEADLOCK FALSE
