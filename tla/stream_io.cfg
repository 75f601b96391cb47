SPECIFICATION FairSpec
CONSTANTS
  INT = 4
  FRAME = 3
  POINTER = 4
  MaxCalls = 3
  MaxBytes = 7
INVARIANT TypeOK
PROPERTIES
  WritesExactly
  
  CallsReturn
CHECK_DEADLOCK FALSE
