SPECIFICATION FairSpec
CONSTANTS
  LEN = 3
  BUFFER_SIZE = 4
  U16 = 8
INVARIANTS
  TypeOK
  PrintedIsWhatCame
  PrintsOnlyStored
  WaitsAreAnswered
PROPERTY MainStops
CHECK_DEADLOCK FALSE
