SPECIFICATION FairSpec
CONSTANTS
  TX_WORDS = 2
  RX_WORDS = 2
  MaxCalls = 3
  MaxRestarts = 1
  MaxItems = 3
INVARIANTS
  TypeOK
  FpgaGetsWhatWasSent
  RecvReturnsWhole
  WaitsAreServed
PROPERTIES
  NoBufferRace
  CallsReturn
CHECK_DEADLOCK FALSE
