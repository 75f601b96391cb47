SPECIFICATION FairSpec
CONSTANTS
  TX_WORDS = 3
  RX_WORDS = 3
  MaxFrames = 4
  MaxFlips = 2
  FifoDepth = 2
INVARIANTS
  TypeOK
  ErrorsAreReal
  MeterCounts
  FrameIsServed
PROPERTIES
  FramesFinish
  ReportsGoOn
CHECK_DEADLOCK FALSE
