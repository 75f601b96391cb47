SPECIFICATION FairSpec
CONSTANTS
  BITS = 2
  speed_table <- MCTable
  WORDS_PER_BLOCK = 1
  TX_WORDS = 3
  RX_WORDS = 3
  MaxCalls = 20
  MaxRestarts = 2
INVARIANTS
  TypeOK
  CommandStands
  ReturnsThisTest
  TestIsServed
PROPERTIES
  AnnouncesAsked
  SpeedTestEnds
CHECK_DEADLOCK FALSE
