SPECIFICATION FairSpec
CONSTANTS
  BITS = 2
  speed_table <- MCTable
  WORDS_PER_BLOCK = 1
  TX_WORDS = 3
  RX_WORDS = 3
  MaxCalls = 20
  MaxRestarts = 0
PROPERTY InteractionEnds
CHECK_DEADLOCK FALSE
