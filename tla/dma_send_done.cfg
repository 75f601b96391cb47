SPECIFICATION Spec
CONSTANTS
  TX_WORDS = 2
  RX_WORDS = 2
  MaxCalls = 3
  MaxRestarts = 1
  MaxItems = 3
INVARIANT SendDoneMeansSent
CHECK_DEADLOCK FALSE
