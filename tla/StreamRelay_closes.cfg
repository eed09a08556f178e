SPECIFICATION FairSpec
CONSTANTS
  MaxLines = 3
  IdleTimeout = TRUE
INVARIANTS
  DeliveredInFull
PROPERTIES
  SilentAfterTerminal
  UsageIsFinal
  StreamEnds
  ProducerExits
CHECK_DEADLOCK FALSE
