SPECIFICATION Spec
CONSTANTS
  MaxLines = 3
  IdleTimeout = FALSE
INVARIANTS
  ConsumerNeverCrashes
CHECK_DEADLOCK FALSE
