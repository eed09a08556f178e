SPECIFICATION FairSpec
CONSTANTS
  r1 = r1
  r2 = r2
  Absent = Absent
  Requests <- OneRequest
  Opening <- Tight
  Estimate = 2
  Costs = {0, 1, 4}
  TrustFactor = 2
  BatchUpdateEnabled = TRUE
  RedisEnabled = TRUE
  WritesMayFail = TRUE
  DrainMayTimeOut = TRUE
CHECK_DEADLOCK FALSE
INVARIANTS NothingLeftBehind
PROPERTIES ImplementsAccount EveryRecordIsTaken ShutdownEnds
