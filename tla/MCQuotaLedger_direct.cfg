SPECIFICATION Spec
CONSTANTS
  r1 = r1
  r2 = r2
  Absent = Absent
  Requests <- TwoRequests
  Opening <- Ample
  Estimate = 2
  Costs = {0, 1, 4}
  TrustFactor = 2
  BatchUpdateEnabled = FALSE
  RedisEnabled = TRUE
  WritesMayFail = FALSE
  DrainMayTimeOut = TRUE
CHECK_DEADLOCK FALSE
INVARIANT PaidAlike
