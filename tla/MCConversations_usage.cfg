SPECIFICATION Spec
CONSTANTS
  s1 = s1
  s2 = s2
  a1 = a1
  a2 = a2
  MaxChunks = 1
  UsageComes <- UsageAfter
  MaxDeltas = 0
  Sessions <- TwoSessions
  QuotaAtStart = 2
  MaxReports = 0
  RedisEnabled = TRUE
  MaxTroubles = 0
  Limiters <- EveryLimiter
  Rate = 2
  Burst = 3
  Duration = 2
  Expiration = 2
  Askers <- TwoAskers
  Horizon = 0
  MaxReloads = 1
  Requests <- TwoRequests
  Calls <- TwoCalls
  MaxRows = 3
  MaxVersion = 1
  MaxEdits = 2
CHECK_DEADLOCK FALSE
INVARIANT EstimatedOnlyIfUnreported
