SPECIFICATION Spec
CONSTANTS
  s1 = s1
  s2 = s2
  a1 = a1
  a2 = a2
  MaxChunks = 3
  UsageComes <- EveryUsage
  MaxDeltas = 4
  Sessions <- TwoSessions
  QuotaAtStart = 2
  MaxReports = 4
  RedisEnabled = TRUE
  MaxTroubles = 1
  Limiters <- EveryLimiter
  Rate = 2
  Burst = 3
  Duration = 2
  Expiration = 2
  Askers <- TwoAskers
  Horizon = 5
  MaxReloads = 1
  Requests <- TwoRequests
  Calls <- TwoCalls
  MaxRows = 3
  MaxVersion = 1
  MaxEdits = 2
CHECK_DEADLOCK FALSE
INVARIANTS
  BlocksAreWellFormed ConvertedInOrder SpendingIsBounded CounterIsGivenBack ReportsAreBilled
  NeverMoreThanPromised PrimaryIsActive RotationIsSaved
PROPERTIES ConversationsEnd
