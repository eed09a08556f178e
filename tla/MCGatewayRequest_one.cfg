SPECIFICATION Spec
CONSTANTS
  r1 = r1
  a = a
  b = b
  k1 = k1
  k2 = k2
  NoEndpoint = NoEndpoint
  NoCredential = NoCredential
  Requests <- OneRequest
  Endpoints <- BothEndpoints
  Credentials <- Keys
  Pool <- PoolAndSingle
  Pins <- NobodyPinned
  Writers <- EveryWriter
  Answers <- EveryAnswer
  MaxAttempts = 3
  HasDeadline = TRUE
  Estimates = {0, 2}
  Costs = {0, 1, 2, 3}
  LedgerMayFail = TRUE
  RoutesMayShrink = FALSE
CHECK_DEADLOCK FALSE
INVARIANTS ChargedOrReleased UpstreamWorkIsLogged
PROPERTIES NoFailoverAfterOutput NoSecondTryWithoutOtherKeys
