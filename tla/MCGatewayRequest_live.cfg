SPECIFICATION FairSpec
CONSTANTS
  r1 = r1
  a = a
  b = b
  k1 = k1
  k2 = k2
  NoEndpoint = NoEndpoint
  NoCredential = NoCredential
  Requests <- OneRequest
  Endpoints <- BothEndpoints
  Credentials <- Keys
  Pool <- PoolAndSingle
  Pins <- SomePinned
  Writers <- SessionWriter
  Answers <- SomeAnswers
  MaxAttempts = 2
  HasDeadline = TRUE
  Estimates = {0, 2}
  Costs = {3}
  LedgerMayFail = FALSE
  RoutesMayShrink = TRUE
CHECK_DEADLOCK FALSE
INVARIANTS AttemptBudget
PROPERTIES ImplementsRequestCharge RequestEnds
