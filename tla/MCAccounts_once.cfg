SPECIFICATION Spec
CONSTANTS
  p1 = p1
  p2 = p2
  p3 = p3
  e1 = e1
  c1 = c1
  c2 = c2
  Endpoints <- OneEndpoint
  Changes <- TwoChanges
  Roles <- BothRoles
  LoadsMayFail = TRUE
  NoHolder = NoHolder
  MaxLocks = 2
  Notices <- Three
  Route = "payment"
  Troubles <- EveryTrouble
  Signups <- Two
  MaxUses = 1
  Settings <- EverySetting
  Redeemers <- Three
  Scenarios <- EveryScenario
CHECK_DEADLOCK FALSE
INVARIANTS NeverOverused RedeemedOnce
PROPERTIES PaidIsCredited CallsEnd ImplementsOneTimeCredit IndexCatchesUp
