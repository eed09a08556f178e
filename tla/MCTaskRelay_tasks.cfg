SPECIFICATION Spec
CONSTANTS
  t1 = t1
  t2 = t2
  Tasks <- TwoTasks
  Limit = 1
  MaxFaults = 1
  Situations = {"calm", "routes", "database", "crash", "answers"}
CHECK_DEADLOCK FALSE
INVARIANTS RefundsAreDue FailureIsRefunded
PROPERTIES TasksAreFollowed
