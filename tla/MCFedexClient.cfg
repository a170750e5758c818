SPECIFICATION FSpec
CONSTANTS
  t1 = t1
  t2 = t2
  t3 = t3
  Tasks <- MCTasks
  Concurrency = 2
  MaxAttempts = 4
  MaxTroubles = 1
CHECK_DEADLOCK FALSE
INVARIANTS
  AtMostConcurrency
  UnauthorizedBounded
PROPERTIES
  EverySubmittedFinishes
