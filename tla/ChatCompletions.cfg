SPECIFICATION ChatFairSpec
CONSTANTS
  JobIds = {j1, j2}
  NoJob = NoJob
  Keys = {k1}
  NoKey = NoKey
  Prints = {p1, p2}
  Retention = 0
  MaxTime = 1
  Requests = {r1, r2}
  Deadline = TRUE
  Oversized = {j2}
INVARIANTS
  ChatTypeOK
  AnswerIsOwnWork
  CancelledOnlyAtShutdown
  GoneOnlyAfterRetention
  SharedKeySharesJob
PROPERTY EveryRequestEnds
CHECK_DEADLOCK FALSE
