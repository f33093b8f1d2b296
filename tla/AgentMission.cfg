SPECIFICATION FairSpec
CONSTANTS
  N = 2
  MaxAttempts = 2
  MaxRuns = 2
  MaxRequests = 1
  Requests <- MCRequests
INVARIANTS
  TypeOK
  RunningIsAwaited
  NothingForgotten
PROPERTIES
  ItemsSettleOnce
  PlanIsFollowed
  RunsEnd
CHECK_DEADLOCK FALSE
