SPECIFICATION FairSpec
CONSTANTS
  first = first
  second = second
  third = third
  None = None
  Tasks = {first, second, third}
  DependsOn <- MCDependsOn
  MaxParallelism = 1
  MaxSubmits = 3
  MaxCalls = 3
  Cancels = {x1}
PROPERTIES
  CancelledNeverStarts
CHECK_DEADLOCK FALSE
