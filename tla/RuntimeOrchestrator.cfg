SPECIFICATION FairSpec
CONSTANTS
  first = first
  second = second
  third = third
  None = None
  Tasks = {first, second, third}
  DependsOn <- MCDependsOn
  MaxParallelism = 2
  MaxSubmits = 3
  MaxCalls = 4
  Cancels = {x1}
INVARIANTS
  TypeOK
  SlotsConserved
  RunningIsRun
  RegisteredIsUnderWay
PROPERTIES
  CallsReturn
CHECK_DEADLOCK FALSE
