SPECIFICATION FairSpec
CONSTANTS
  e1 = e1
  wMain = wMain
  wShort = wShort
  g1 = g1
  NoGroup = NoGroup
  Groups = {g1}
  Executions = {e1}
  Workflows = {wMain}
  Steps <- MCGroupSteps
  MaxAttempts = 2
  Workers = 1
  MaxRuns = 2
PROPERTIES
  RunEnds
  TasksSettle
CHECK_DEADLOCK FALSE
