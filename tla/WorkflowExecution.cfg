SPECIFICATION Spec
CONSTANTS
  e1 = e1
  wMain = wMain
  wShort = wShort
  g1 = g1
  NoGroup = NoGroup
  Groups = {g1}
  Executions = {e1}
  Workflows = {wMain, wShort}
  Steps <- MCSteps
  MaxAttempts = 2
  Workers = 2
  MaxRuns = 2
INVARIANTS
  TypeOK
  SoleRunner
  ResultsAreBacked
  CompletedIsComplete
  FailureIsExhaustion
PROPERTIES
  NeverRerunsRecorded
  ImplementsResumableRun
CHECK_DEADLOCK FALSE
