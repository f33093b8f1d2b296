SPECIFICATION Spec
CONSTANTS
  N = 2
  MaxAttempts = 2
  MaxRuns = 2
  MaxRequests = 1
  Requests <- MCRequests
INVARIANTS
  CompletedHasAllResults
CHECK_DEADLOCK FALSE
