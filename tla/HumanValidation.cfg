SPECIFICATION Spec
CONSTANTS
  a = a
  b = b
  Approvers = {a, b}
  Calls = {c1, c2, c3}
  Requested <- MCRequested
INVARIANTS
  TypeOK
  TiersInOrder
  EveryTierHasApproval
PROPERTIES
  AloneSettles
CHECK_DEADLOCK FALSE
