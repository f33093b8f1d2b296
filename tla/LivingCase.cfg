SPECIFICATION Spec
CONSTANTS
  d1 = d1
  d2 = d2
  Documents = {d1, d2}
  Dates <- MCDates
  Descriptions <- MCDescriptions
  Content <- MCContent
  Workers = {w1, w2}
  Clerks = {}
  MaxRedeliveries = 0
  None = None
INVARIANTS
  LivingCase
CHECK_DEADLOCK FALSE
