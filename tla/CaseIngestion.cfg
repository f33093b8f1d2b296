SPECIFICATION Spec
CONSTANTS
  d1 = d1
  d2 = d2
  Documents = {d1, d2}
  Dates <- MCDates
  Descriptions <- MCDescriptions
  Content <- MCContent
  Workers = {w1, w2}
  Clerks = {c1}
  MaxRedeliveries = 1
  None = None
INVARIANTS
  TypeOK
  DocumentsAreWhole
  FactsMatchTimeline
  CountedOnce
  ContradictionsAreMutual
  SettledLasts
PROPERTIES
  DocumentsReachTheCase
CHECK_DEADLOCK FALSE
