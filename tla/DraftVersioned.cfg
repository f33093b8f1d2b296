SPECIFICATION Spec
CONSTANTS
  p1 = p1
  p2 = p2
  Paragraphs = {p1, p2}
  Sections <- MCSections
  Calls = {c1, c2}
  MaxRestarts = 0
  None = None
INVARIANTS
  ContentIsVersioned
CHECK_DEADLOCK FALSE
