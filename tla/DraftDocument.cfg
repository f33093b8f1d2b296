SPECIFICATION Spec
CONSTANTS
  p1 = p1
  p2 = p2
  Paragraphs = {p1, p2}
  Sections <- MCSections
  Calls = {c1, c2, c3}
  MaxRestarts = 1
  None = None
SYMMETRY CallSymmetry
INVARIANTS
  TypeOK
  VersionsUnbroken
  TrailIsTrue
  ApprovedByALawyer
  CitationsFollowText
PROPERTIES
  AloneTakesEffect
CHECK_DEADLOCK FALSE
