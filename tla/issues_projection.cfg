SPECIFICATION Spec
CONSTANTS
  p1 = p1
  p2 = p2
  Creatives = {c1, c2}
  Metrics = {m1}
  Projections = {p1, p2}
SYMMETRY ProjectionSymmetry
CHECK_DEADLOCK FALSE
INVARIANTS
  CompletedShowsItsIssues
