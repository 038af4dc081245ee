CONSTANTS
  Procs = {p1, p2}
  Pages = {g1, g2}
  MaxGeneration = 2
  LenMod = 8
  Backends = {b1, b2}
  Slots = {s1, s2}
  Permits = 2
  RingFrames = 2
  PlanPages = 1
  ResultPages = 2
  MaxQueries = 3
SPECIFICATION MCSpec
SYMMETRY Symmetry
INVARIANTS
  PagesHaveOneOwner
  ResultsBelongToTheQuery
  NoQueryIsForgotten
PROPERTIES
  ImplementsOwnership
CHECK_DEADLOCK FALSE
