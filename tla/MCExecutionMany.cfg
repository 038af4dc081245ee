CONSTANTS
  Procs = {p1, p2}
  Pages = {g1, g2}
  MaxGeneration = 2
  LenMod = 8
  Backends = {b1, b2}
  Slots = {s1, s2}
  Permits = 2
  RingFrames = 3
  PlanPages = 1
  ResultPages = 2
  MaxQueries = 2
SPECIFICATION MCSpec
SYMMETRY Symmetry
INVARIANT
  WorkerServesManyBackends
CHECK_DEADLOCK FALSE
