SPECIFICATION MCSpec
CONSTANTS
  Plans <- MCPlans
  PagePayloads = {1, 7, 11, 200}
  Permits = 2
  MaxFlows = 2
  SmallPage = 8
  r1 = r1
  r2 = r2
  r3 = r3
  r4 = r4
  A = A
  B = B
  Readers = {r1, r2, r3, r4}
  Ctes = {A, B}
  Top = Top
  NoFetch = NoFetch
  Nobody = Nobody
  MaxDrops = 2
  CteOf <- MCCteOf
  Inside <- MCInside
  Batches <- MCBatches
  Fetch <- MCFetch
  Accs = {a1, a2}
  Values <- MCAggValues
  Null = Null
  Scales <- MCScales
  MaxRows = 3
  AvgScale = 1
  MaxI128 = 5000
  MaxFloat = 1000
  PartMax = 50
  AggTimeMax = 2000
  NanosPerMicro = 2
  DaysPerMonth = 3
  SecsPerDay = 4
  UsecsPerSec = 10
  TsPrecInv = 10
INVARIANTS
  PlanArrives
  CteReadersAgree
  AggregatesAreExact
PROPERTIES
  PlansAndReadsEnd
CHECK_DEADLOCK FALSE
