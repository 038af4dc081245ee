CONSTANTS
  Standalone = 1
  MaxPages = 2
  RingCap = 1
  InboxCap = 2
  ChanCap = 1
  Permits = 2
  Blocks <- MCBlocks
  QueryBudget = 2
  Capacity = 1
  MaxProcs = 3
  EpochGap = 10
  Scans <- MCScanSet
  DriverPermits = 2
  RingFrames = 1
SPECIFICATION MCSpec
INVARIANTS
  StreamIsTheWholeScan
  PeersAreTheJobsWorkers
  ScansReadEachBlockOnce
  DriversDriveStreams
PROPERTIES
  ScansEnd
CHECK_DEADLOCK FALSE
