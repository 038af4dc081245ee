SPECIFICATION FairSpec
CONSTANTS
    Capacity = 7
    FRAME_PREFIX_LEN = 2
    MaxFrames = 3
    MaxLeases = 1
INVARIANTS
    FramesStayWhole
    ReadyWhenPending
PROPERTIES
    IsAChannel
    FramesArrive
CHECK_DEADLOCK FALSE
