CONSTANTS
    b1 = b1
    b2 = b2
    w1 = w1
    w2 = w2
    Backends = {b1, b2}
    Claimers = {w1, w2}
    Worker = w1
    NoPid = NoPid
    SlotCount = 1
    MaxLeases = 2
    MaxGenerations = 2
SPECIFICATION Spec
SYMMETRY Symmetry
INVARIANTS
    SlotsAreHeldOnce
    FramesBelongToTheLease
    OwnerlessSlotsAreFinalized
CHECK_DEADLOCK FALSE
