SPECIFICATION FairSpec
CONSTANTS
    Procs = {p1, p2}
    Capacity = 3
    TagMod = 4
    LenMod = 16
INVARIANTS
    IInv
    LenAccounts
PROPERTIES
    EmptyIsTrue
    ImplementsFreeList
    LockFree
