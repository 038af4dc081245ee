SPECIFICATION Spec
CONSTANTS
    Probers = {b1, b2}
    Keys = {k1}
    JoinKeys <- AlternatingKeys
    SlotCount = 1
    MaxBuilds = 3
    MaxScans = 1
    MaxRows = 1
    RefMod = 8
SYMMETRY Symmetry
INVARIANTS
    SlotsInUseStay
    RetiredSlotsComeBack
    NeverRejectsAJoinableRow
CHECK_DEADLOCK FALSE
