SPECIFICATION Spec
CONSTANTS
    p1 = p1
    p2 = p2
    p3 = p3
    Prompt <- MCTwo
    MaxHistory = 5
    Threshold = 4
    CompactCount = 2
    MaxIter = 2
    MaxTools = 2
    FileLimit = 4
    MayThrow = TRUE
    MaxClears = 1
    MaxLives = 1
CHECK_DEADLOCK FALSE
SYMMETRY MCSymmetry2
INVARIANT NoOrphanSent
INVARIANT HistoryBounded
INVARIANT HistoryOrdered
