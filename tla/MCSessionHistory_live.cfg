SPECIFICATION FairSpec
CONSTANTS
    p1 = p1
    p2 = p2
    p3 = p3
    Prompt <- MCTwo
    MaxHistory = 5
    Threshold = 4
    CompactCount = 2
    MaxIter = 2
    MaxTools = 1
    FileLimit = 4
    MayThrow = TRUE
    MaxClears = 0
    MaxLives = 2
CHECK_DEADLOCK FALSE
INVARIANT NoOrphanSent
PROPERTY PromptReturns
