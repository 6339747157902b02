SPECIFICATION Spec
CONSTANTS
    p1 = p1
    p2 = p2
    p3 = p3
    Prompt <- MCTwo
    MaxHistory = 5
    Threshold = 4
    CompactCount = 2
    MaxIter = 1
    MaxTools = 1
    FileLimit = 4
    MayThrow = FALSE
    MaxClears = 0
    MaxLives = 1
CHECK_DEADLOCK FALSE
PROPERTY RollbackOwn
