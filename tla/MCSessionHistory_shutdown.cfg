SPECIFICATION Spec
CONSTANTS
    p1 = p1
    p2 = p2
    p3 = p3
    Prompt <- MCTwo
    MaxHistory = 6
    Threshold = 6
    CompactCount = 2
    MaxIter = 1
    MaxTools = 1
    FileLimit = 6
    MayThrow = FALSE
    MaxClears = 1
    MaxLives = 1
CHECK_DEADLOCK FALSE
PROPERTY ShutdownKeeps
