SPECIFICATION Spec
CONSTANTS
    t1 = t1
    t2 = t2
    TaskId <- MCOneTask
    Exprs <- MCExprsInterval
    SecondsPerMinute = 1
    MinutesPerHour = 1
    HoursPerDay = 2
    DaysPerWeek = 2
    IntMax = 1000
    MaxRetries = 2
    ScanHorizon = 3
    DiskReliable = TRUE
    MaxTime = 2
    MaxStarts = 1
    MaxQueue = 2
    MaxExecs = 2
CHECK_DEADLOCK FALSE
PROPERTY CancelIsFinal
