SPECIFICATION FairSpec
CONSTANTS
    t1 = t1
    t2 = t2
    TaskId <- MCTaskId
    Exprs <- MCExprsOneShot
    SecondsPerMinute = 1
    MinutesPerHour = 1
    HoursPerDay = 2
    DaysPerWeek = 2
    IntMax = 1000
    MaxRetries = 2
    ScanHorizon = 3
    DiskReliable = FALSE
    MaxTime = 2
    MaxStarts = 1
    MaxQueue = 2
    MaxExecs = 2
CHECK_DEADLOCK FALSE
PROPERTY DueOnceRuns
