SPECIFICATION Spec
CONSTANTS
    SecondsPerMinute = 2
    MinutesPerHour = 2
    HoursPerDay = 2
    DaysPerWeek = 3
    IntMax = 7
    MaxNow = 30
    MaxVal = 3
CHECK_DEADLOCK FALSE
INVARIANT NextIsFirstAsked
INVARIANT IntervalExact
