SPECIFICATION FairSpec
CONSTANTS
    trigger = trigger
    other = other
    Event <- MCEvent
    Client <- MCClient
    Trigger = trigger
    Config <- MCConfig
    Enabled = TRUE
    EvalSession = "autonomous"
    MaxEvals = 1
    HourLength = 2
    QueueSize = 2
    MaxPublished = 3
    MaxSubs = 2
    MaxStarts = 2
    MaxClock = 2
CHECK_DEADLOCK FALSE
INVARIANT QueueIsRecent
INVARIANT ReceivedInOrder
INVARIANT UnsubscribeStops
INVARIANT CooldownKept
INVARIANT EvaluationsLimited
PROPERTY BusIsRecentLog
PROPERTY DirectRuleActs
