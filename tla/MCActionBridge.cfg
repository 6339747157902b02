SPECIFICATION FairSpec
CONSTANTS
    t1 = t1
    t2 = t2
    a1 = a1
    Caller <- MCCaller
    Action <- MCAction
    Version <- MCVersion
    MaxRequests = 3
    MaxChanges = 2
CHECK_DEADLOCK FALSE
INVARIANT OwnAnswer
INVARIANT PendingExact
INVARIANT StoppedNobodyWaits
INVARIANT FilesFollowActions
PROPERTY CallReturns
