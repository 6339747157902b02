SPECIFICATION Spec
CONSTANTS
    p1 = p1
    p2 = p2
    s1 = s1
    x1 = x1
    b1 = b1
    a1 = a1
    r1 = r1
    r2 = r2
    Prompt <- MCPrompt
    Width = 1
    Session <- MCSession
    SessionOf <- MCSessionOf
    Tool <- MCTool
    Arg <- MCArg
    Blocked <- MCBlocked
    Limited <- MCLimited
    Redirect <- MCRedirect
    Result <- MCResult
    MaxRepeat = 3
    MaxIterations = 3
    IdleWindow = 2
    MaxCalls = 2
    Window = 2
    MaxDelay = 1
    MaxPrompts = 2
    MaxNow = 4
SYMMETRY MCSymmetry
CHECK_DEADLOCK FALSE
INVARIANT RateKept
INVARIANT IdleExact
PROPERTY RefusalJustified
