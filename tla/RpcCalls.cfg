SPECIFICATION FairSpec
CONSTANTS
    r1 = r1
    None = None
    Calls <- MCCalls
    MaxFrames = 2
    MaxConns = 2
CHECK_DEADLOCK FALSE
INVARIANTS
    OutcomeIsTrue
    CleanEndIsComplete
PROPERTIES
    CancelledCallsEnd
