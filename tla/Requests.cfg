SPECIFICATION Spec
CONSTANTS
    c1 = c1
    c2 = c2
    c3 = c3
    w1 = w1
    w2 = w2
    None = None
    Discard = Discard
    Kinds = {"request", "oneway"}
    Callers <- MCCallers3
    Waiters <- MCWaiters2
    MaxId = 2
    MaxInFlight = 1
    MaxQueue = 1
    MaxCalls = 3
CHECK_DEADLOCK FALSE
SYMMETRY Symmetry
PROPERTIES
    ImplementsRequestReply
INVARIANTS
    SlotsAccounted
    OwnResponse
    PooledWaiterUnreachable
    NobodyLeftBehind
    AnswerExpected
