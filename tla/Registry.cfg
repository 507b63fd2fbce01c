SPECIFICATION FairSpec
CHECK_DEADLOCK FALSE
CONSTANTS
    c1 = c1
    c2 = c2
    p1 = p1
    p2 = p2
    s1 = s1
    s2 = s2
    None = None
    Callers <- MCCallers2
    Patterns <- MCPatterns
    SubIds <- MCSubIds2
    Modes <- MCModes
    MaxHandlers = 3
    MaxSessions = 2
INVARIANTS
    TablesAgree
    ActiveIsWired
PROPERTIES
    SubscribeReturns
