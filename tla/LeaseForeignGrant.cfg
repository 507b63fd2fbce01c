SPECIFICATION MCSpec
CONSTANTS
    c1 = c1
    c2 = c2
    r1 = r1
    r2 = r2
    o1 = o1
    o2 = o2
    Other = Other
    None = None
    Callers <- MCCallers
    Routes <- MCRoutes
    Calls <- MCCalls
    MaxConns = 2
    MaxTokens = 2
INVARIANTS
    GrantIsOwn
CHECK_DEADLOCK FALSE
