SPECIFICATION ConsumersSpec
CONSTANTS
    u1 = u1
    u2 = u2
    r1 = r1
    r2 = r2
    i1 = i1
    h1 = h1
    h2 = h2
    h3 = h3
    None = None
    Users <- MCUsers
    Routes <- MCRoutes
    Invocations <- MCInvocations
    MaxVersions = 3
    MaxSessions = 2
    Handlers <- MCHandlers
    Capacity = 1
    Scopes = {"resource", "area", "realm", "global", "queue"}
    BatchSize = 1
    MaxLog = 2
CHECK_DEADLOCK FALSE
INVARIANTS
    AckMeansOver
    FollowExact
    NoSendOnClosed
PROPERTIES
    OnlyOwnWorkerRemoved
    FollowCatchesUp
