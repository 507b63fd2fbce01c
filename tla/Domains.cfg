SPECIFICATION FairSpec
CONSTANTS
    c1 = c1
    c2 = c2
    c3 = c3
    Callers <- MCCallers
    MaxCalls = 3
    MaxConns = 2
    RetryMaxAttempts = 2
    Names = {"a", "b"}
    Broken = {"a*"}
    MaxDepth = 4
    Nobody = Nobody
    MaxInbound = 2
    Hole = Hole
    Discard = Discard
    CompactAt = 2
    MaxItems = 6
CHECK_DEADLOCK FALSE
INVARIANTS
    KvCommitHonest
    EnqueueOnce
    ItemStateTrue
    StreamCommitHonest
    ListingComplete
    PatternsMean
    FramesKept
    PongNotLost
PROPERTIES
    IsFifo
    CallsReturn
