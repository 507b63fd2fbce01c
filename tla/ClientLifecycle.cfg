SPECIFICATION LifecycleSpec
CONSTANTS
    u1 = u1
    u2 = u2
    k1 = k1
    k2 = k2
    k3 = k3
    Nil = Nil
    Users <- MCUsers
    Conns <- MCConns
    MaxConnects = 3
    ReconnectEnabled = TRUE
    Unlimited = FALSE
    MaxFrames = 2
    MaxWrites = 1
CHECK_DEADLOCK FALSE
INVARIANTS
    OneLoop
    LiveIsWatched
PROPERTIES
    CloseEndsReconnect
    CloseEnds
    DeadPeerNoticed
