SPECIFICATION ClientSpec
CONSTANTS
    u1 = u1
    u2 = u2
    k1 = k1
    k2 = k2
    k3 = k3
    Nil = Nil
    Users <- MCUsers1
    Conns <- MCConns3
    MaxConnects = 1
    ReconnectEnabled = TRUE
    Unlimited = TRUE
CHECK_DEADLOCK FALSE
SYMMETRY Symmetry3
INVARIANTS
    ReconnectNotLost
