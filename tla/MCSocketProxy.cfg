CONSTANTS
    s1 = s1
    s2 = s2
    k1 = k1
    k2 = k2
    Sockets = {k1, k2}
    Starts = {s1, s2}
    MaxTries = 1
    Pipes = {"tls-proxy", "tls-proxy-1", "tls-proxy-1-1"}
    First = "tls-proxy"
    Numbered <- MCNumbered
    Contested = {"tls-proxy"}
    Other = Other
    Nothing = Nothing
    None = None
SPECIFICATION Spec
CHECK_DEADLOCK FALSE
INVARIANTS
    OwnPeer
    OneServer
PROPERTIES
    HandedOverLive
    Settled
