CONSTANTS
    a = a
    b = b
    Nodes = {a, b}
    PeerAddrs <- Mutual
    ClientPeers <- NoClient
    Encryption = FALSE
    ResetOnClose = TRUE
    MaxConns = 1
    MaxStarts = 1
    MaxFaults = 0
SPECIFICATION Spec
CHECK_DEADLOCK FALSE
INVARIANT
    NoSegfault
