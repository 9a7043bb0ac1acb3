CONSTANTS
    a = a
    b = b
    Nodes = {a, b}
    PeerAddrs <- Mutual
    ClientPeers <- ClientOfA
    Encryption = FALSE
    ResetOnClose = TRUE
    MaxConns = 2
    MaxStarts = 2
    MaxFaults = 1
SPECIFICATION Spec
CHECK_DEADLOCK FALSE
INVARIANTS
    TypeOK
    ListedExactlyOnce
    AnnouncedPortsOnly
