CONSTANTS
    a = a
    b = b
    Nodes = {a, b}
    PeerAddrs <- OneSided
    ClientPeers <- ClientOfA
    Encryption = TRUE
    ResetOnClose = TRUE
    MaxConns = 2
    MaxStarts = 2
    MaxFaults = 1
SPECIFICATION FairSpec
CHECK_DEADLOCK FALSE
PROPERTIES
    
    GoneIsDropped
