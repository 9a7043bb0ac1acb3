CONSTANTS
    a = a
    b = b
    Nodes = {a, b}
    PeerAddrs <- OneSided
    ClientPeers <- NoClient
    Encryption = FALSE
    ResetOnClose = FALSE
    MaxConns = 3
    MaxStarts = 3
    MaxFaults = 0
SPECIFICATION FairSpec
CHECK_DEADLOCK FALSE
INVARIANTS
    EndpointsBelongToPeers

    
