CONSTANTS
    Peers = {p, q}
    Unsound = {2}
    MaxTap = 3
    MaxUdp = 2
    MaxChanges = 2
SPECIFICATION FairSpec
CHECK_DEADLOCK FALSE
INVARIANTS
    TypeOK
    NoFiberStranded
    BroadcastSound
    ReceptionSound

    
