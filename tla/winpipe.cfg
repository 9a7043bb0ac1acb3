CONSTANTS
    Sizes = {1, 3}
    SHORT_MAX = 2
    PIPE_BUF = 3
    ENTRIES = 2
    MaxDevice = 2
    MaxNet = 2
    MaxErrors = 1
SPECIFICATION FairSpec
CHECK_DEADLOCK FALSE
INVARIANTS
    TypeOK
    
PROPERTIES
    NetReachesDevice
    DeviceReachesPeers
