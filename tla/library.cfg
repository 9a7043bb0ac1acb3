CONSTANTS
    Keys = {1, 2, 3, 4, 5, 6, 7}
    Fibs = {"device", "udp_brd", "udp_demux"}
    Wakeable = {"udp_brd", "udp_demux"}
    MaxSignals = 1
    Coros = {"a", "b", "c"}
    MaxSpurious = 1
    Coroutines = {"a", "b"}
    MaxDepth = 2
    HeaderSize = 2
    MaxImsgSize = 3
    ReadSize = 3
    IovMax = 2
    Lens = {2, 3, 4}
    MaxMsgs = 3
    Sizes = {0, 1, 2}
    IOV_MAX = 2
    MaxBufs = 3
    MaxBytes = 4
    TextLens = {1, 4}
    PortRange = {0, 3, 13}
    Byte = 4
    NameLen = 9
    MaxSize = 30
    Overhead = 11
    MaxFd = 7
    MaxDump = 40
    LLONG_MAX = 2
    MaxText = 4
    MaxSummed = 5
    Remotes = {"p", "q"}
    MaxUdpPeers = 3
    Radix = 4
    FRAME_DYN_SIZE = 6
SPECIFICATION LibrarySpec
CHECK_DEADLOCK FALSE
INVARIANTS
    
    TreeConditions
    
    BackendsTransfer
    BuffersSound
    
    
    
PROPERTIES
    ResultsAreOfSet
    WokenResumes
    DueGetsToRun
    ImplementsFifo
