CONSTANTS
    Keys = {"Port", "ClientPort", "ListenAddress", "PeerAddress", "Address", "AddressFamily", "Mode", "Encryption", ""}
    Numbers = {80, 70000}
    Strings = {"any", "inet", "hub", "10.0.0.1/8", "192.0.2.1:7"}
    MAX_PORTS = 1
    MaxFiles = 2
    MaxValues = 3
    MaxDepth = 2
    MaxFailures = 1
    MaxTerm = 2
SPECIFICATION DaemonSpec
CHECK_DEADLOCK FALSE
INVARIANTS
    DaemonTypeOK
    
    SocketsSound
    OneMessageUnderWay
    
PROPERTIES
    
    ProcessesEndTogether
    DeviceSetUp
