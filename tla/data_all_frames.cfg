CONSTANTS
    Peers = {p, q}
    Unsound = {}
    MaxTap = 2
    MaxUdp = 0
    MaxChanges = 1
SPECIFICATION Spec
CHECK_DEADLOCK FALSE
INVARIANT
    AllFramesBroadcast
