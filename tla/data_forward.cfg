CONSTANTS
    Peers = {p, q}
    Unsound = {}
    MaxTap = 0
    MaxUdp = 1
    MaxChanges = 1
SPECIFICATION FairSpec
CHECK_DEADLOCK FALSE
PROPERTY
    ForwardedToOthers
