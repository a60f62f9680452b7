SPECIFICATION FairSpec
CONSTANTS
    Peers = {1}
    Cap = 4
    FreeBytes = 2
    FreeWindow = 2
    MaxTracked = 1
    IdleEvict = 2
    UnchokeSlots = 2
    OverlaySlots = 1
    Rotate = 2
    ActiveWindow = 0
    Conns = {1, 2}
    PeerOf <- OnePeer
    ReachOf <- AllOverlay
    Reqs = {r1, r2}
    Shapes <- PermitShapes
    MaxServes = 1
    MaxQueue = 1
    MaxEncode = 1
    Players = {f1}
    MaxTime = 0
    MaxLag = 0
    MaxCredit = 1
    MaxPauses = 1
INVARIANTS PermitsExact
PROPERTIES Answered
