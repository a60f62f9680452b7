SPECIFICATION FairSpec
CONSTANTS
    Peers = {1, 2}
    Cap = 3
    FreeBytes = 2
    FreeWindow = 4
    MaxTracked = 2
    IdleEvict = 4
    UnchokeSlots = 3
    OverlaySlots = 1
    Rotate = 2
    ActiveWindow = 2
    Conns = {1, 2}
    PeerOf <- OneEach
    ReachOf <- AllClearnet
    Reqs = {r1, r2}
    Shapes <- BulkShapes
    MaxServes = 1
    MaxQueue = 1
    MaxEncode = 1
    Players = {}
    MaxTime = 3
    MaxLag = 1
    MaxCredit = 1
    MaxPauses = 0
PROPERTIES ChokedOnlyIfOutnumbered
