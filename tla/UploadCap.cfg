SPECIFICATION FairSpec
CONSTANTS
    Peers = {1}
    Cap = 3
    FreeBytes = 4
    FreeWindow = 1
    MaxTracked = 1
    IdleEvict = 1
    UnchokeSlots = 3
    OverlaySlots = 1
    Rotate = 1
    ActiveWindow = 0
    Conns = {1}
    PeerOf <- OneEach
    ReachOf <- AllClearnet
    Reqs = {r1, r2, r3}
    Shapes <- PageShapes
    MaxServes = 2
    MaxQueue = 1
    MaxEncode = 1
    Players = {}
    MaxTime = 1
    MaxLag = 1
    MaxCredit = 0
    MaxPauses = 0
INVARIANTS CapHeld
