SPECIFICATION Spec
CONSTANTS
    Peers = {1, 2, 3}
    Cap = 3
    FreeBytes = 2
    FreeWindow = 1
    MaxTracked = 2
    IdleEvict = 1
    UnchokeSlots = 3
    OverlaySlots = 1
    Rotate = 1
    ActiveWindow = 0
    Conns = {1, 2, 3}
    PeerOf <- OneEach
    ReachOf <- AllClearnet
    Reqs = {r1, r2}
    Shapes <- GovernorShapes
    MaxServes = 1
    MaxQueue = 1
    MaxEncode = 1
    Players = {}
    MaxTime = 1
    MaxLag = 1
    MaxCredit = 1
    MaxPauses = 0
SYMMETRY ReqSymmetry
INVARIANTS ConnsPaired CacheSound CapHeldInOrder
PROPERTIES ChokedOnlyUnderContention
CONSTRAINT Bounded
