SPECIFICATION Spec
CONSTANTS
    Objs = {a, b}
    Junk = Junk
    Threads = {t1, t2}
    NoThread = NoThread
    SealLen = 2
    DeadNum = 0
    MaxSlab = 2
    MaxCalls = 5
    MaxCrashes = 1
    MaxLosses = 1
SYMMETRY Symmetry
INVARIANTS TypeOK OpenAligned SlabAddressed ReadsHonest
PROPERTIES CompactionInvisible EvictionSpares
CHECK_DEADLOCK FALSE
