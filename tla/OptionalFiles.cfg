SPECIFICATION FairSpec
CONSTANTS
    f1 = f1
    f2 = f2
    d1 = d1
    d2 = d2
    Files = {f1, f2}
    Dirs = {d1, d2}
    Under <- Held
    Unit = {f1}
    OptsOut = FALSE
    Size = 2
    Limits = {0, 1}
    Rounds = 2
    MaxMoves = 2
PROPERTIES PromiseKept PassStops
CHECK_DEADLOCK FALSE
