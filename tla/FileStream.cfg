SPECIFICATION FairSpec
CONSTANTS
    path1 = path1
    path2 = path2
    GroupCount = 3
    Paths = {path1, path2}
    BatchMax = 1
    HeadTries = 1
    LetIn <- Overlap
    Asks <- Asking
    Windows <- Ranges
    MaxFaults = 1
INVARIANTS BitsBacked
PROPERTIES Delivered Settles
CHECK_DEADLOCK FALSE
