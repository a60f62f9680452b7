SPECIFICATION FairSpec
CONSTANTS
    Streams = {1, 2}
    PingChoices = {{}, {2}}
    Bulk = {1}
    NFrames <- OneLongReply
    LaneCap = 1
    ChanCap = 1
    WireCap = 1
    Budget = 1
INVARIANTS NobodyStranded StreamComplete
PROPERTIES CallsEnd
CHECK_DEADLOCK FALSE
