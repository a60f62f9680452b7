SPECIFICATION FairSpec
CONSTANTS
    NGroups = 3
    NEntry = 1
    MaxJoins = 1
    Classes <- MCClasses
    Class <- MixedClass
    Label <- OwnLabel
    ReqSize <- MCReqSize
    Depth <- MCDepth
    DefaultReqSize = 2
    BitsChoices <- Staggered
    MaxDuplicates = 1
    PeerFailLimit = 2
    BusyLimit = 2
    LinkLimit = 2
    SatPatience = 1
    JoinPatience = 1
    MaxExt = 1
INVARIANTS TypeOK LedgerExact ReportExact RacersHoldBatch NoStrandedGroup
PROPERTIES RevivalEarned FetchReturns ImplementsContract
