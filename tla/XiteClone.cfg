SPECIFICATION FairSpec
CONSTANTS
    f1 = f1
    f2 = f2
    Seeders = {s1}
    Files = {f1, f2}
    MaxVersion = 2
    Manifest <- Declared
    Visitors = {visit}
    Retry = retry
    RaceSlots = 1
    DryPasses = 1
    Attempts = 1
    MaxFaults = 2
INVARIANTS StoredWhole
PROPERTIES Released GateOpens
