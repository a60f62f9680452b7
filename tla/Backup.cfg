SPECIFICATION Spec
CONSTANTS
    users = users
    xites = xites
    sites = sites
    index = index
    page = page
    Files = {users, xites, sites, index, page}
    Component <- Covers
    Tree = {index, page}
    Keys = users
    Registry = xites
    Legacy = sites
    Starts <- Begun
    Foreign <- Older
    Tasks = {t1, t2}
    Slots = {s1, s2}
    MaxRequests = 2
    MaxEdits = 1
    MaxFaults = 2
SYMMETRY Alike
INVARIANTS SafetyNet RestoreExact
