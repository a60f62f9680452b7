SPECIFICATION Spec
CONSTANTS
    Nodes = {a, b}
    Owner = b
    Devices = {a}
    Records = {r1}
    Strays = {}
    Writer <- MCWriter
    MaxUser = 2
    MaxUsers = 2
    Modified <- Stamps
    Archived <- Cutoffs
    Banned = {}
    SweepUnion = 2
    RetryRounds = 1
    MaxUpsets = 1
    MaxTasks = 2
    MaxPushes = 1
    Pushed = {}
    a = a
    b = b
    r1 = r1
    r2 = r2
    x = x

PROPERTIES RecordsKept
