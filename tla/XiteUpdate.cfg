SPECIFICATION FairSpec
CONSTANTS
    Nodes = {o, a}
    Owner = o
    Files <- MCFiles
    MaxVersion = 3
    Manifest <- MCManifest
    Inline = {1, 2}
    Limits <- MCLimits
    Passes = {loop}
    Loop = loop
    MaxUpsets = 1
INVARIANTS
    UntangledConsistent
CHECK_DEADLOCK FALSE
PROPERTIES
    Adopted
    UriReleased
