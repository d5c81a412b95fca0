SPECIFICATION FairSpec
CONSTANTS
    i1 = i1
    i2 = i2
    Id = {i1, i2}
    d1 = d1
    d2 = d2
    Digest = {d1, d2}
    Output <- MCOutput
    Prefix <- MCPrefix
    Client = {c1, c2}
    MaxAttempts = 2
    MaxOps = 3
    MaxFaults = 1
    None = None
INVARIANTS
    TypeOK
    SavesKept
    ManifestsComplete
    LockReleased
PROPERTIES
    OpsReturn
CHECK_DEADLOCK FALSE
