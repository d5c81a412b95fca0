SPECIFICATION FairSpec
CONSTANTS
    i1 = i1
    i2 = i2
    Id = {i1, i2}
    d1 = d1
    d2 = d2
    Digest = {d1, d2}
    Output <- MCOutput
    Prefix <- MCPrefix
    Builder = {b1, b2}
    Pruner = p
    MaxOps = 4
    MaxCrash = 1
    None = None
    Torn = Torn
INVARIANTS
    TypeOK
    ManifestsComplete
    SavesKept
    CountsSound
    DeletedLayersGone
PROPERTIES
    OpsReturn
CHECK_DEADLOCK FALSE
