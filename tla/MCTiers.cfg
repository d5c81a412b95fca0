SPECIFICATION Spec
CONSTANTS
    t1 = t1
    t2 = t2
    near = near
    far = far
    None = None
    Task = {t1, t2}
    Cache = {near, far}
    Priority <- MCPriority
    Build = far
    Source <- MCSource
    Kind <- MCKind
    Origin <- MCOrigin
    Ref <- MCRef
    Label <- MCLabel
    Vendored <- MCVendored
    Product <- MCProduct
    Worlds <- MCWorlds
    Remotes <- MCRemotes
    Editable <- MCEditable
    Id <- MCId
    Digest <- MCDigest
    Prefix <- MCPrefix
    CHUNK_SIZE = 2
    MaxRoom = 3
    MaxCalls = 2
    MaxFaults = 1
    MaxEdits = 1
SYMMETRY Symmetry
INVARIANTS
    
    
    FailsForACause
CHECK_DEADLOCK FALSE
