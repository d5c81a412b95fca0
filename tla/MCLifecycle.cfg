SPECIFICATION Spec
CONSTANTS
    t1 = t1
    t2 = t2
    n1 = n1
    n2 = n2
    c1 = c1
    c2 = c2
    None = None
    Task = {t1, t2}
    Name = {n1, n2}
    Content = {c1, c2}
    Dep = "dep"
    Modules <- MCModules
    MaxBuilds = 2
    MaxFaults = 1
    MaxEdits = 1
    MaxRetries = 1
SYMMETRY Symmetry
INVARIANTS
    TypeOK
    ArtifactExact
    ContainersReleased
    
CHECK_DEADLOCK FALSE
