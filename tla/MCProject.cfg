SPECIFICATION FairSpec
CONSTANTS
    app = app
    lib = lib
    v1 = v1
    v2 = v2
    root = root
    sub = sub
    ra = ra
    sa = sa
    code = code
    NotATable = NotATable
    Runtimes = {"podman", "docker"}
    UserConfig <- MCUserConfig
    Addr = {ra, sa}
    Name = {app, lib}
    Vendor = {v1, v2}
    Version = {1, 2}
    Depends <- MCDepends
    None = None
    Torn = Torn
    Proc = {p1, p2}
    File = {root, sub}
    Variants <- MCVariants
    Projects <- MCProjects
    Movable <- MCMovable
    Published <- MCPublished
    Contents = {"a"}
    MaxLoads = 2
    MaxChanges = 1
INVARIANTS
    TypeOK
    
    
PROPERTIES
    NoSilentResolution
    
CHECK_DEADLOCK FALSE
