SPECIFICATION FairSpec
CONSTANTS
    a = a
    b = b
    c = c
    m = m
    Addr <- MCAddr
    Registered <- MCRegistered
    Projects <- MCProjects
    Root = a
    workers = 2
INVARIANTS
    TypeOK
    GraphExact
    RefusalJustified
    TemplateExact
    FetchComplete
PROPERTIES
    Returns
CHECK_DEADLOCK FALSE
