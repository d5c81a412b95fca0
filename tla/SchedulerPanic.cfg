SPECIFICATION FairSpec
CONSTANTS
    a = a
    b = b
    c = c
    d = d
    e = e
    x = x
    Node = {a, b, c, d, e, x}
    Edge <- MCEdge
    Root = a
    Worker = {w1, w2}
    MaxRetry = 1
    None = None
CHECK_DEADLOCK FALSE
PROPERTY PanicsSurface
