SPECIFICATION Spec
CONSTANTS
    c1 = c1
    c2 = c2
    h1 = h1
    h2 = h2
    p1 = p1
    p2 = p2
    p3 = p3
    Contexts <- MCContext
    Handlers <- MCHandlers
    Procs <- MCProcs
    MaxLogs = 4
    Nobody = Nobody
INVARIANTS OnlyIncludedRemoved
CHECK_DEADLOCK FALSE
