SPECIFICATION Spec
CONSTANTS
    c1 = c1
    c2 = c2
    h1 = h1
    h2 = h2
    p1 = p1
    p2 = p2
    p3 = p3
    Contexts <- MCContexts
    Handlers <- MCHandlers
    Procs <- MCProcs
    MaxLogs = 5
    Nobody = Nobody
SYMMETRY MCSymmetry
INVARIANTS DroppedOnlyIfLogged NeverRepeated
CHECK_DEADLOCK FALSE
