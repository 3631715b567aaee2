SPECIFICATION MCSpec
CONSTANTS
    s1 = "s1"
    s2 = "s2"
    Serving = "serve"
    Waiter = "waiter"
    Stoppers <- MCStoppers
    N = 2
    MaxServes = 2
    MaxSignals = 2
    MaxRpcs = 2
    Environment <- MCEnvironment
    Settings <- MCSettings
    MaxInits = 2
    MaxApps = 2
    MaxStarts = 2
    MaxStops = 2
    MaxRequests = 1
INVARIANTS FlushedOnReturn Released StartFlushes MutualTLSHonoured
PROPERTIES ServeTerminates StartReturns
CHECK_DEADLOCK FALSE
