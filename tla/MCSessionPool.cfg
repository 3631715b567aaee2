CONSTANTS
    c1 = c1  c2 = c2  c3 = c3
    h1 = h1  h2 = h2  h3 = h3
    Callers <- MCCallers3
    Handles <- MCHandles
    MaxSession = 2
    TokenMax = 0
    SizeKnown = TRUE
    MaxFaults = 2
    NoSession = NoSession
SPECIFICATION MCSpec
INVARIANTS PermitsReturned Exclusive NoSessionLeak OpenSessionsBounded
PROPERTIES OpReturns
