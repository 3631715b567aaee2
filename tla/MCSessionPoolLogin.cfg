CONSTANTS
    c1 = c1  c2 = c2  c3 = c3
    h1 = h1  h2 = h2  h3 = h3
    Callers <- MCCallers2
    Handles <- MCHandles
    MaxSession = 2
    TokenMax = 0
    SizeKnown = TRUE
    MaxFaults = 0
    NoSession = NoSession
SPECIFICATION Spec
INVARIANT NeverRefusedLogin

