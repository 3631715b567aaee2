SPECIFICATION Spec
CONSTANTS
    Files <- MCFiles
    KeyPairs <- MCKeyPairs
    Inputs <- MCInputs
    Claims <- MCClaims
    Options <- MCOptions
    MaxTime = 2
    MaxTokens = 1
    MaxBuilt = 2
    MaxWrites = 2
INVARIANTS
    Authentic
    OwnTokensServe
    LastKeysWin
CHECK_DEADLOCK FALSE
