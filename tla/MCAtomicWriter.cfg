SPECIFICATION BatchSpec
CONSTANTS
    private = private
    shared = shared
    N = 3
    Modes <- MCModes
    NewMode = shared
    RestoreMode = private
    MaxEdits = 2
INVARIANTS AllOrNothing NoEditLost OldOrNew NoTempLeft
CHECK_DEADLOCK FALSE
