SPECIFICATION FairSpec
CONSTANTS
    d1 = d1
    i1 = i1
    i2 = i2
    Defs <- MCDef
    Ids <- MCIds
    Kinds = {"interval", "timed", "daily", "aligned"}
    MaxGen = 2
    NoDef = NoDef
    NoId = NoId
INVARIANTS RegistryAgrees NoJobForgotten StopQuiesces ClosesOpenChannel
PROPERTIES NeverResurrected StopTerminates StoppedJobEnds
