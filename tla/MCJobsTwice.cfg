SPECIFICATION Spec
CONSTANTS
    d1 = d1
    i1 = i1
    i2 = i2
    Defs <- MCDef
    Ids <- MCId
    Kinds = {"interval"}
    MaxGen = 2
    NoDef = NoDef
    NoId = NoId
INVARIANTS OneLoopPerJob
