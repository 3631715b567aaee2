SPECIFICATION Spec
CONSTANTS
  Clients = {"c1", "c2"}
  Managers <- Manager
  Names = {"k1", "k2"}
  MaxCalls = 3
  Instances <- GooglePairs
INVARIANTS DeactivatedById
CHECK_DEADLOCK FALSE
