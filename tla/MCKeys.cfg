SPECIFICATION Spec
CONSTANTS
  Clients = {"c1", "c2"}
  Managers <- Manager
  Names = {"k1", "k2"}
  MaxCalls = 3
  Instances <- Served
INVARIANTS
  RoundTrip
  AuthBinding
  PastKept
  RotationTakesEffect
  Deactivated
  GeneratedKeyServes
  ManagedById
CHECK_DEADLOCK FALSE
