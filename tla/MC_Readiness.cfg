SPECIFICATION Spec
CONSTANTS
  Procs = {a, b}
  Modulus = 4
INVARIANTS
  TokenInv
PROPERTIES
  EarlyWaitersReturn
CHECK_DEADLOCK FALSE
