SPECIFICATION FairSpec
CONSTANTS
  Pids = {p1}
  Gens = {g1}
  MaxChunks = 3
  RetainedChunks = 2
  MaxBytes = {0, 2}
  OutCapacity = 1
  None = None
INVARIANTS
  ProcInv
  ReaderMissesNothing
PROPERTIES
  FeedsWellFormed
  TerminatedIsEvicted
CHECK_DEADLOCK FALSE
