SPECIFICATION SFairSpec
CONSTANTS
  Pids = {p1}
  Gens = {g1}
  MaxChunks = 2
  RetainedChunks = 3
  MaxBytes = {}
  OutCapacity = 1
  None = None
  LogCapacity = 2
INVARIANTS
  NoSilentGap
  ClosedMeansComplete
PROPERTIES
  DeliveredFeed
  StreamEnds
CHECK_DEADLOCK FALSE
