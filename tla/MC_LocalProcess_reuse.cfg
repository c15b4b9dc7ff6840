SPECIFICATION Spec
CONSTANTS
  Pids = {p1}
  Gens = {g1, g2}
  MaxChunks = 1
  RetainedChunks = 1
  MaxBytes = {}
  OutCapacity = 1
  None = None
SYMMETRY Symmetry
INVARIANTS
  OutputBelongsToProcess
CHECK_DEADLOCK FALSE
