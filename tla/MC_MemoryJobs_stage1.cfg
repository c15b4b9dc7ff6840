SPECIFICATION Spec
CONSTANTS
  Threads = {t1, t2}
  Procs = {p1, p2}
  Tokens = {1, 2, 3, 4, 5, 6, 7, 8, 9, 10}
  Lease = 2
  RetryDelay = 1
  Cooldown = 2
  Retries = 1
  MaxClaimed = 1
  MaxLag = 1
  MaxVersion = 2
  UserActs = {"update", "mode", "age", "use", "reset"}
  MaxActs = 2
  MaxFaults = 0
  Phase2 = FALSE
  Punctual = FALSE
SYMMETRY Symmetry
INVARIANTS
  RunningCapHolds
  OutputMatchesJob
  NothingSurvivesReset
PROPERTIES
  LiveLeaseIsKept
  ProgressIsKept
CHECK_DEADLOCK FALSE
