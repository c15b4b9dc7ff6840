SPECIFICATION FairSpec
CONSTANTS
  Threads = {t1}
  Procs = {p1, p2}
  Tokens = {1, 2, 3, 4, 5, 6, 7}
  Lease = 2
  RetryDelay = 1
  Cooldown = 1
  Retries = 1
  MaxClaimed = 1
  MaxLag = 0
  MaxVersion = 1
  UserActs = {"pollute", "mode"}
  MaxActs = 2
  MaxFaults = 2
  Phase2 = TRUE
  Punctual = TRUE
PROPERTIES
  StaleThreadIsExtracted
  PollutedIsForgotten
CHECK_DEADLOCK FALSE
