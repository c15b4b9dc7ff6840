SPECIFICATION Spec
CONSTANTS
  Callers = {a, b}
  NoCaller = none
  ChannelCap = 1
  MaxRecorders = 2
  MaxCalls = 3
  MaxTroubles = 2
INVARIANTS
  ItemsAccountedFor
  PromisesAreKept
  MetaComesFirst
PROPERTIES
  BarriersAreAnswered
CHECK_DEADLOCK FALSE
