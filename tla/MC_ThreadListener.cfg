CONSTANTS
    Conns = {c1, c2}
    MaxRequests = 3
    MaxAsks = 1
    MaxTurns = 1
    Timeouts = TRUE
SPECIFICATION Spec
SYMMETRY Symmetry

  
  
PROPERTIES
  ApprovalIsKept
  ListenerIsKept
  NoRequestAfterResolved
  NoticeBeforeDecision
CHECK_DEADLOCK FALSE
