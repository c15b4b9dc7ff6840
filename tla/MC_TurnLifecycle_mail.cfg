SPECIFICATION LiveSpec
CONSTANTS
    Loop = Loop
    Guardian = Guardian
    UserItems = {u1}
    SteerItems = {}
    TriggerMail = {m1}
    PlainMail = {}
    Approvals = {}
    Injected = {}
    MaxInterrupts = 2
    MaxTasks = 4
    MaxTurns = 5
    MaxFollowUps = 0
    HooksMayBlock = TRUE
    RunMayFail = FALSE
INVARIANTS
  WorkingTasksAreReachable
  TokensFireOnce
  EmptyTurnHasAnOwner
PROPERTIES
  TriggerMailIsTaken
CHECK_DEADLOCK FALSE
