SPECIFICATION Spec
CONSTANTS
    Loop = Loop
    Guardian = Guardian
    UserItems = {u1, u2}
    SteerItems = {}
    TriggerMail = {m1}
    PlainMail = {}
    Approvals = {}
    Injected = {}
    MaxInterrupts = 0
    MaxTasks = 4
    MaxTurns = 5
    MaxFollowUps = 0
    HooksMayBlock = FALSE
    RunMayFail = FALSE
INVARIANT
  StartsInEmptyTurn
CHECK_DEADLOCK FALSE
