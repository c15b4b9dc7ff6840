SPECIFICATION LiveSpec
CONSTANTS
    Loop = Loop
    Guardian = Guardian
    UserItems = {u1}
    SteerItems = {s1}
    TriggerMail = {}
    PlainMail = {}
    Approvals = {a1}
    Injected = {i1}
    MaxInterrupts = 1
    MaxTasks = 3
    MaxTurns = 4
    MaxFollowUps = 1
    HooksMayBlock = FALSE
    RunMayFail = TRUE
INVARIANTS
  UserInputInGoodHands
PROPERTIES
  StartedTurnEnds
  UserInputIsSettled
CHECK_DEADLOCK FALSE
