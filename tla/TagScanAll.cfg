SPECIFICATION MCSpec
CONSTANTS
    MaxId = 2
    Images = {1, 2}
    Tasks = {t1, t2}
    Users = {u1}
    DayLength = 4
    MaxDepth = 2
    Settings <- AllSettings
    Scenarios <- Every
INVARIANTS PausesHold WindowsAreUsed
PROPERTY LoopGoesOn
CHECK_DEADLOCK FALSE
