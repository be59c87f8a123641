SPECIFICATION TalkSpec
SYMMETRY TurnSymmetry
CONSTANTS
    Turns = {t1, t2}
    MaxCreated = 7
    MaxSent = 3
    MaxCalls = 2
    MaxToolRounds = 2
    Threshold = 2
    Limit = 7
    KeepRecent = 2
INVARIANT HistoriesAreSound
PROPERTY NothingIsForgotten
\* All user messages have been sent, or the conversation is deleted.
CHECK_DEADLOCK FALSE
