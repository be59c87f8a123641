SPECIFICATION MCSpec
CONSTANTS
    Scenarios <- Every
    MaxId = 2
    Images = {1, 2}
    Workers = {w1, w2}
    Writers = {x1}
    Hooks = {h1}
    BatchSizes = {1, 2}
    MaxWrites = 2
    MaxStarts = 2
    MaxStops = 1
INVARIANTS EmbeddingsAreSound RunningTellsTruth
PROPERTIES SingleUntilStopped BackfillsEndWhole
CHECK_DEADLOCK FALSE
