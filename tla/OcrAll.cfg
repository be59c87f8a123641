SPECIFICATION MCSpec
CONSTANTS
    Images = {1, 2, 3, 4, 5}
    Runs = {r1, r2}
    NumCPU = 2
    Settings = {0, 1, 3}
    BatchSize = 2
    MaxChanges = 2
    MaxStops = 1
    MaxSettings = 1
    Scenarios <- Every
INVARIANTS RunsWithinCapacity NothingIsLost
PROPERTIES SingleUntilFruitless RunsEnd
CHECK_DEADLOCK FALSE
