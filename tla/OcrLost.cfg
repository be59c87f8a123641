SPECIFICATION MCSpec
CONSTANTS
    Images = {1, 2}
    Runs = {r1, r2}
    NumCPU = 2
    Settings = {0, 1, 3}
    BatchSize = 2
    MaxChanges = 0
    MaxStops = 0
    MaxSettings = 0
    Scenarios <- Two
INVARIANTS CompleteMeansAll
CHECK_DEADLOCK FALSE
