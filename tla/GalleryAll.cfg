SPECIFICATION MCSpec
CONSTANTS
    Files = {1, 2}
    PageSize = 1
    MaxId = 6
    MaxContent = 3
    Slots = {1, 2}
    Scenarios <- Every
INVARIANTS UnchangedFilesAreCurrent SerialTablesAreSound
PROPERTIES ImagesAreKept PassesEnd
CHECK_DEADLOCK FALSE
