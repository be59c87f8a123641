SPECIFICATION PhotosSpec
SYMMETRY PhotosSymmetry
CONSTANTS
    PageSize = 2
    SecondTicks = 2
    DayTicks = 6
    Views <- AllViews
    Times <- AllTimes
    Days = {1}
    Clusters = {"c"}
    MaxId = 4
    MaxChanges = 1
    MaxViews = 1
    Pictures = {"photo"}
    Dirs = {"a", "b"}
    DefaultDir = "a"
    Tasks = {w1, w2}
    MaxContent = 2
    MaxUpsets = 2
    Photos = {p1, p2}
    Places = {a1, a2}
    Workers = {w1, w2}
    MaxTime = 2
    MaxClaims = 2
    PhotoFiles <- FewFiles
    FaceBoxes <- FewBoxes
    NotShown = NotShown
    TrashScenarios <- Every
    InitialDisks <- AllDisks
    Contents = {"c1", "c2"}
    Stems = {"a", "b"}
    Folders = {"d1", "d2"}
    TrashDirs = {"t1"}
    Cwd = "cwd"
    NoDir = NoDir
    NoHash = NoHash
    NoPath = NoPath
    Requests = {w1, w2}
    Calls = {"delete", "batch", "list", "restore", "purge", "clean", "move", "settings"}
    MaxBatch = 2
    MaxCalls = 6
    MaxClock = 1
    MaxFaults = 1
    MaxCrashes = 1
INVARIANTS
    TrashTypeOK
    NoContentLost
    SafeStoresAgree
    ListingsShowAllOnce
    ThumbnailsAreCurrent
    LocationsAreKept
    FacesAreFramed
PROPERTY RepairingListing
\* A reader has seen a listing to its end, or all bounds are reached.
CHECK_DEADLOCK FALSE
