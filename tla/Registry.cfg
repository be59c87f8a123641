SPECIFICATION MCSpec
CONSTANTS
    core = core
    faces = faces
    old = old
    new = new
    Processes = {core, faces, old, new}
    Ids = {"core", "exif", "faces"}
    Id <- MCId
    Kind <- MCKind
    Leases = {1, 2, 3, 4, 5, 6}
    Losses = FALSE
    Overlap = FALSE
    MaxTroubles = 2
INVARIANT TypeOK
PROPERTIES ListFollowsServices PeerFollows
