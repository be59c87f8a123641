SPECIFICATION MCSpec
CONSTANTS
    Images <- ThreePhotos
    Detections <- Looks
    PhotoOf <- PlaceOfLook
    SizeOf <- SizeOfLook
    ConfidenceOf <- SureOfLook
    Similarity <- LikenessOfLooks
    ExemplarLimit = 2
    MaxFace = 12
    MaxPerson = 3
    Users = {u1}
    MaxRequests = 2
    Loops = {1}
    BatchSize = 2
    BatchConcurrency = 2
    ClusterSize = 2
    RecognitionFloor = 4
    AssignFloor = 5
    Margin = 1
    CentreGain = 1
    MergeFloor = 6
    SupportFloor = 6
    MergeSupport = 1
    MergeFacesMin = 3
    MaxRestarts = 2
    MaxStops = 1
    MaxTouches = 2
INVARIANTS SerialCatalogueIsSound SerialPeopleAreThere
PROPERTIES SerialCurationIsKept UntouchedLooksGetPeople
CHECK_DEADLOCK FALSE
