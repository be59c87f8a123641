SPECIFICATION LlmSpec
CONSTANTS
    Photos = {p1}
    Requests = {1, 2, 3}
    Responses <- FewResponses
    MinTags = 2
    MaxTags = 2
    MaxAgeings = 1
    MaxRestarts = 1
    NoFlight = 0
    Models = {m1, m2}
    MaxMoves = 1
    Clients = {e1, e2}
    MaxImages = 3
    Names = {1, 2, 3}
INVARIANTS
    AnswersAreSound
    OrderlyDescribesTheAddress
    ChoicesAreKept
PROPERTIES
    OrderlyKeepsDescriptions
    RequestsEnd
\* All requests have been made and answered.
CHECK_DEADLOCK FALSE
