SPECIFICATION FairSpec
CONSTANTS
    Request = {q1, q2}
    NoRequest = NoRequest
    RetrieveK = 2
    Multiplier = 1
    FetchFloor = 3
    Full = 2
    Level <- Scores
PROPERTY HealthNeedsNoChroma
