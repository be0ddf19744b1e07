SPECIFICATION FairSpec
CONSTANTS
    Pod = {p1}
    Job = {j1}
    Sweeper = {}
    MaxChunks = 1
    MaxCollections = 1
    MaxKeys = 2
    MaxModels = 1
PROPERTY
    RotationNeedsNoRestart
