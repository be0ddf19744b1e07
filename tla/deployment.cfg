SPECIFICATION Spec
CONSTANTS
    Pod = {p1}
    Job = {j1}
    Sweeper = {s1}
    MaxChunks = 2
    MaxCollections = 3
    MaxKeys = 2
    MaxModels = 2
INVARIANTS
    DeploymentTypeOK
    RestartCures
    ResetRebuilds
    PageHasNoHoles
PROPERTY
    StaleStaysStale
