SPECIFICATION FairSpec
CONSTANTS
    Run = {r1, r2}
    RequestId = {idA}
    Ttl = 1
    MaxChunks = 1
    Nobody = Nobody
    MaxText = 1
    MinText = 1
    Backends <- ShippedBackends
PROPERTY EveryLaunchEnds
