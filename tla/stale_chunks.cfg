SPECIFICATION Spec
CONSTANTS
    Run = {r1}
    RequestId = {idA}
    Ttl = 1
    MaxChunks = 2
    Nobody = Nobody
    MaxText = 1
    MinText = 1
    Backends <- ShippedBackends
INVARIANT NoStaleChunks
