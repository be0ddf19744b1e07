SPECIFICATION LockSpec
CONSTANTS
    Run = {r1, r2}
    RequestId = {idA, idB}
    Ttl = 2
    Nobody = Nobody
INVARIANT OneRunAtATime
