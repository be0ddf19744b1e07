SPECIFICATION LockFairSpec
CONSTANTS
    Run = {r1, r2}
    RequestId = {idA, idB}
    Ttl = 2
    Nobody = Nobody
INVARIANTS
    LockTypeOK
    SafetyBelt
    HoldsOwnLock
    NoLeftovers
PROPERTY NeverWedged
