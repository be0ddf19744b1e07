SPECIFICATION Spec
CONSTANTS
    Run = {r1, r2}
    RequestId = {idA}
    Ttl = 1
    MaxChunks = 2
    Nobody = Nobody
    MaxText = 1
    MinText = 1
    Backends <- AllBackends
SYMMETRY PipelineSymmetry
INVARIANTS
    IngestionTypeOK
    ReportIsTruthful
    IndexLayered
PROPERTIES
    ImplementsIndex
    ImplementsLock
    WritesAreSentLocked
    JobsAdvance
