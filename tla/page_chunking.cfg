SPECIFICATION FairSpec
CONSTANTS
    MaxText = 4
    MaxInputChars = 2
    MaxRetries = 3
    Region <- Regions
    MaxRegions = 1
    MaxChunkChars = 4
    ChunkSize = 3
    Overlap = 1
CHECK_DEADLOCK FALSE
INVARIANTS
    ChunkingTypeOK
    WholePageAnalyzed
    GivesUpAfterMaxRetries
    NothingLost
    ChunksFit
    ChunksAreFull
    WindowsCover
PROPERTIES
    WorkRunsOut
    PageIsDone
