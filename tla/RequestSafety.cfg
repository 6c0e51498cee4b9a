SPECIFICATION FairSpec
CONSTANTS
    cr = cr
    lf = lf
    nul = nul
    None = None
    CR = cr
    LF = lf
    NUL = nul
    Byte <- ThreeBytes
    MaxRequest = 5
    BufferSize = 2
    PathSize = 3
    Paths <- TwoPaths
    Root = 2
    Index = 3
    HeaderSize = 2
    FileSizes <- TwoSizes
INVARIANTS TypeOK HeaderEndFound HandlesOwned SentInOrder
PROPERTIES DoneMeansSent ConnectionEnds
CHECK_DEADLOCK FALSE
