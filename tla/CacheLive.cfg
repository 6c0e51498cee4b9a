\* Liveness of the holder of the mutex.
CONSTANTS
    k1 = k1  k2 = k2
    Key = {k1, k2}
    Thread = {t1, t2}
    Buffer = {b1, b2}
    Handle = {h1}
    None = None
    Hash <- HashCollide
    Sizes = {1}
    MaxMemory = 2
    MaxEntries = 2
    MaxBufferSize = 2
    MaxTime = 0
SPECIFICATION FairSpec
CHECK_DEADLOCK FALSE
PROPERTIES
    HolderReleases
