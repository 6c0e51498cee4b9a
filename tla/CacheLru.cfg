\* Which buffers the eviction destroys.
CONSTANTS
    k1 = k1  k2 = k2
    Key = {k1, k2}
    Thread = {t1, t2}
    Buffer = {b1, b2, b3}
    Handle = {h1}
    None = None
    Hash <- HashCollide
    Sizes = {1}
    MaxMemory = 2
    MaxEntries = 2
    MaxBufferSize = 2
    MaxTime = 1
SPECIFICATION Spec
CHECK_DEADLOCK FALSE
PROPERTIES
    EvictsTheListed
