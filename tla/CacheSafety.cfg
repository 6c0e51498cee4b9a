\* Safety: two threads, three buffers, keys that collide.
CONSTANTS
    k1 = k1  k2 = k2
    Key = {k1, k2}
    Thread = {t1, t2}
    Buffer = {b1, b2, b3}
    Handle = {h1, h2}
    None = None
    Hash <- HashCollide
    Sizes = {1, 2, 3}
    MaxMemory = 3
    MaxEntries = 2
    MaxBufferSize = 2
    MaxTime = 1
SYMMETRY CollidingSymmetry
SPECIFICATION Spec
CHECK_DEADLOCK FALSE
INVARIANTS
    TypeOK
    HandlesPinBuffers
    RefsCountHandles
    AccountingExact
    WithinLimits
    ChainsWellFormed
    ListedStayUnreferenced
PROPERTIES
    EvictsOldest
    ImplementsStore
