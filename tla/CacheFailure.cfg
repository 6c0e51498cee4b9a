\* What a CreateBuffer that fails has done.
CONSTANTS
    k1 = k1  k2 = k2
    Key = {k1, k2}
    Thread = {t1, t2}
    Buffer = {b1, b2, b3}
    Handle = {h1}
    None = None
    Hash <- HashCollide
    Sizes = {1, 2}
    MaxMemory = 3
    MaxEntries = 3
    MaxBufferSize = 2
    MaxTime = 0
SPECIFICATION Spec
CHECK_DEADLOCK FALSE
PROPERTIES
    FailedCreateFreesNothing
