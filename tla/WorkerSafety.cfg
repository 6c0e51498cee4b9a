\* Safety: two workers of one connection each, two files in a cache of three buffers.
CONSTANTS
    Worker = {w1, w2}
    Conn = {c1, c2}
    File = {f1, f2}
    Buffer = {b1, b2, b3}
    None = None
    MaxRequests = 1
SYMMETRY Symmetry
SPECIFICATION Spec
CHECK_DEADLOCK FALSE
PROPERTIES
    FollowsLifecycle
    ImplementsStore
INVARIANTS
    TypeOK
    ListsCounted
    NoLostWakeup
    CallbackTargetsLive
