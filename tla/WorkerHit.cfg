\* Whether answers are prepared from loaded buffers.
CONSTANTS
    Worker = {w1}
    Conn = {c1, c2}
    File = {f1}
    Buffer = {b1}
    None = None
    MaxRequests = 2
SYMMETRY Symmetry
SPECIFICATION Spec
CHECK_DEADLOCK FALSE
INVARIANTS
    AnsweredFromLoaded
