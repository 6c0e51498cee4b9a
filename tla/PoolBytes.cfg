\* Whether an ERR_OK answer delivers the file that was asked for.
CONSTANTS
    Worker = {w1, w2}
    Request = {r1, r2, r3}
    Fd = {f1, f2}
    None = None
    MaxRequests = 2
    MaxAnswers = 1
SYMMETRY Symmetry
SPECIFICATION Spec
CHECK_DEADLOCK FALSE
INVARIANTS
    ReadsOwnFile
