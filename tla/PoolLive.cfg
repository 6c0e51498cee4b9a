\* Liveness of the answers and of both shutdowns.
CONSTANTS
    Worker = {w1, w2}
    Request = {r1, r2}
    Fd = {f1, f2}
    None = None
    MaxRequests = 2
    MaxAnswers = 1
SPECIFICATION FairSpec
CHECK_DEADLOCK FALSE
PROPERTIES
    ShutdownReturns
    AcceptedAnswered
