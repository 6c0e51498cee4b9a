\* Whether every request that waits for its body is answered.
CONSTANTS
    Worker = {w1}
    Conn = {c1}
    File = {f1}
    Buffer = {b1}
    None = None
    MaxRequests = 1
SPECIFICATION FairSpec
CHECK_DEADLOCK FALSE
PROPERTIES
    WaitingIsAnswered
