\* Two workers and one buffer, whose write lock they share: liveness of their walks and answers.
CONSTANTS
    Worker = {w1, w2}
    Conn = {c1, c2}
    File = {f1}
    Buffer = {b1}
    None = None
    MaxRequests = 1
SPECIFICATION FairSpec
CHECK_DEADLOCK FALSE
PROPERTIES
    AnswerIsSent
    WalkEnds
