SPECIFICATION Spec
CONSTANTS
    r1 = r1
    r2 = r2
    c1 = c1
    c2 = c2
    c3 = c3
    c4 = c4
    sigint = sigint
    sigterm = sigterm
    Main = main
    None = None
    WorkerCount = 2
    Reader <- OneReader
    Conn <- OneConn
    MaxRequests = 1
    Signal <- OneSignal
    Hosts <- MainOnly
    MaxSignals = 1
INVARIANTS DestroyedAfterLeft
CHECK_DEADLOCK FALSE
