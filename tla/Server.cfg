SPECIFICATION FairSpec
CONSTANTS
    r1 = r1
    r2 = r2
    c1 = c1
    c2 = c2
    c3 = c3
    c4 = c4
    sigint = sigint
    sigterm = sigterm
    Main = main
    None = None
    WorkerCount = 2
    Reader <- OneReader
    Conn <- FourConns
    MaxRequests = 1
    Signal <- OneSignal
    Hosts <- MainOnly
    MaxSignals = 2
INVARIANTS TypeOK StoppedMeansLeft NoOrphans ConnectionsKept RoundRobin
PROPERTIES ShutdownEnds BacklogServed
CHECK_DEADLOCK FALSE
CONSTRAINT AcceptedInOrder
