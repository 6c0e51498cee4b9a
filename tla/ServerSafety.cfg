SPECIFICATION Spec
CONSTANTS
    r1 = r1
    r2 = r2
    c1 = c1
    c2 = c2
    c3 = c3
    c4 = c4
    sigint = sigint
    sigterm = sigterm
    Main = main
    None = None
    WorkerCount = 2
    Reader <- TwoReaders
    Conn <- ThreeConns
    MaxRequests = 1
    Signal <- TwoSignals
    Hosts <- OneOfEach
    MaxSignals = 2
SYMMETRY Symmetric
INVARIANTS TypeOK StoppedMeansLeft NoOrphans ConnectionsKept RoundRobin
CHECK_DEADLOCK FALSE
