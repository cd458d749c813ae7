SPECIFICATION Spec
CONSTANTS
    c1 = c1
    c2 = c2
    NoConn = NoConn
    Conns <- TwoConns
    Seeds <- MCSeeds
    RingSize = 1
    WriterBatch = 2
    MaxEpoch = 1
    MaxLog = 2
    MaxWire = 1
CHECK_DEADLOCK FALSE
SYMMETRY Symmetry
INVARIANTS TypeOK NoSilentLoss WireComplete
PROPERTY ImplementsFeed
