SPECIFICATION LiveSpec
CONSTANTS
    c1 = c1
    c2 = c2
    NoConn = NoConn
    Conns <- OneConn
    Seeds <- MCSeeds
    RingSize = 2
    WriterBatch = 2
    MaxEpoch = 2
    MaxLog = 2
    MaxWire = 2
CHECK_DEADLOCK FALSE
INVARIANTS NoSilentLoss
PROPERTIES ImplementsFeed CatchesUp
