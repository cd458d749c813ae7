SPECIFICATION Spec
CONSTANTS
    l1 = l1
    l2 = l2
    NoLink = NoLink
    Links <- TwoLinks
    RingSize = 1
    MaxPending = 2
    MaxErrors = 1
    MaxLog = 2
    MaxWire = 2
    MaxLife = 2
    MaxBreaks = 2
    MaxFaults = 2
CHECK_DEADLOCK FALSE
SYMMETRY Symmetry
INVARIANTS TypeOK NoFalseOk PublishedOnce AckedMeansAnswered  NoTicketStranded
           NothingStuck
