SPECIFICATION Spec
CONSTANTS
    l1 = l1
    l2 = l2
    NoLink = NoLink
    Links <- TwoLinks
    RingSize = 2
    MaxPending = 2
    MaxErrors = 1
    MaxLog = 2
    MaxWire = 2
    MaxLife = 2
    MaxBreaks = 1
    MaxFaults = 2
CHECK_DEADLOCK FALSE
SYMMETRY Symmetry
INVARIANT NeverFalseOk
