SPECIFICATION Spec
CONSTANTS
    r1 = r1
    r2 = r2
    Remotes <- TwoRemotes
    Pushers <- TwoRemotes
    Filtered <- NoFilter
    Removable = {}
    MaxQueue = 4
    MaxDiffs = 3
CHECK_DEADLOCK FALSE
INVARIANT NothingSkipped
