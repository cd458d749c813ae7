SPECIFICATION FairSpec
CONSTANTS
    u1 = u1
    u2 = u2
    l1 = l1
    l2 = l2
    Loop = Loop
    NoLink = NoLink
    Users <- TwoUsers
    Links <- TwoLinks
    MaxCalls = 3
    Serial = FALSE
CHECK_DEADLOCK FALSE
PROPERTY Served
