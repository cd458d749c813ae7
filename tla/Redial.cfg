SPECIFICATION FairSpec
CONSTANTS
    u1 = u1
    u2 = u2
    l1 = l1
    l2 = l2
    Loop = Loop
    NoLink = NoLink
    Users <- TwoUsers
    Links <- TwoLinks
    MaxCalls = 2
    Serial = TRUE
CHECK_DEADLOCK FALSE
INVARIANTS TypeOK MarksHaveALoop ForgottenStaysDown ClosedStaysDown
PROPERTIES Served CloseReturns DisconnectReturns
