SPECIFICATION Spec
CONSTANTS
    c1 = c1
    c2 = c2
    a = a
    NoDoc = NoDoc
    NoTx = NoTx
    NoDAG = NoDAG
    Clients <- TwoClients
    Writers <- TwoClients
    Retirers <- OneRetirer
    Data <- OneDatum
    Policies <- ByAge
    MaxSeq = 3
    MaxCreates = 1
CHECK_DEADLOCK FALSE
PROPERTY LiveHeadsRetained
