SPECIFICATION Spec
CONSTANTS
    c1 = c1
    c2 = c2
    a = a
    NoDoc = NoDoc
    NoTx = NoTx
    NoDAG = NoDAG
    Clients <- TwoClients
    Writers <- TwoClients
    Retirers <- TwoClients
    Data <- OneDatum
    Policies <- ByCount
    MaxSeq = 3
    MaxCreates = 1
SYMMETRY Requests
CHECK_DEADLOCK FALSE
INVARIANTS TypeOK BlobsCounted NoLostUpdate DocumentHasHistory
PROPERTY LiveHeadsRetained
