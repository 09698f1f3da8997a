\* One plan of two transactions: the node may change its answer and the user
\* the wallet between two runs.
SPECIFICATION FairSpec
CONSTANTS
    p1 = p1
    b1 = b1
    b2 = b2
    w1 = w1
    w2 = w2
    n1 = n1
    n2 = n2
    None = None
    Plans = {p1}
    Bodies = {b1, b2}
    Wallets = {w1, w2}
    Nonces = {n1, n2}
    NumTx = 2
    MaxAttempts = 4
    HasStateRoot = TRUE
    MayReject = TRUE
INVARIANTS TypeOK SuccessMeansFinalized OneSubmissionPerPlan PendingIsDurable
PROPERTIES ImplementsService EveryCallReturns
