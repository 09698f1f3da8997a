\* Retrying reaches success.
SPECIFICATION RetrySpec
CONSTANTS
    p1 = p1
    p2 = p2
    b1 = b1
    b2 = b2
    w1 = w1
    n1 = n1
    n2 = n2
    None = None
    Plans = {p1}
    Bodies = {b1}
    Wallets = {w1}
    Nonces = {n1, n2}
    NumTx = 2
    MaxAttempts = 2
    HasStateRoot = TRUE
    MayReject = FALSE
PROPERTY RetriesSucceed
