SPECIFICATION MCSpec
CONSTANTS
    w1 = w1
    d1 = d1
    r1 = r1
    r2 = r2
    ReservationIDs = {r1, r2}
    Keys = {n1, n2}
    OperationIDs = {o1}
    TxIDs = {t1}
    Digests <- MCDigests
    None = 0
    MaxDelay = 0
    ProofWorkers = {w1}
    Broadcasters = {}
    Daemons = {d1}
    Sweepers = {}
    TokensOf <- MCTokensOf
    DigestsOf <- MCDigestsOf
    TTL = 1
    MaxFaults = 1
CHECK_DEADLOCK FALSE
PROPERTIES
    ProvingEnds
    SubmittedResolves
