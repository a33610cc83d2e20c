CONSTANTS
    w1 = w1
    w2 = w2
    b1 = b1
    d1 = d1
    s1 = s1
    r1 = r1
    r2 = r2
    ReservationIDs = {r1, r2}
    Keys = {n1, n2}
    OperationIDs = {o1}
    TxIDs = {t1}
    Digests <- MCDigests
    None = 0
    MaxDelay = 0
    ProofWorkers = {w1, w2}
    Broadcasters = {b1}
    Daemons = {d1}
    Sweepers = {s1}
    TokensOf <- MCTokensOf
    DigestsOf <- MCDigestsOf
    TTL = 1
    MaxFaults = 1
    Chosen = {1, 2, 3, 4, 5, 6}
SPECIFICATION MCSpec
INVARIANTS HandedStaysHeld ArtifactBeforeStatus OwnLeaseOwnMessage
CHECK_DEADLOCK FALSE
