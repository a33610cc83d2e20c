SPECIFICATION MCSpec
CONSTANTS
    ReservationIDs = {r1, r2}
    Keys = {n1, n2}
    OperationIDs = {o1}
    TxIDs = {t1}
    Digests = {d1}
    None = None
    MaxDelay = 0
    Reconcilers = {c1, c2}
    MaxTime = 3
    MaxTokens = 2
    TTLs = {1}
    CopyStatuses = {}
    Profiles = {"chain"}
CHECK_DEADLOCK FALSE
PROPERTIES
    TerminalOperationKept
