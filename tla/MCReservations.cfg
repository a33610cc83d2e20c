SPECIFICATION MCSpec
CONSTANTS
    ReservationIDs = {r1, r2}
    Keys = {n1, n2}
    OperationIDs = {o1}
    TxIDs = {t1}
    Digests = {d1, d2}
    None = None
    MaxDelay = 1
    MaxTime = 3
    MaxTokens = 2
    TTLs = {1}
    CopyStatuses = {"Succeeded"}
    Reconcilers = {c1, c2}
    Profiles = {"calls", "chain"}
SYMMETRY MCSymmetry
CHECK_DEADLOCK FALSE
INVARIANTS
    NoNoteReservedTwice
    ReconciledByEvidence
PROPERTIES
    AdvanceNeedsLease
    NoLeaseTakeover
    OperationMovesWhole
