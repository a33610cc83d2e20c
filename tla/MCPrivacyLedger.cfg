SPECIFICATION MCSpec
CONSTANTS
    Profiles = {"keys", "value", "legacy"}
    KeyIDs = {k1, k2, k3}
    InitialKey = k1
    InitialHeight = 1
    MaxInt64 = 3
    MaxUint64 = 3
    Accounts = {alice, bob}
    Module = module
    Gov = gov
    Denoms = {d1, d2}
    Registered = {d1, d2}
    Blinds = {b1, b2}
    MaxAmount = 2
    MaxLeaves = 4
    MaxInputs = 2
    MaxOutputs = 2
    MaxSequence = 4
    MaxSurplus = 1
    InitialBalance <- MCBalance
INVARIANTS
    EffectOnce
    ValueConserved
    ReserveBacked
    ScanIsTheLedger
    BeginBlockNeverFails
    KeysTakenBack
    AuditLaneUnderDueKey
    AuditLaneWithdraws
PROPERTY PendingResolves
