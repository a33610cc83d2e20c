CONSTANTS
    Profiles = {"scan"}
    Depth = 3
    MaxRebuildLeaves = 6
    AuditRuntime = FALSE
    Commitments <- MCCommitments
    Zero = 0
    MaxTreeHeight = 2
    NewLeaves = 9
    KeyIDs = {k1}
    InitialKey = k1
    InitialHeight = 1
    MaxInt64 = 9
    MaxUint64 = 2
    AuditLane = FALSE
    MaxLeaves = 4
    LeafValues <- MCLeafValues
    MaxHeight = 3
    MaxRestarts = 2
    MaxDeposits = 2
    MaxCut = 40
    LongField = 128
    EventTypes <- MCEventTypes
    Filters <- MCFilters
    OutputLimit = 2
    EventLimit = 3
    ByteLimit = 4
    MaxLag = 1
    MaxEvents = 3
    MaxTip = 3
    WordBits = 2
    ByteBits = 1
    Prime = 89
    Order = 7
    CurveD = 6
SPECIFICATION MCSpec
CHECK_DEADLOCK FALSE
INVARIANT WithdrawAdvancesCursor
