CONSTANTS
    Processes = {p1, p2}
    note = note
    None = None
    Calls <- MCCalls
    Contents <- MCContents
    Empty <- MCEmpty
    Apply <- MCApply
    Requests = {q1, q2, q3}
    MaxInFlight = 1
    MaxQueued = 1
    MaxArrivals = 3
    Workers = {w1, w2}
    Configurations <- MCConfigurations
    NoOptIn = NoOptIn
SPECIFICATION MCSpec
CHECK_DEADLOCK FALSE
INVARIANTS
    SemaphoreExact
    PayloadStaysInBoundary
PROPERTIES
    ImplementsAtomicStore
    EveryCallAnswered
    EveryRequestAnswered
    EveryProofRequestEnds
