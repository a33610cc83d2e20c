SPECIFICATION BatchSpec
CONSTANTS
    Notes = {n1, n2}
    Outputs = {o1}
    Txs = {t1, t2}
    Workers = {w1, w2}
    None = None
SYMMETRY BatchSymmetry
INVARIANTS
    OperationWhole
    ResolvedByTheChain
PROPERTY EvidenceIsFinal
