CONSTANTS
    r1 = r1
    r2 = r2
    r3 = r3
    t1 = t1
    t2 = t2
    None = None
    Release = {r1, r2, r3}
    Transaction = {t1, t2}
    Operations <- Operation
    MaxTransactions = 3
    MaxSeq = 4
SYMMETRY Requests
SPECIFICATION Spec
INVARIANTS TypeOK PointerSound
CHECK_DEADLOCK FALSE
