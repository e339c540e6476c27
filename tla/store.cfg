CONSTANTS
    p1 = p1
    p2 = p2
    c1 = c1
    c2 = c2
    c3 = c3
    Procs = {p1, p2}
    Changes = {c1, c2, c3}
    NoOwner = NoOwner
    NoFile = NoFile
SPECIFICATION Spec
SYMMETRY Interchangeable
INVARIANT StoreTypeOK
INVARIANT SurvivesPowerLoss
INVARIANT LockNotLeaked
INVARIANT NoTempAtRest
PROPERTY ImplementsAtomicStore
