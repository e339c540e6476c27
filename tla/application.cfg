CONSTANTS
    t1 = t1
    t2 = t2
    t3 = t3
    g1 = g1
    Threads = {t1, t2, t3}
    Pools = {g1}
    MaxVersion = 2
    NoThread = NoThread
    NoPool = NoPool
SPECIFICATION FairSpec
INVARIANT AppTypeOK
INVARIANT NoCallOnDroppedPool
INVARIANT HandlersAreAtomic
INVARIANT PanicClosesPool
INVARIANT NeverLocksItselfOut
INVARIANT NoDeadlock
PROPERTY ReloadsInOrder
PROPERTY CallsReturn
