SPECIFICATION FairHSpec
CONSTANTS
    u0 = u0
    u1 = u1
    u2 = u2
    k = k
    m = m
    Units <- ThreeUnits
    Root = u0
    Locks <- TwoLocks
    NoUnit = NoUnit
    Before <- OrderedNesting
INVARIANTS
    IInv
    MutualExclusion
    NoStrayMessage
    NoLostWaiter
PROPERTIES
    StarvationFree
    ImplementsFifoLock
