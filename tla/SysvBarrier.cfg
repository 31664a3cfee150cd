SPECIFICATION FairSpec
CONSTANTS
    Units = {u0, u1, u2, u3}
    Root = u0
    Nobody = Nobody
    NumProcs = 4
    Rounds = 3
INVARIANTS
    IInv
    CounterCountsCalls
PROPERTIES
    ImplementsRoundBarrier
    EveryCallReturns
CHECK_DEADLOCK FALSE
