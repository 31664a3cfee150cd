SPECIFICATION Spec
CONSTANTS
    NumProcs = 4
    MaxUnits = 4
INVARIANTS
    IInv
    MarkedIsUnneeded
    VerdictRight
PROPERTY RunEnds
CHECK_DEADLOCK FALSE
