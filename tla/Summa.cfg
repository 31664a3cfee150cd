SPECIFICATION Spec
CONSTANTS
    NULL = NULL
    None = None
    Matrices <- Operand
    Values <- Elements
    MaxCopyElem = 4
INVARIANTS
    BuffersReady
PROPERTY ImplementsBlockProduct
