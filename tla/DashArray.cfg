SPECIFICATION FairSpec
CONSTANTS
    NULL = NULL
    Arrays <- AllArrays
    Exercised <- Writable
    Values = {0, 1}
    AllUnits <- ThreeUnits
    MaxCopyElem = 2
    MaxCalls = 2
    MinRanges <- SomeRanges
INVARIANTS
    ViewsSeeSections
    LayoutConsistent
    RangesSeen
PROPERTIES
    ImplementsGlobalArray
    MinReturns
CHECK_DEADLOCK FALSE
