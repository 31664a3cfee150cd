SPECIFICATION Spec
CONSTANTS
    Level = 3
    IntBits = 6
    BucketSize = 8
    MaxBlocks = 4
    Requests = {0, 1, 2, 3, 9, 17, 66}
PROPERTY
    ImplementsHeap
CHECK_DEADLOCK FALSE
