SPECIFICATION Spec
CONSTANTS
    Units <- ThreeUnits
    PartOf <- Halves
    NodeOf <- TwoNodes
    Programs <- SomePrograms
INVARIANTS
    NothingDangles
    NoCallAfterExit
    CollectivesMatch
PROPERTY EveryoneEnds
CHECK_DEADLOCK FALSE
