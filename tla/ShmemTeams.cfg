SPECIFICATION Spec
CONSTANTS
    Units <- ThreeUnits
    MaxTeams = 3
    MaxLocks = 1
    Programs <- AllPrograms
    Garbage <- ReadsAs
INVARIANTS
    TeamsResolve
    SleepersBelong
    MessagesMatch
    LocksApart
PROPERTIES
    EveryCallReturns
CHECK_DEADLOCK FALSE
