SPECIFICATION Spec
CONSTANTS
    Units <- ThreeUnits
    MaxTeams = 3
    Recipes <- TwoRecipes
    MaxCalls = 4
    Node <- TwoNodes
    MaxSeg = 32767
INVARIANTS
    TablesWellFormed
    TeamsResolve
    AccessesHit
CHECK_DEADLOCK FALSE
