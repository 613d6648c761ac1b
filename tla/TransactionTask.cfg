SPECIFICATION FairTaskSpec
CONSTANTS
    Tasks = 3
    Statements = 2
    MaxLosses = 2
INVARIANTS
    
    InAppendedOrder
PROPERTIES
    EveryTaskEnds
CHECK_DEADLOCK FALSE
