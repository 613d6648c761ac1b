SPECIFICATION TaskSpec
CONSTANTS
    Tasks = 1
    Statements = 2
    MaxLosses = 0
INVARIANT
    DeadlockIsRetried
CHECK_DEADLOCK FALSE
