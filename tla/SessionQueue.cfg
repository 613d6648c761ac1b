SPECIFICATION Spec
CONSTANTS
    None = None
    Accounts = {a, b, c}
    MaxSessions = 3
    PlayerLimit = 1
    SkipQueue = {}
    Tolerance = TRUE
    ExpireTime = 1
SYMMETRY Symmetry
INVARIANTS
    QueueIsConsistent
    PlacesAreShared
PROPERTIES
    NobodyOvertakes
CHECK_DEADLOCK FALSE
