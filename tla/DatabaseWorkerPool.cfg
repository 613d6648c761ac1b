SPECIFICATION FairSpec
CONSTANTS
    t1 = t1
    t2 = t2
    Threads <- MCThreads
    NumWorkers = 2
    NumConnections = 2
    MaxOps = 3
INVARIANTS
    EachOperationOnce
    ConnectionsAreOwned
PROPERTIES
    ImplementsAsyncOperations
    WorkersAreWoken
CHECK_DEADLOCK FALSE
