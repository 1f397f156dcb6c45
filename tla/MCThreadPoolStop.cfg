\* Stop while a worker is about to wait.
CONSTANTS
    t1 = t1
    t2 = t2
    t3 = t3
    None = None
    Workers = {w1}
    Tasks <- MCTasksTwo
    Priority <- MCPriority
    PendingSize = 0
SPECIFICATION FairSpec
CHECK_DEADLOCK FALSE
PROPERTY StopReturns
