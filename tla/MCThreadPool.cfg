\* Two workers, three tasks, room for two.
CONSTANTS
    t1 = t1
    t2 = t2
    t3 = t3
    None = None
    Workers = {w1, w2}
    Tasks <- MCTasks
    Priority <- MCPriority
    PendingSize = 2
SPECIFICATION FairSpec
CHECK_DEADLOCK FALSE
INVARIANTS
    TypeOK
    UrgentFirst
    TaskInOnePlace
PROPERTIES
    RunsOnceUnlessCanceled
    PendingIsServed
