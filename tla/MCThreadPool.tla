---------------------------- MODULE MCThreadPool ----------------------------
(* ThreadPool for TLC: one urgent task, the others of equal priority.      *)
EXTENDS ThreadPool

CONSTANTS t1, t2, t3

MCTasks == {t1, t2, t3}
MCTasksTwo == {t1, t2}
MCPriority == [t \in Tasks |-> IF t = t1 THEN 2 ELSE 1]

=============================================================================
