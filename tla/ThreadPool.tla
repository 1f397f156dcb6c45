----------------------------- MODULE ThreadPool -----------------------------
(***************************************************************************)
(* ThreadPool (src/src/net/ThreadPool.cc, ThreadPool.h): worker threads    *)
(* that take tasks by priority from a queue guarded by mtx, SubmitTask and *)
(* CancelTask from any thread, and Stop.                                   *)
(*                                                                         *)
(* The queue is the set of its tasks and its top.  RunInThread is cut at   *)
(* every access to stop, to the mutex and to the queue, because Stop does  *)
(* not take the mutex and the loop that discards tasks after a stop does   *)
(* not either.                                                             *)
(***************************************************************************)
EXTENDS Integers, FiniteSets

CONSTANTS
    Workers,      \* worker_threads
    Tasks,        \* the tasks that may be submitted, each once
    Priority,     \* their priorities, a function
    PendingSize,  \* pending_size; 0: no limit
    None          \* no task, no owner

ASSUME PriorityAssumption == Priority \in [Tasks -> 0..3]
ASSUME PendingAssumption == PendingSize \in Nat
ASSUME NoneAssumption == None \notin Tasks \union Workers

VARIABLES
    stop,        \* ThreadPool::stop
    stopper,     \* the thread in Stop
    mtx,         \* the owner of mtx
    pc,          \* where each worker is
    task,        \* each worker's local variable task
    pending,     \* the tasks in pending_tasks ...
    top,         \* ... and which of them is at the top
    tasks_map,   \* the tasks in tasks_map
    submitted,   \* the tasks SubmitTask has accepted
    canceled,    \* TaskStruct::canceled
    runs,        \* how often each task has been executed
    deletes      \* how often each TaskStruct has been deleted, up to 2

queue == <<pending, top, tasks_map>>
vars == <<stop, stopper, mtx, pc, task, queue, submitted, canceled, runs, deletes>>

Init ==
    /\ stop = FALSE
    /\ stopper = "idle"
    /\ mtx = None
    /\ pc = [w \in Workers |-> "check"]
    /\ task = [w \in Workers |-> None]
    /\ pending = {} /\ top = None /\ tasks_map = {}
    /\ submitted = {}
    /\ canceled = [t \in Tasks |-> FALSE]
    /\ runs = [t \in Tasks |-> 0]
    /\ deletes = [t \in Tasks |-> 0]

-----------------------------------------------------------------------------
(* The priority_queue.  TaskCmp is "less" on the priority.                 *)

\* The tops a queue may have: those of highest priority.
Tops(S) ==
    IF S = {} THEN {None}
    ELSE {t \in S : \A u \in S : Priority[u] <= Priority[t]}

\* Mutant: tasks are taken in the order of their submission.
PushBehind(t) ==
    /\ pending' = pending \union {t}
    /\ top' = IF top = None THEN t ELSE top

\* push keeps the top on a tie.
Push(t) ==
    /\ pending' = pending \union {t}
    /\ top' = IF top = None \/ Priority[t] > Priority[top] THEN t ELSE top

\* Mutant: the top is not replaced when it is popped.
PopStaleTop ==
    /\ pending' = pending \ {top}
    /\ top' = top

\* pop removes the top; a queue that is empty is left as it is.
Pop ==
    /\ pending' = pending \ {top}
    /\ top' \in Tops(pending \ {top})

-----------------------------------------------------------------------------
(* The public functions, called from any thread that finds mtx free.       *)

Sleepers == {w \in Workers : pc[w] = "waiting"}

\* Mutant: no thread is woken up.
NotifyNobody == UNCHANGED pc

\* notify_one wakes one thread if any waits.
NotifyOne ==
    IF Sleepers = {} THEN UNCHANGED pc
    ELSE \E w \in Sleepers : pc' = [pc EXCEPT ![w] = "lock"]

\* The pool is full: SubmitTask returns -1 and changes nothing.
Full == PendingSize > 0 /\ Cardinality(pending) >= PendingSize

SubmitTask(t) ==
    /\ mtx = None
    /\ t \notin submitted
    /\ ~Full
    /\ submitted' = submitted \union {t}
    /\ Push(t)
    /\ tasks_map' = tasks_map \union {t}
    /\ NotifyOne
    /\ UNCHANGED <<stop, stopper, mtx, task, canceled, runs, deletes>>

\* CancelTask returns true exactly when the task is found.
CancelTask(t) ==
    /\ mtx = None
    /\ t \in tasks_map
    /\ canceled' = [canceled EXCEPT ![t] = TRUE]
    /\ UNCHANGED <<stop, stopper, mtx, pc, task, queue, submitted, runs, deletes>>

-----------------------------------------------------------------------------
(* RunInThread.                                                            *)

Goto(w, from, to) == pc[w] = from /\ pc' = [pc EXCEPT ![w] = to]

CheckStop(w) ==
    /\ Goto(w, "check", IF stop THEN "drain" ELSE "lock")
    /\ UNCHANGED <<stop, stopper, mtx, task, queue, submitted, canceled, runs, deletes>>

\* unique_lock, and the lock that wait takes again.
Lock(w) ==
    /\ Goto(w, "lock", "predicate")
    /\ mtx = None
    /\ mtx' = w
    /\ UNCHANGED <<stop, stopper, task, queue, submitted, canceled, runs, deletes>>

Predicate(w) ==
    /\ Goto(w, "predicate", IF pending # {} \/ stop THEN "test" ELSE "wait")
    /\ UNCHANGED <<stop, stopper, mtx, task, queue, submitted, canceled, runs, deletes>>

\* condition.wait: unlock and sleep in one step.
Wait(w) ==
    /\ Goto(w, "wait", "waiting")
    /\ mtx' = None
    /\ UNCHANGED <<stop, stopper, task, queue, submitted, canceled, runs, deletes>>

SpuriousWakeup(w) ==
    /\ Goto(w, "waiting", "lock")
    /\ UNCHANGED <<stop, stopper, mtx, task, queue, submitted, canceled, runs, deletes>>

TestStop(w) ==
    /\ Goto(w, "test", IF stop THEN "drain" ELSE "top")
    /\ mtx' = IF stop THEN None ELSE mtx
    /\ UNCHANGED <<stop, stopper, task, queue, submitted, canceled, runs, deletes>>

Top(w) ==
    /\ Goto(w, "top", "pop")
    /\ task' = [task EXCEPT ![w] = top]
    /\ UNCHANGED <<stop, stopper, mtx, queue, submitted, canceled, runs, deletes>>

PopTask(w) ==
    /\ Goto(w, "pop", "taken")
    /\ Pop
    /\ tasks_map' = tasks_map \ {task[w]}
    /\ UNCHANGED <<stop, stopper, mtx, task, submitted, canceled, runs, deletes>>

Delete(t) ==
    deletes' = IF t = None THEN deletes
               ELSE [deletes EXCEPT ![t] = IF @ < 2 THEN @ + 1 ELSE @]

\* Mutant: a task that was canceled is not deleted.
DropCanceledLeaks(w) ==
    /\ Goto(w, "taken", "check")
    /\ task[w] # None /\ canceled[task[w]]
    /\ mtx' = None
    /\ task' = [task EXCEPT ![w] = None]
    /\ UNCHANGED <<stop, stopper, queue, submitted, canceled, runs, deletes>>

\* A canceled task is deleted with the lock held.
DropCanceled(w) ==
    /\ Goto(w, "taken", "check")
    /\ task[w] # None /\ canceled[task[w]]
    /\ Delete(task[w])
    /\ mtx' = None
    /\ task' = [task EXCEPT ![w] = None]
    /\ UNCHANGED <<stop, stopper, queue, submitted, canceled, runs>>

\* Mutant: canceled is not looked at.
UnlockUnchecked(w) ==
    /\ Goto(w, "taken", "run")
    /\ mtx' = None
    /\ UNCHANGED <<stop, stopper, task, queue, submitted, canceled, runs, deletes>>

Unlock(w) ==
    /\ Goto(w, "taken", "run")
    /\ task[w] # None => ~canceled[task[w]]
    /\ mtx' = None
    /\ UNCHANGED <<stop, stopper, task, queue, submitted, canceled, runs, deletes>>

RunTask(w) ==
    /\ Goto(w, "run", "check")
    /\ runs' = IF task[w] = None THEN runs ELSE [runs EXCEPT ![task[w]] = @ + 1]
    /\ Delete(task[w])
    /\ task' = [task EXCEPT ![w] = None]
    /\ UNCHANGED <<stop, stopper, mtx, queue, submitted, canceled>>

\* The loop after a stop, which discards what is pending without the lock.
Drain(w) ==
    /\ Goto(w, "drain", IF pending = {} THEN "exited" ELSE "drainTop")
    /\ UNCHANGED <<stop, stopper, mtx, task, queue, submitted, canceled, runs, deletes>>

DrainTop(w) ==
    /\ Goto(w, "drainTop", "drainPop")
    /\ task' = [task EXCEPT ![w] = top]
    /\ UNCHANGED <<stop, stopper, mtx, queue, submitted, canceled, runs, deletes>>

DrainPop(w) ==
    /\ Goto(w, "drainPop", "drainDelete")
    /\ Pop
    /\ tasks_map' = tasks_map \ {task[w]}
    /\ UNCHANGED <<stop, stopper, mtx, task, submitted, canceled, runs, deletes>>

DrainDelete(w) ==
    /\ Goto(w, "drainDelete", "drain")
    /\ Delete(task[w])
    /\ task' = [task EXCEPT ![w] = None]
    /\ UNCHANGED <<stop, stopper, mtx, queue, submitted, canceled, runs>>

-----------------------------------------------------------------------------
(* Stop.                                                                   *)

StopStore ==
    /\ stopper = "idle"
    /\ stop' = TRUE
    /\ stopper' = "notify"
    /\ UNCHANGED <<mtx, pc, task, queue, submitted, canceled, runs, deletes>>

StopNotify ==
    /\ stopper = "notify"
    /\ pc' = [w \in Workers |-> IF pc[w] = "waiting" THEN "lock" ELSE pc[w]]
    /\ stopper' = "join"
    /\ UNCHANGED <<stop, mtx, task, queue, submitted, canceled, runs, deletes>>

StopJoined ==
    /\ stopper = "join"
    /\ \A w \in Workers : pc[w] = "exited"
    /\ stopper' = "joined"
    /\ UNCHANGED <<stop, mtx, pc, task, queue, submitted, canceled, runs, deletes>>

-----------------------------------------------------------------------------

WorkerStep(w) ==
    \/ CheckStop(w) \/ Lock(w) \/ Predicate(w) \/ Wait(w) \/ TestStop(w)
    \/ Top(w) \/ PopTask(w) \/ DropCanceled(w) \/ Unlock(w) \/ RunTask(w)
    \/ Drain(w) \/ DrainTop(w) \/ DrainPop(w) \/ DrainDelete(w)

Stop == StopStore \/ StopNotify \/ StopJoined

Next ==
    \/ \E w \in Workers : WorkerStep(w) \/ SpuriousWakeup(w)
    \/ \E t \in Tasks : SubmitTask(t) \/ CancelTask(t)
    \/ Stop

Spec == Init /\ [][Next]_vars

\* Every worker is scheduled and gets the mutex if it asks often enough; Stop,
\* once called, is carried on.
FairSpec ==
    /\ Spec
    /\ \A w \in Workers : WF_vars(WorkerStep(w)) /\ SF_vars(Lock(w))
    /\ WF_vars(StopNotify \/ StopJoined)

-----------------------------------------------------------------------------
(* Properties.                                                             *)

\* Every variable keeps the shape the code gives it.
TypeOK ==
    /\ stop \in BOOLEAN
    /\ stopper \in {"idle", "notify", "join", "joined"}
    /\ mtx \in Workers \union {None}
    /\ pc \in [Workers -> {"check", "lock", "predicate", "wait", "waiting", "test",
                           "top", "pop", "taken", "run", "drain", "drainTop",
                           "drainPop", "drainDelete", "exited"}]
    /\ task \in [Workers -> Tasks \union {None}]
    /\ pending \subseteq Tasks /\ tasks_map \subseteq Tasks
    /\ top \in pending \union {None}
    /\ submitted \subseteq Tasks
    /\ canceled \in [Tasks -> BOOLEAN]
    /\ runs \in [Tasks -> 0..2]
    /\ deletes \in [Tasks -> 0..2]

\* A task runs at most once, and never once CancelTask has returned true for it,
\* whatever the worker that holds it was doing.
RunsOnceUnlessCanceled ==
    [][\A t \in Tasks : runs'[t] # runs[t] => runs[t] = 0 /\ ~canceled[t]]_vars

\* While the pool runs, no task in the queue is more urgent than the one a worker
\* is about to pop, and that is the one it pops.
UrgentFirst ==
    ~stop => \A w \in Workers :
        pc[w] = "pop" =>
            task[w] = top /\ \A t \in pending : Priority[t] <= Priority[task[w]]

\* While the pool runs, a task that SubmitTask accepted is in the queue, or in the
\* hands of one worker, or has been deleted once: it is neither lost nor taken
\* twice.
TaskInOnePlace ==
    ~stop => \A t \in submitted :
        LET holders == {w \in Workers : task[w] = t /\ pc[w] # "pop"}
        IN  (IF t \in pending THEN 1 ELSE 0) + Cardinality(holders) + deletes[t] = 1

\* A submitted task is run or dropped, or the pool is stopped: no notification is
\* lost between the predicate and the wait.
PendingIsServed == \A t \in Tasks : t \in pending ~> t \notin pending \/ stop

\* Stop stops all worker threads and returns.
StopReturns == stop ~> stopper = "joined"

=============================================================================
