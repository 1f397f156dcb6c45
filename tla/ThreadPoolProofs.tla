-------------------------- MODULE ThreadPoolProofs --------------------------
(***************************************************************************)
(* The ThreadPool's safety, for any number of workers and tasks, any       *)
(* priorities and any pending_size, with Stop at any moment.               *)
(***************************************************************************)
EXTENDS ThreadPool, FiniteSetTheorems, TLAPS

USE PriorityAssumption, PendingAssumption, NoneAssumption

\* Where RunInThread has the mutex, and where it has a task it may still run.
InLock == {"predicate", "wait", "test", "top", "pop", "taken"}
Carrying == {"pop", "taken", "run"}
Draining == {"drain", "drainTop", "drainPop", "drainDelete", "exited"}

\* The mutex belongs to the worker whose pc says so.
MutexInv == \A w \in Workers : pc[w] \in InLock <=> mtx = w

\* The queue's top is one of highest priority, and the queue and the map hold
\* tasks that were submitted.
QueueInv ==
    /\ top \in Tops(pending)
    /\ pending \subseteq submitted
    /\ tasks_map \subseteq submitted

\* A worker discards tasks only after a stop, and without one it reads the top of a
\* queue that is not empty.
StopInv ==
    ~stop => \A w \in Workers :
        /\ pc[w] \notin Draining
        /\ pc[w] \in {"test", "top"} => pending # {}

\* The task a worker is about to run was not run before, is not in the queue for
\* another worker once it is popped, and cannot be canceled any more once the
\* mutex is free.  After a stop the loop that discards tasks may pop it first.
CarryInv ==
    \A w \in Workers : task[w] # None =>
        /\ task[w] \in submitted
        /\ pc[w] \in Carrying => runs[task[w]] = 0
        /\ pc[w] = "pop" => task[w] = top \/ task[w] \notin pending
        /\ pc[w] \in {"taken", "run"} => task[w] \notin pending \union tasks_map
        /\ pc[w] = "run" => ~canceled[task[w]]

\* No two workers are about to run the same task.
ExclusiveInv ==
    \A v, w \in Workers :
        v # w /\ pc[v] \in Carrying /\ pc[w] \in Carrying /\ task[v] # None
            => task[v] # task[w]

\* A task that is still in the queue, or was never submitted, was never run.
FreshInv == \A t \in Tasks : runs[t] <= 1 /\ (t \in pending \/ t \notin submitted => runs[t] = 0)

\* A task that a worker has taken out of the queue.
Held(t) == \E w \in Workers : task[w] = t /\ pc[w] \in {"taken", "run"}

\* While the pool runs, a worker has a task exactly from top() to the delete, and
\* a task is deleted once, when it is neither in the queue nor held.
PlaceInv ==
    ~stop =>
        /\ \A w \in Workers :
              /\ task[w] # None <=> pc[w] \in Carrying
              /\ pc[w] = "pop" => task[w] = top
              /\ pc[w] \in Carrying => deletes[task[w]] = 0
        /\ \A t \in Tasks :
              /\ t \in pending \/ t \notin submitted => deletes[t] = 0
              /\ deletes[t] <= 1
              /\ t \in submitted /\ t \notin pending /\ deletes[t] = 0 => Held(t)

PoolInv ==
    /\ TypeOK /\ MutexInv /\ QueueInv /\ StopInv
    /\ CarryInv /\ ExclusiveInv /\ FreshInv /\ PlaceInv

\* No worker has started and nothing was submitted.
LEMMA PoolInit == Init => PoolInv
<1> SUFFICES ASSUME Init PROVE PoolInv
  OBVIOUS
<1>1. TypeOK
  <2>1. canceled \in [Tasks -> BOOLEAN] /\ runs \in [Tasks -> 0..2] /\ deletes \in [Tasks -> 0..2]
    BY DEF Init
  <2>2. pc \in [Workers -> {"check"}] /\ task \in [Workers -> {None}]
    BY DEF Init
  <2> QED BY <2>1, <2>2 DEF Init, TypeOK
<1>2. MutexInv
  BY DEF Init, MutexInv, InLock
<1>3. QueueInv /\ StopInv
  BY DEF Init, QueueInv, StopInv, Tops, Draining
<1>4. CarryInv /\ ExclusiveInv /\ FreshInv /\ PlaceInv
  BY DEF Init, CarryInv, ExclusiveInv, FreshInv, PlaceInv, Held, Carrying
<1> QED BY <1>1, <1>2, <1>3, <1>4 DEF PoolInv

\* Pop leaves a top of highest priority and takes nothing else out of the queue.
LEMMA PopKeepsTop ==
    ASSUME PoolInv, Pop
    PROVE  /\ top' \in Tops(pending') /\ top' \in pending' \union {None}
           /\ pending' = pending \ {top}
BY DEF Pop, PoolInv, TypeOK, Tops

\* notify_one and notify_all only send workers that wait to the lock.
LEMMA NotifyWakes ==
    ASSUME TypeOK, NotifyOne
    PROVE  /\ pc' \in [Workers -> {pc[w] : w \in Workers} \union {"lock"}]
           /\ \A w \in Workers : pc'[w] = pc[w] \/ (pc[w] = "waiting" /\ pc'[w] = "lock")
<1>1. CASE Sleepers = {}
  BY <1>1 DEF NotifyOne, TypeOK
<1>2. CASE Sleepers # {}
  <2>1. PICK v \in Sleepers : pc' = [pc EXCEPT ![v] = "lock"]
    BY <1>2 DEF NotifyOne
  <2> QED BY <2>1 DEF Sleepers, TypeOK
<1> QED BY <1>1, <1>2

\* SubmitTask: the new task is in the queue only, and no worker is between top() and
\* pop() while it is pushed.
LEMMA SubmitStep ==
    ASSUME PoolInv, NEW t \in Tasks, SubmitTask(t)
    PROVE  PoolInv'
<1> USE DEF PoolInv, SubmitTask, Push
<1>a. /\ pc' \in [Workers -> {pc[w] : w \in Workers} \union {"lock"}]
      /\ \A w \in Workers : pc'[w] = pc[w] \/ (pc[w] = "waiting" /\ pc'[w] = "lock")
  BY NotifyWakes
<1>1. TypeOK'
  BY <1>a DEF TypeOK
<1>2. MutexInv'
  BY <1>a DEF MutexInv, InLock
<1>3. QueueInv'
  BY DEF QueueInv, Tops, TypeOK
<1>4. StopInv'
  BY <1>a DEF StopInv, Draining
<1>5. CarryInv'
  BY <1>a DEF CarryInv, MutexInv, InLock, Carrying
<1>6. ExclusiveInv'
  BY <1>a DEF ExclusiveInv, Carrying
<1>7. FreshInv'
  BY DEF FreshInv
<1>8. PlaceInv'
  BY <1>a DEF PlaceInv, Held, MutexInv, InLock, Carrying
<1> QED BY <1>1, <1>2, <1>3, <1>4, <1>5, <1>6, <1>7, <1>8

\* CancelTask: a task in the map is not one that a worker runs.
LEMMA CancelStep ==
    ASSUME PoolInv, NEW t \in Tasks, CancelTask(t)
    PROVE  PoolInv'
<1> USE DEF PoolInv, CancelTask, queue
<1>1. TypeOK'
  BY DEF TypeOK
<1>2. MutexInv'
  BY DEF MutexInv
<1>3. QueueInv'
  BY DEF QueueInv
<1>4. StopInv'
  BY DEF StopInv
<1>5. CarryInv'
  BY DEF TypeOK, CarryInv, Carrying
<1>6. ExclusiveInv'
  BY DEF ExclusiveInv
<1>7. FreshInv'
  BY DEF FreshInv
<1>8. PlaceInv'
  BY DEF PlaceInv, Held
<1> QED BY <1>1, <1>2, <1>3, <1>4, <1>5, <1>6, <1>7, <1>8

\* The steps of RunInThread that move a worker and touch at most the mutex.
Control(w) ==
    \/ CheckStop(w) \/ Lock(w) \/ Predicate(w) \/ Wait(w) \/ SpuriousWakeup(w)
    \/ TestStop(w) \/ Drain(w)

\* They keep every part of the invariant that is not about pc and mtx; the queue that
\* Predicate saw is still not empty for the worker that tests stop.
LEMMA ControlStep ==
    ASSUME PoolInv, NEW w \in Workers, Control(w)
    PROVE  PoolInv'
<1> USE DEF PoolInv, Control, CheckStop, Lock, Predicate, Wait, SpuriousWakeup,
            TestStop, Drain, Goto, queue
<1>1. TypeOK'
  BY DEF TypeOK
<1>2. MutexInv'
  BY DEF TypeOK, MutexInv, InLock
<1>3. QueueInv'
  BY DEF QueueInv
<1>4. StopInv'
  BY DEF TypeOK, StopInv, Draining
<1>5. CarryInv'
  BY DEF TypeOK, CarryInv, Carrying
<1>6. ExclusiveInv'
  BY DEF TypeOK, ExclusiveInv, Carrying
<1>7. FreshInv'
  BY DEF FreshInv
<1>8. PlaceInv'
  BY DEF TypeOK, PlaceInv, Held, Carrying
<1> QED BY <1>1, <1>2, <1>3, <1>4, <1>5, <1>6, <1>7, <1>8

\* top(): the task is in the queue, so no other worker carries it.
LEMMA TopStep ==
    ASSUME PoolInv, NEW w \in Workers, Top(w)
    PROVE  PoolInv'
<1> USE DEF PoolInv, Top, Goto, queue
<1>1. TypeOK'
  BY DEF TypeOK
<1>2. MutexInv'
  BY DEF TypeOK, MutexInv, InLock
<1>3. QueueInv'
  BY DEF QueueInv
<1>4. StopInv'
  BY DEF TypeOK, StopInv, Draining
<1>5. CarryInv'
  BY DEF TypeOK, QueueInv, Tops, CarryInv, FreshInv, Carrying
<1>6. ExclusiveInv'
  BY DEF TypeOK, QueueInv, MutexInv, InLock, CarryInv, ExclusiveInv, Carrying
<1>7. FreshInv'
  BY DEF FreshInv
<1>8. PlaceInv'
  BY DEF TypeOK, QueueInv, Tops, StopInv, PlaceInv, Held, Carrying
<1> QED BY <1>1, <1>2, <1>3, <1>4, <1>5, <1>6, <1>7, <1>8

\* pop() and erase(): the task is gone from the queue, whoever popped it.
LEMMA PopTaskStep ==
    ASSUME PoolInv, NEW w \in Workers, PopTask(w)
    PROVE  PoolInv'
<1> USE DEF PoolInv, PopTask, Goto
<1>a. /\ top' \in Tops(pending') /\ top' \in pending' \union {None}
      /\ pending' = pending \ {top}
  BY PopKeepsTop
<1>1. TypeOK'
  BY <1>a DEF TypeOK
<1>2. MutexInv'
  BY DEF TypeOK, MutexInv, InLock
<1>3. QueueInv'
  BY <1>a DEF QueueInv
<1>4. StopInv'
  BY <1>a DEF TypeOK, MutexInv, InLock, StopInv, Draining
<1>5. CarryInv'
  BY <1>a DEF TypeOK, MutexInv, InLock, CarryInv, Carrying
<1>6. ExclusiveInv'
  BY DEF TypeOK, ExclusiveInv, Carrying
<1>7. FreshInv'
  BY <1>a DEF FreshInv
<1>8. PlaceInv'
  BY <1>a DEF TypeOK, PlaceInv, MutexInv, InLock, Held, Carrying
<1> QED BY <1>1, <1>2, <1>3, <1>4, <1>5, <1>6, <1>7, <1>8

\* The delete of a canceled task.
LEMMA DropCanceledStep ==
    ASSUME PoolInv, NEW w \in Workers, DropCanceled(w)
    PROVE  PoolInv'
<1> USE DEF PoolInv, DropCanceled, Delete, Goto, queue
<1>1. TypeOK'
  BY DEF TypeOK
<1>2. MutexInv'
  BY DEF TypeOK, MutexInv, InLock
<1>3. QueueInv'
  BY DEF QueueInv
<1>4. StopInv'
  BY DEF TypeOK, StopInv, Draining
<1>5. CarryInv'
  BY DEF TypeOK, CarryInv, Carrying
<1>6. ExclusiveInv'
  BY DEF TypeOK, ExclusiveInv, Carrying
<1>7. FreshInv'
  BY DEF FreshInv
<1>8. PlaceInv'
  BY DEF TypeOK, CarryInv, ExclusiveInv, PlaceInv, Held, Carrying
<1> QED BY <1>1, <1>2, <1>3, <1>4, <1>5, <1>6, <1>7, <1>8

\* unlock(): the task was not canceled, and cannot be any more.
LEMMA UnlockStep ==
    ASSUME PoolInv, NEW w \in Workers, Unlock(w)
    PROVE  PoolInv'
<1> USE DEF PoolInv, Unlock, Goto, queue
<1>1. TypeOK'
  BY DEF TypeOK
<1>2. MutexInv'
  BY DEF TypeOK, MutexInv, InLock
<1>3. QueueInv'
  BY DEF QueueInv
<1>4. StopInv'
  BY DEF TypeOK, StopInv, Draining
<1>5. CarryInv'
  BY DEF TypeOK, CarryInv, Carrying
<1>6. ExclusiveInv'
  BY DEF TypeOK, ExclusiveInv, Carrying
<1>7. FreshInv'
  BY DEF FreshInv
<1>8. PlaceInv'
  BY DEF TypeOK, PlaceInv, Held, Carrying
<1> QED BY <1>1, <1>2, <1>3, <1>4, <1>5, <1>6, <1>7, <1>8

\* The call of the task and its delete: no other worker carries it.
LEMMA RunTaskStep ==
    ASSUME PoolInv, NEW w \in Workers, RunTask(w)
    PROVE  PoolInv'
<1> USE DEF PoolInv, RunTask, Delete, Goto, queue
<1>1. TypeOK'
  BY DEF TypeOK, CarryInv, Carrying
<1>2. MutexInv'
  BY DEF TypeOK, MutexInv, InLock
<1>3. QueueInv'
  BY DEF QueueInv
<1>4. StopInv'
  BY DEF TypeOK, StopInv, Draining
<1>5. CarryInv'
  BY DEF TypeOK, CarryInv, ExclusiveInv, Carrying
<1>6. ExclusiveInv'
  BY DEF TypeOK, ExclusiveInv, Carrying
<1>7. FreshInv'
  BY DEF TypeOK, CarryInv, FreshInv, Carrying
<1>8. PlaceInv'
  BY DEF TypeOK, CarryInv, ExclusiveInv, PlaceInv, Held, Carrying
<1> QED BY <1>1, <1>2, <1>3, <1>4, <1>5, <1>6, <1>7, <1>8

\* The loop that discards tasks after a stop: it may pop the task that a worker in
\* the lock has read and not yet popped, and that worker still runs it once.
LEMMA DrainTaskStep ==
    ASSUME PoolInv, NEW w \in Workers, DrainTop(w) \/ DrainPop(w) \/ DrainDelete(w)
    PROVE  PoolInv'
<1> USE DEF PoolInv, DrainTop, DrainPop, DrainDelete, Delete, Goto, queue
<1>a. \/ UNCHANGED queue
      \/ /\ top' \in Tops(pending') /\ top' \in pending' \union {None}
         /\ pending' = pending \ {top} /\ tasks_map' \subseteq tasks_map
  BY PopKeepsTop
<1>1. TypeOK'
  BY <1>a DEF TypeOK
<1>2. MutexInv'
  BY DEF TypeOK, MutexInv, InLock
<1>3. QueueInv'
  BY <1>a DEF QueueInv
<1>4. StopInv'
  BY DEF StopInv, Draining
<1>5. CarryInv'
  BY <1>a DEF TypeOK, QueueInv, CarryInv, Carrying
<1>6. ExclusiveInv'
  BY DEF TypeOK, ExclusiveInv, Carrying
<1>7. FreshInv'
  BY <1>a DEF FreshInv
<1>8. PlaceInv'
  BY DEF StopInv, PlaceInv, Draining
<1> QED BY <1>1, <1>2, <1>3, <1>4, <1>5, <1>6, <1>7, <1>8

\* Stop: it wakes the workers and touches nothing else.
LEMMA StopStep ==
    ASSUME PoolInv, Stop
    PROVE  PoolInv'
<1> USE DEF PoolInv, Stop, StopStore, StopNotify, StopJoined, queue
<1>1. TypeOK'
  BY DEF TypeOK
<1>2. MutexInv'
  BY DEF TypeOK, MutexInv, InLock
<1>3. QueueInv'
  BY DEF QueueInv
<1>4. StopInv'
  BY DEF TypeOK, StopInv, Draining
<1>5. CarryInv'
  BY DEF TypeOK, CarryInv, Carrying
<1>6. ExclusiveInv'
  BY DEF TypeOK, ExclusiveInv, Carrying
<1>7. FreshInv'
  BY DEF FreshInv
<1>8. PlaceInv'
  BY DEF TypeOK, PlaceInv, Held, Carrying
<1> QED BY <1>1, <1>2, <1>3, <1>4, <1>5, <1>6, <1>7, <1>8

\* Every step keeps the invariant.
LEMMA PoolStep == PoolInv /\ [Next]_vars => PoolInv'
<1> SUFFICES ASSUME PoolInv, [Next]_vars PROVE PoolInv'
  OBVIOUS
<1>1. ASSUME NEW w \in Workers, WorkerStep(w) \/ SpuriousWakeup(w)
      PROVE  PoolInv'
  BY <1>1, ControlStep, TopStep, PopTaskStep, DropCanceledStep, UnlockStep, RunTaskStep,
     DrainTaskStep DEF WorkerStep, Control
<1>2. ASSUME NEW t \in Tasks, SubmitTask(t) \/ CancelTask(t)
      PROVE  PoolInv'
  BY <1>2, SubmitStep, CancelStep
<1>3. CASE Stop
  BY <1>3, StopStep
<1>4. CASE UNCHANGED vars
  BY <1>4 DEF vars, queue, PoolInv, TypeOK, MutexInv, QueueInv, StopInv, CarryInv,
              ExclusiveInv, FreshInv, PlaceInv, Held
<1> QED BY <1>1, <1>2, <1>3, <1>4 DEF Next

LEMMA PoolInvariant == Spec => []PoolInv
BY PoolInit, PoolStep, PTL DEF Spec

-----------------------------------------------------------------------------

\* The ThreadPool's variables keep their types.
THEOREM TypeCorrect == Spec => []TypeOK
<1>1. PoolInv => TypeOK
  BY DEF PoolInv
<1> QED BY <1>1, PoolInvariant, PTL

\* A running pool pops the task it has read from the top, and none that waits is
\* more urgent, for any workers and priorities.
THEOREM UrgentTaskFirst == Spec => []UrgentFirst
<1>1. PoolInv => UrgentFirst
  BY DEF PoolInv, QueueInv, PlaceInv, UrgentFirst, Tops, Carrying
<1> QED BY <1>1, PoolInvariant, PTL

\* A task in the hands of one worker is in the hands of no other.
LEMMA OneHolder ==
    ASSUME PoolInv, ~stop, NEW t \in Tasks, NEW v \in Workers, task[v] = t, pc[v] # "pop"
    PROVE  {w \in Workers : task[w] = t /\ pc[w] # "pop"} = {v}
BY DEF PoolInv, PlaceInv, ExclusiveInv, Carrying

\* While the pool runs, an accepted task is in the queue, with one worker, or
\* deleted once, for any number of workers and tasks.
THEOREM NoTaskLost == Spec => []TaskInOnePlace
<1>1. PoolInv => TaskInOnePlace
  <2> SUFFICES ASSUME PoolInv, ~stop, NEW t \in submitted
               PROVE  LET holders == {w \in Workers : task[w] = t /\ pc[w] # "pop"}
                      IN  (IF t \in pending THEN 1 ELSE 0) + Cardinality(holders) + deletes[t] = 1
    BY DEF TaskInOnePlace
  <2> DEFINE holders == {w \in Workers : task[w] = t /\ pc[w] # "pop"}
  <2>1. t \in Tasks /\ t # None
    BY DEF PoolInv, TypeOK
  <2>2. CASE holders = {}
    <3>1. Cardinality(holders) = 0
      BY <2>2, FS_EmptySet
    <3>2. t \in pending \/ deletes[t] # 0
      BY <2>1, <2>2 DEF PoolInv, PlaceInv, Held
    <3> QED BY <2>1, <3>1, <3>2 DEF PoolInv, TypeOK, PlaceInv
  <2>3. ASSUME NEW v \in holders
        PROVE  Cardinality(holders) = 1 /\ t \notin pending /\ deletes[t] = 0
    <3>1. holders = {v}
      BY <2>1, <2>3, OneHolder
    <3>2. Cardinality(holders) = 1
      BY <3>1, FS_Singleton
    <3> QED BY <2>1, <2>3, <3>2 DEF PoolInv, PlaceInv, CarryInv, Carrying
  <2> QED BY <2>2, <2>3
<1> QED BY <1>1, PoolInvariant, PTL

\* A task runs at most once, and never after CancelTask has returned true for it,
\* for any workers, any tasks, and with Stop at any moment.
THEOREM RunsOnce == Spec => RunsOnceUnlessCanceled
<1>1. PoolInv /\ [Next]_vars =>
          [\A t \in Tasks : runs'[t] # runs[t] => runs[t] = 0 /\ ~canceled[t]]_vars
  <2> SUFFICES ASSUME PoolInv, [Next]_vars, NEW t \in Tasks, runs'[t] # runs[t]
               PROVE  runs[t] = 0 /\ ~canceled[t]
    OBVIOUS
  <2>1. PICK w \in Workers : RunTask(w)
    BY DEF Next, WorkerStep, CheckStop, Lock, Predicate, Wait, SpuriousWakeup, TestStop, Top,
           PopTask, DropCanceled, Unlock, Drain, DrainTop, DrainPop, DrainDelete, SubmitTask,
           CancelTask, Stop, StopStore, StopNotify, StopJoined, vars
  <2> QED BY <2>1 DEF RunTask, Goto, PoolInv, TypeOK, CarryInv, Carrying
<1> QED BY <1>1, PoolInvariant, PTL DEF Spec, RunsOnceUnlessCanceled

=============================================================================
