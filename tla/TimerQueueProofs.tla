-------------------------- MODULE TimerQueueProofs --------------------------
(***************************************************************************)
(* The TimerQueue's safety, for any set of timers, any delays and any      *)
(* interleaving of AddTimer and CancelTimer with the IO thread.            *)
(***************************************************************************)
EXTENDS TimerQueue, TLAPS

USE DelayAssumption, RepeatAssumption, LateAssumption

\* A popped timer has expired, and as long as a timer exists the runs it has had
\* and the repetitions it has left make up the repeat_times it was created with.
DueInv ==
    \A t \in Timers :
        /\ status[t] = "popped" => left[t] <= 0
        /\ Pending(t) => runs[t] + repeat[t] = times[t]

\* The IO thread's local value is a timeout when it is about to set the timerfd.
ArmInv == pc = "arm" => next_timeout \in 0..MaxDelay

QueueInv == TypeOK /\ NoStrandedTimer /\ MapMatchesQueue /\ DueInv /\ ArmInv

\* An empty queue and a timerfd that is not set.
LEMMA QueueInit == Init => QueueInv
BY DEF Init, QueueInv, TypeOK, NoStrandedTimer, MapMatchesQueue, DueInv, Pending, ArmInv, Waiting

\* A timerfd that was set will fire.
LEMMA ArmedFires ==
    ASSUME NEW us \in Int
    PROVE  /\ Armed(us) \in [left : Nat, readable : BOOLEAN]
           /\ Armed(us).left > 0
BY DEF Armed

\* AddTimer and CancelTimer keep the invariant.
LEMMA CallerStep ==
    ASSUME QueueInv, NEW t \in Timers,
           CreateTimer(t) \/ AddTimer(t) \/ CancelTimer(t)
    PROVE  QueueInv'
<1>1. CASE CreateTimer(t)
  <2>1. PICK d \in 0..MaxDelay, r \in 0..MaxRepeat, u \in BOOLEAN :
            /\ left' = [left EXCEPT ![t] = d]
            /\ interval' = [interval EXCEPT ![t] = IF r > 0 THEN d ELSE 0]
            /\ repeat' = [repeat EXCEPT ![t] = r]
            /\ until' = [until EXCEPT ![t] = u]
            /\ times' = [times EXCEPT ![t] = r]
    BY <1>1 DEF CreateTimer
  <2>2. /\ status[t] # "waiting" /\ status' = [status EXCEPT ![t] = "adding"]
        /\ canceled' = [canceled EXCEPT ![t] = FALSE]
        /\ runs' = [runs EXCEPT ![t] = 0]
        /\ UNCHANGED <<timers_map, fd, pc, next_timeout, expired>>
    BY <1>1 DEF CreateTimer
  <2>3. TypeOK'
    BY <2>1, <2>2 DEF QueueInv, TypeOK
  <2>4. Waiting' = Waiting
    BY <2>2 DEF Waiting, QueueInv, TypeOK
  <2>5. DueInv'
    BY <2>1, <2>2 DEF QueueInv, TypeOK, DueInv, Pending
  <2> QED BY <2>2, <2>3, <2>4, <2>5 DEF QueueInv, NoStrandedTimer, MapMatchesQueue, ArmInv
<1>2. CASE AddRefused(t) \/ AddChecked(t)
  <2>1. Waiting' = Waiting
    BY <1>2 DEF AddRefused, AddChecked, Waiting, QueueInv, TypeOK
  <2> QED BY <1>2, <2>1 DEF AddRefused, AddChecked, QueueInv, TypeOK, NoStrandedTimer,
             MapMatchesQueue, DueInv, Pending, ArmInv
<1>3. CASE AddLocked(t)
  <2>1. /\ status' = [status EXCEPT ![t] = "waiting"] /\ status[t] = "checked"
        /\ timers_map' = timers_map \union {t} /\ expired' = expired \ {t}
        /\ fd' = IF NeedsWakeup(t) THEN Armed(left[t]) ELSE fd
        /\ UNCHANGED <<left, interval, repeat, until, canceled, times, runs, pc, next_timeout>>
    BY <1>3 DEF AddLocked
  <2>2. Waiting' = Waiting \union {t}
    BY <2>1 DEF Waiting, QueueInv, TypeOK
  <2>3. fd' = fd \/ (fd' \in [left : Nat, readable : BOOLEAN] /\ fd'.left > 0)
    BY <2>1, ArmedFires DEF QueueInv, TypeOK
  <2>4. TypeOK'
    BY <2>1, <2>3 DEF QueueInv, TypeOK
  <2>5. Waiting = {} => fd'.left > 0
    <3>1. left[t] \in Int
      BY DEF QueueInv, TypeOK
    <3> QED BY <2>1, <3>1, ArmedFires DEF NeedsWakeup
  <2>6. NoStrandedTimer'
    BY <2>1, <2>3, <2>5 DEF QueueInv, NoStrandedTimer
  <2> QED BY <2>1, <2>2, <2>4, <2>6 DEF QueueInv, TypeOK, MapMatchesQueue, DueInv, Pending, ArmInv
<1>4. CASE CancelTimer(t)
  <2>1. Waiting' = Waiting
    BY <1>4 DEF CancelTimer, Waiting
  <2> QED BY <1>4, <2>1 DEF CancelTimer, QueueInv, TypeOK, NoStrandedTimer,
             MapMatchesQueue, DueInv, Pending, ArmInv
<1> QED BY <1>1, <1>2, <1>3, <1>4 DEF AddTimer

\* The IO thread's steps up to SetTimerFd keep the invariant.
LEMMA WakeStep ==
    ASSUME QueueInv,
           \/ Wake \/ ReadTimerFd \/ PeekEmpty \/ PopExpiredTimers
           \/ GetNextTimeout \/ SetTimerFd \/ OnTimeoutReturns
    PROVE  QueueInv'
<1>1. CASE Wake \/ ReadTimerFd \/ PeekEmpty \/ OnTimeoutReturns
  <2>1. Waiting' = Waiting /\ UNCHANGED timer
    BY <1>1 DEF Wake, ReadTimerFd, PeekEmpty, OnTimeoutReturns, Waiting, timer
  <2> QED BY <1>1, <2>1 DEF Wake, ReadTimerFd, PeekEmpty, OnTimeoutReturns, timer,
             QueueInv, TypeOK, NoStrandedTimer, MapMatchesQueue, DueInv, Pending, ArmInv
<1>2. CASE PopExpiredTimers
  <2>1. PICK P \in Poppable :
            /\ expired' = P /\ timers_map' = timers_map \ P
            /\ status' = [u \in Timers |-> IF u \in P THEN "popped" ELSE status[u]]
    BY <1>2 DEF PopExpiredTimers
  <2>2. P \subseteq Waiting /\ \A u \in P : left[u] <= 0
    <3>1. CASE \E u \in Waiting : left[u] > 0
      BY <2>1, <3>1 DEF Poppable
    <3>2. CASE ~\E u \in Waiting : left[u] > 0
      <4>1. P \in SUBSET Waiting
        BY <2>1, <3>2 DEF Poppable
      <4> QED BY <3>2, <4>1 DEF Waiting, QueueInv, TypeOK
    <3> QED BY <3>1, <3>2
  <2>3. pc' = "next" /\ UNCHANGED <<left, interval, repeat, until, canceled, times, runs, fd,
                                     next_timeout>>
    BY <1>2 DEF PopExpiredTimers
  <2>4. Waiting' = Waiting \ P
    BY <2>1, <2>2 DEF Waiting
  <2>5. TypeOK'
    BY <2>1, <2>2, <2>3 DEF QueueInv, TypeOK, Waiting
  <2>6. DueInv'
    BY <2>1, <2>2, <2>3 DEF QueueInv, TypeOK, DueInv, Pending, Waiting
  <2> QED BY <2>1, <2>3, <2>4, <2>5, <2>6
          DEF QueueInv, NoStrandedTimer, MapMatchesQueue, ArmInv
<1>3. CASE GetNextTimeout
  <2>1. UNCHANGED <<timer, fd, expired>> /\ Waiting' = Waiting
    BY <1>3 DEF GetNextTimeout, Waiting, timer
  <2>2. CASE Waiting = {}
    BY <1>3, <2>1, <2>2 DEF GetNextTimeout, timer, QueueInv, TypeOK, NoStrandedTimer,
                            MapMatchesQueue, DueInv, Pending, ArmInv
  <2>3. CASE Waiting # {}
    <3>1. PICK t \in Timers : next_timeout' = IF left[t] > 0 THEN left[t] ELSE 0
      BY <1>3, <2>3 DEF GetNextTimeout
    <3>2. next_timeout' \in 0..MaxDelay
      BY <3>1 DEF QueueInv, TypeOK
    <3>3. pc' = "arm"
      BY <1>3, <2>3 DEF GetNextTimeout
    <3> QED BY <2>1, <3>2, <3>3 DEF timer, QueueInv, TypeOK, NoStrandedTimer,
                                    MapMatchesQueue, DueInv, Pending, ArmInv
  <2> QED BY <2>2, <2>3
<1>4. CASE SetTimerFd
  <2>1. UNCHANGED <<timer, next_timeout, expired>> /\ Waiting' = Waiting /\ pc' = "handle"
    BY <1>4 DEF SetTimerFd, Waiting, timer
  <2>2. fd' \in [left : Nat, readable : BOOLEAN] /\ fd'.left > 0
    BY <1>4, ArmedFires DEF SetTimerFd, QueueInv, ArmInv
  <2> QED BY <2>1, <2>2 DEF timer, QueueInv, TypeOK, NoStrandedTimer, MapMatchesQueue,
             DueInv, Pending, ArmInv
<1> QED BY <1>1, <1>2, <1>3, <1>4

\* HandleTimer and the passing of time keep the invariant.
LEMMA HandleStep ==
    ASSUME QueueInv, Tick \/ \E t \in Timers : DropTimer(t) \/ RunTimer(t)
    PROVE  QueueInv'
<1>1. ASSUME NEW t \in Timers, DropTimer(t) PROVE QueueInv'
  <2>1. Waiting' = Waiting /\ status[t] = "popped" /\ t \notin Waiting
    BY <1>1 DEF DropTimer, Handling, Waiting, QueueInv, TypeOK
  <2> QED BY <1>1, <2>1 DEF DropTimer, QueueInv, TypeOK, NoStrandedTimer, MapMatchesQueue,
             DueInv, Pending, ArmInv
<1>2. ASSUME NEW t \in Timers, RunTimer(t) PROVE QueueInv'
  <2>1. Waiting' = Waiting /\ status[t] = "popped"
    BY <1>2 DEF RunTimer, Handling, Waiting, QueueInv, TypeOK
  <2>2. TypeOK'
    <3>1. CASE repeat[t] > 0
      BY <1>2, <3>1 DEF RunTimer, QueueInv, TypeOK
    <3>2. CASE ~(repeat[t] > 0)
      BY <1>2, <3>2 DEF RunTimer, QueueInv, TypeOK
    <3> QED BY <3>1, <3>2
  <2>3. DueInv'
    <3>1. CASE repeat[t] > 0
      <4>1. /\ runs' = [runs EXCEPT ![t] = @ + 1] /\ repeat' = [repeat EXCEPT ![t] = @ - 1]
            /\ status' = [status EXCEPT ![t] = "adding"] /\ times' = times
            /\ left' = [left EXCEPT ![t] = interval[t]]
        BY <1>2, <3>1 DEF RunTimer
      <4>2. runs[t] + repeat[t] = times[t] /\ runs'[t] = runs[t] + 1 /\ repeat'[t] = repeat[t] - 1
        BY <4>1, <2>1 DEF QueueInv, TypeOK, DueInv, Pending
      <4>3. runs'[t] + repeat'[t] = times'[t]
        BY <4>1, <4>2 DEF QueueInv, TypeOK
      <4> QED BY <4>1, <4>3 DEF QueueInv, TypeOK, DueInv, Pending
    <3>2. CASE ~(repeat[t] > 0)
      BY <1>2, <3>2 DEF RunTimer, QueueInv, TypeOK, DueInv, Pending
    <3> QED BY <3>1, <3>2
  <2>4. UNCHANGED <<timers_map, fd, pc, next_timeout>>
    BY <1>2 DEF RunTimer
  <2> QED BY <2>1, <2>2, <2>3, <2>4 DEF QueueInv, NoStrandedTimer, MapMatchesQueue, ArmInv
<1>3. CASE Tick
  <2>1. Waiting' = Waiting
    BY <1>3 DEF Tick, Waiting
  <2>2. /\ fd' \in [left : Nat, readable : BOOLEAN]
        /\ fd.left > 0 \/ fd.readable => fd'.left > 0 \/ fd'.readable
    BY <1>3 DEF Tick, QueueInv, TypeOK
  <2>3. left' \in [Timers -> (-MaxLate)..MaxDelay] /\ \A t \in Timers : left'[t] <= left[t]
    BY <1>3 DEF Tick, QueueInv, TypeOK
  <2>4. UNCHANGED <<status, interval, repeat, until, canceled, times, runs, timers_map, pc,
                    next_timeout, expired>>
    BY <1>3 DEF Tick
  <2>5. TypeOK'
    BY <2>2, <2>3, <2>4 DEF QueueInv, TypeOK
  <2>6. DueInv'
    BY <2>3, <2>4 DEF QueueInv, TypeOK, DueInv, Pending
  <2> QED BY <2>1, <2>2, <2>4, <2>5, <2>6 DEF QueueInv, NoStrandedTimer, MapMatchesQueue,
             ArmInv
<1> QED BY <1>1, <1>2, <1>3

\* Every reachable state satisfies the invariant.
THEOREM QueueInvariant == Spec => []QueueInv
<1>1. QueueInv /\ [Next]_vars => QueueInv'
  <2> SUFFICES ASSUME QueueInv, [Next]_vars PROVE QueueInv'
    OBVIOUS
  <2>1. CASE UNCHANGED vars
    BY <2>1 DEF vars, timer, QueueInv, TypeOK, NoStrandedTimer, MapMatchesQueue, DueInv, Pending,
                ArmInv, Waiting
  <2>2. CASE Next
    BY <2>2, CallerStep, WakeStep, HandleStep DEF Next, IOStep
  <2> QED BY <2>1, <2>2
<1> QED BY <1>1, QueueInit, PTL DEF Spec

\* While a timer waits the timerfd will fire or the IO thread will set it, however
\* AddTimer on other threads interleaves with OnTimeout's unlocked SetTimerFd.
THEOREM NoTimerIsStranded == Spec => []NoStrandedTimer
<1>1. QueueInv => NoStrandedTimer
  BY DEF QueueInv
<1> QED BY <1>1, QueueInvariant, PTL

\* CancelTimer only ever reaches timers that wait in the queue.
THEOREM MapIsQueue == Spec => []MapMatchesQueue
<1>1. QueueInv => MapMatchesQueue
  BY DEF QueueInv
<1> QED BY <1>1, QueueInvariant, PTL

\* No task runs early, after a successful CancelTimer, or more often than once and
\* then repeat_times times.
THEOREM TasksRunWhenDue == Spec => RunsWhenDue
<1> DEFINE Due == \A t \in Timers : runs'[t] > runs[t] =>
                    left[t] <= 0 /\ ~canceled[t] /\ (until[t] \/ runs[t] <= times[t])
<1>1. QueueInv /\ [Next]_vars => [Due]_vars
  <2> SUFFICES ASSUME QueueInv, Next, NEW t \in Timers, runs'[t] > runs[t]
               PROVE  left[t] <= 0 /\ ~canceled[t] /\ (until[t] \/ runs[t] <= times[t])
    OBVIOUS
  <2>a. runs[t] \in Nat /\ runs' # runs
    BY DEF QueueInv, TypeOK
  <2>b. ASSUME NEW u \in Timers, CreateTimer(u) PROVE FALSE
    BY <2>a, <2>b DEF CreateTimer, QueueInv, TypeOK
  <2>1. PICK u \in Timers : RunTimer(u)
    BY <2>a, <2>b DEF Next, IOStep, Wake, ReadTimerFd, PeekEmpty, PopExpiredTimers, GetNextTimeout,
           SetTimerFd, OnTimeoutReturns, DropTimer, Tick, AddTimer,
           AddRefused, AddChecked, AddLocked, CancelTimer, timer
  <2>2. t = u
    BY <2>1 DEF RunTimer, QueueInv, TypeOK
  <2>3. status[t] = "popped" /\ ~canceled[t]
    BY <2>1, <2>2 DEF RunTimer, Handling
  <2> QED BY <2>3 DEF QueueInv, TypeOK, DueInv, Pending
<1> QED BY <1>1, QueueInvariant, PTL DEF Spec, RunsWhenDue

=============================================================================
