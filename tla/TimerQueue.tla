----------------------------- MODULE TimerQueue -----------------------------
(***************************************************************************)
(* TimerQueue (src/src/net/TimerQueue.cc, TimerQueue.h): timers in a       *)
(* priority queue, one timerfd that wakes the IO thread, and AddTimer and  *)
(* CancelTimer from any thread.                                            *)
(*                                                                         *)
(* Time is relative: left[t] is expire - DateTime::Now(), one unit being   *)
(* the 100us below which SetTimerFd does not go.  A step of the model is a *)
(* critical section of mtx or the code between two of them.                *)
(***************************************************************************)
EXTENDS Integers, FiniteSets

CONSTANTS
    Timers,      \* the TimerStructs there may be at one time
    MaxDelay,    \* longest delay and repeat interval
    MaxRepeat,   \* largest repeat_times
    MaxLate      \* how far past its expiry a timer is told apart

ASSUME DelayAssumption == MaxDelay \in Nat \ {0}
ASSUME RepeatAssumption == MaxRepeat \in Nat
ASSUME LateAssumption == MaxLate \in Nat

VARIABLES
    status,      \* where each TimerStruct is
    left,        \* expire - now
    interval,    \* repeat_interval
    repeat,      \* repeat_times
    until,       \* has a stop_condition
    canceled,    \* TimerStruct::canceled
    times,       \* history: the repeat_times it was created with
    runs,        \* history: how often its task has run
    timers_map,  \* the timers in timers_map; waiting_timers is Waiting
    fd,          \* the timerfd: time left until it expires (0: disarmed), readable
    pc,          \* the IO thread
    next_timeout,
    expired      \* expired_timers still to be handled

timer == <<status, left, interval, repeat, until, canceled, times, runs, timers_map>>
vars == <<timer, fd, pc, next_timeout, expired>>

Waiting == {t \in Timers : status[t] = "waiting"}

\* The priority_queue's top.  TimerCmp is "less", so it is a timer with the
\* LATEST expiry.
IsTop(t) == t \in Waiting /\ \A u \in Waiting : left[u] <= left[t]

\* timerfd_settime, with the clamp of SetTimerFd; it discards an expiration
\* that has not been read.
Armed(us) == [left |-> IF us > 1 THEN us ELSE 1, readable |-> FALSE]

Init ==
    /\ status = [t \in Timers |-> "none"]
    /\ left = [t \in Timers |-> 0]
    /\ interval = [t \in Timers |-> 0]
    /\ repeat = [t \in Timers |-> 0]
    /\ until = [t \in Timers |-> FALSE]
    /\ canceled = [t \in Timers |-> FALSE]
    /\ times = [t \in Timers |-> 0]
    /\ runs = [t \in Timers |-> 0]
    /\ timers_map = {}
    /\ fd = [left |-> 0, readable |-> FALSE]
    /\ pc = "idle"
    /\ next_timeout = -1
    /\ expired = {}

-----------------------------------------------------------------------------
(* The public functions, called from any thread.                           *)

\* The AddTimer overloads: a one-shot timer (which may lie in the past), one that
\* repeats r times, one with a stop condition (whose repeat_times is 0).  A new
\* TimerStruct takes the place of one that is gone, so timers may be added for ever.
CreateTimer(t) ==
    /\ status[t] \in {"none", "deleted", "leaked"}
    /\ status' = [status EXCEPT ![t] = "adding"]
    /\ \E d \in 0..MaxDelay, r \in 0..MaxRepeat, u \in BOOLEAN :
        /\ u => r = 0
        /\ left' = [left EXCEPT ![t] = d]
        /\ interval' = [interval EXCEPT ![t] = IF r > 0 THEN d ELSE 0]
        /\ repeat' = [repeat EXCEPT ![t] = r]
        /\ until' = [until EXCEPT ![t] = u]
        /\ times' = [times EXCEPT ![t] = r]
    /\ canceled' = [canceled EXCEPT ![t] = FALSE]
    /\ runs' = [runs EXCEPT ![t] = 0]
    /\ UNCHANGED <<timers_map, fd, pc, next_timeout, expired>>

\* AddTimer(TimerStruct*), before the lock: a timer that has already expired is
\* refused with -1, and its TimerStruct is forgotten.
AddRefused(t) ==
    /\ status[t] = "adding" /\ left[t] <= 0
    /\ status' = [status EXCEPT ![t] = "leaked"]
    /\ expired' = expired \ {t}
    /\ UNCHANGED <<left, interval, repeat, until, canceled, times, runs, timers_map, fd, pc,
                   next_timeout>>

AddChecked(t) ==
    /\ status[t] = "adding" /\ left[t] > 0
    /\ status' = [status EXCEPT ![t] = "checked"]
    /\ UNCHANGED <<left, interval, repeat, until, canceled, times, runs, timers_map, fd, pc,
                   next_timeout, expired>>

\* Mutant: the first timer of an empty queue does not set the timerfd.
NeedsWakeupIfEarlier(t) == \E u \in Timers : IsTop(u) /\ left[t] < left[u]

NeedsWakeup(t) == Waiting = {} \/ \E u \in Timers : IsTop(u) /\ left[t] < left[u]

\* AddTimer(TimerStruct*), under the lock.  Time has passed since the check.
AddLocked(t) ==
    /\ status[t] = "checked"
    /\ fd' = IF NeedsWakeup(t) THEN Armed(left[t]) ELSE fd
    /\ status' = [status EXCEPT ![t] = "waiting"]
    /\ timers_map' = timers_map \union {t}
    /\ expired' = expired \ {t}
    /\ UNCHANGED <<left, interval, repeat, until, canceled, times, runs, pc, next_timeout>>

\* CancelTimer returns true exactly when the timer is found.
CancelTimer(t) ==
    /\ t \in timers_map
    /\ canceled' = [canceled EXCEPT ![t] = TRUE]
    /\ UNCHANGED <<status, left, interval, repeat, until, times, runs, timers_map, fd, pc,
                   next_timeout, expired>>

-----------------------------------------------------------------------------
(* The IO thread, OnTimeout.                                               *)

\* epoll_wait returns the timer channel.
Wake ==
    /\ pc = "idle" /\ fd.readable
    /\ pc' = "woken"
    /\ UNCHANGED <<timer, fd, next_timeout, expired>>

ReadTimerFd ==
    /\ pc = "woken"
    /\ fd' = [fd EXCEPT !.readable = FALSE]
    /\ pc' = "peek"
    /\ UNCHANGED <<timer, next_timeout, expired>>

\* PopExpiredTimers looks at waiting_timers without the lock first.
PeekEmpty ==
    /\ pc = "peek"
    /\ pc' = IF Waiting = {} THEN "next" ELSE "pop"
    /\ UNCHANGED <<timer, fd, next_timeout, expired>>

\* How many timers PopExpiredTimers pops of n that have all expired: i counts up
\* while size() goes down.
PopCount(n) == (n + 1) \div 2

\* The sets of timers PopExpiredTimers may pop.  Nothing is popped while the top,
\* the latest timer, has not expired.
Poppable ==
    IF \E t \in Waiting : left[t] > 0 THEN {{}}
    ELSE {P \in SUBSET Waiting :
            /\ Cardinality(P) = PopCount(Cardinality(Waiting))
            /\ \A p \in P, q \in Waiting \ P : left[q] <= left[p]}

\* Mutant: popped timers stay in timers_map.
PopExpiredKeepsMap ==
    /\ pc = "pop"
    /\ \E P \in Poppable :
        /\ expired' = P
        /\ status' = [t \in Timers |-> IF t \in P THEN "popped" ELSE status[t]]
    /\ pc' = "next"
    /\ UNCHANGED <<left, interval, repeat, until, canceled, times, runs, timers_map, fd,
                   next_timeout>>

PopExpiredTimers ==
    /\ pc = "pop"
    /\ \E P \in Poppable :
        /\ expired' = P
        /\ status' = [t \in Timers |-> IF t \in P THEN "popped" ELSE status[t]]
        /\ timers_map' = timers_map \ P
    /\ pc' = "next"
    /\ UNCHANGED <<left, interval, repeat, until, canceled, times, runs, fd, next_timeout>>

\* Mutant: the timerfd is never set again.
GetNextTimeoutOrNone ==
    /\ pc = "next"
    /\ next_timeout' = -1
    /\ pc' = "handle"
    /\ UNCHANGED <<timer, fd, expired>>

\* GetNextTimeout: the time left to the top of the queue, -1 if there is none.
GetNextTimeout ==
    /\ pc = "next"
    /\ IF Waiting = {} THEN next_timeout' = -1 /\ pc' = "handle"
       ELSE /\ \E t \in Timers : IsTop(t) /\ next_timeout' = IF left[t] > 0 THEN left[t] ELSE 0
            /\ pc' = "arm"
    /\ UNCHANGED <<timer, fd, expired>>

\* SetTimerFd in OnTimeout, without the lock.
SetTimerFd ==
    /\ pc = "arm"
    /\ fd' = Armed(next_timeout)
    /\ pc' = "handle"
    /\ UNCHANGED <<timer, next_timeout, expired>>

\* The timer OnTimeout handles next: none is being added again.
Handling(t) ==
    /\ pc = "handle"
    /\ t \in expired
    /\ \A u \in expired : status[u] = "popped"

\* HandleTimer: canceled, or the stop condition holds.
DropTimer(t) ==
    /\ Handling(t)
    /\ canceled[t] \/ until[t]
    /\ status' = [status EXCEPT ![t] = "deleted"]
    /\ expired' = expired \ {t}
    /\ timers_map' = timers_map \ {t}
    /\ UNCHANGED <<left, interval, repeat, until, canceled, times, runs, fd, pc, next_timeout>>

\* Mutant: HandleTimer adds the timer again with the repeat_times it had.
RunTimerForever(t) ==
    /\ Handling(t)
    /\ ~canceled[t]
    /\ runs' = [runs EXCEPT ![t] = @ + 1]
    /\ IF repeat[t] > 0
       THEN /\ left' = [left EXCEPT ![t] = interval[t]]
            /\ status' = [status EXCEPT ![t] = "adding"]
            /\ UNCHANGED expired
       ELSE /\ status' = [status EXCEPT ![t] = "deleted"]
            /\ expired' = expired \ {t}
            /\ UNCHANGED left
    /\ UNCHANGED <<repeat, interval, until, canceled, times, timers_map, fd, pc, next_timeout>>

\* HandleTimer: the task is run; the timer is added again or deleted.
RunTimer(t) ==
    /\ Handling(t)
    /\ ~canceled[t]
    /\ runs' = [runs EXCEPT ![t] = @ + 1]
    /\ IF repeat[t] > 0
       THEN /\ repeat' = [repeat EXCEPT ![t] = @ - 1]
            /\ left' = [left EXCEPT ![t] = interval[t]]
            /\ status' = [status EXCEPT ![t] = "adding"]
            /\ UNCHANGED expired
       ELSE /\ status' = [status EXCEPT ![t] = "deleted"]
            /\ expired' = expired \ {t}
            /\ UNCHANGED <<repeat, left>>
    /\ UNCHANGED <<interval, until, canceled, times, timers_map, fd, pc, next_timeout>>

OnTimeoutReturns ==
    /\ pc = "handle" /\ expired = {}
    /\ pc' = "idle"
    /\ UNCHANGED <<timer, fd, next_timeout, expired>>

-----------------------------------------------------------------------------
(* Time, for the timers and for the timerfd.                               *)

Pending(t) == status[t] \in {"adding", "checked", "waiting", "popped"}

Tick ==
    /\ left' = [t \in Timers |->
                  IF Pending(t) /\ left[t] > -MaxLate THEN left[t] - 1 ELSE left[t]]
    /\ fd' = IF fd.left = 1 THEN [left |-> 0, readable |-> TRUE]
             ELSE [fd EXCEPT !.left = IF @ > 0 THEN @ - 1 ELSE @]
    /\ UNCHANGED <<status, interval, repeat, until, canceled, times, runs, timers_map, pc,
                   next_timeout, expired>>

-----------------------------------------------------------------------------

AddTimer(t) == AddRefused(t) \/ AddChecked(t) \/ AddLocked(t)

IOStep ==
    \/ Wake \/ ReadTimerFd \/ PeekEmpty \/ PopExpiredTimers \/ GetNextTimeout
    \/ SetTimerFd \/ OnTimeoutReturns
    \/ \E t \in Timers : DropTimer(t) \/ RunTimer(t)

Next ==
    \/ IOStep \/ Tick
    \/ \E t \in Timers : CreateTimer(t) \/ AddTimer(t) \/ CancelTimer(t)

Spec == Init /\ [][Next]_vars

\* Both threads are scheduled and time goes on.
FairSpec ==
    /\ Spec
    /\ WF_vars(IOStep)
    /\ WF_vars(Tick)
    /\ \A t \in Timers : WF_vars(AddTimer(t))

-----------------------------------------------------------------------------
(* Properties.                                                             *)

\* Every variable keeps the shape the code gives it.
TypeOK ==
    /\ status \in [Timers -> {"none", "adding", "checked", "waiting", "popped",
                              "deleted", "leaked"}]
    /\ left \in [Timers -> (-MaxLate)..MaxDelay]
    /\ interval \in [Timers -> 0..MaxDelay]
    /\ repeat \in [Timers -> 0..MaxRepeat]
    /\ until \in [Timers -> BOOLEAN]
    /\ canceled \in [Timers -> BOOLEAN]
    /\ times \in [Timers -> 0..MaxRepeat]
    /\ runs \in [Timers -> Nat]
    /\ timers_map \subseteq Timers
    /\ fd \in [left : Nat, readable : BOOLEAN]
    /\ pc \in {"idle", "woken", "peek", "pop", "next", "arm", "handle"}
    /\ next_timeout \in -1..MaxDelay
    /\ expired \subseteq Timers

\* While a timer waits, the timerfd is armed or has expired, or the IO thread has
\* still to set it: AddTimer on any thread and OnTimeout's unlocked SetTimerFd do
\* not leave a timer that nothing will ever look at.
NoStrandedTimer ==
    Waiting # {} => \/ fd.left > 0 \/ fd.readable
                    \/ pc \in {"woken", "peek", "pop", "next", "arm"}

\* timers_map holds exactly the timers of waiting_timers: CancelTimer never
\* reaches a TimerStruct that was deleted or that the IO thread is handling.
MapMatchesQueue == timers_map = Waiting

\* A task runs only after its timer has expired, never once CancelTimer has
\* returned true for it, and, unless it has a stop condition, once more than the
\* repeat_times it was created with and no oftener.
RunsWhenDue ==
    [][\A t \in Timers : runs'[t] > runs[t] =>
        left[t] <= 0 /\ ~canceled[t] /\ (until[t] \/ runs[t] <= times[t])]_vars

\* Once no more timers are created, every timer in the queue leaves it, however the
\* calls of AddTimer before that, the repetitions and OnTimeout have interleaved on
\* the timerfd.
HandledOnceQuiet ==
    <>[][~\E t \in Timers : CreateTimer(t)]_vars
        => \A t \in Timers : status[t] = "waiting" ~> status[t] # "waiting"

\* AddTimer's comment: the task is executed when the timer times out.  A timer in
\* the queue leaves it, to be run or dropped, whatever other timers are added.
WaitingIsHandled == \A t \in Timers : status[t] = "waiting" ~> status[t] # "waiting"

\* AddTimer's comment on a stop condition: the timer repeats until the condition
\* returns true.  HandleTimer does not delete it after a run.
RepeatsUntilStopped ==
    [][\A t \in Timers : until[t] /\ runs'[t] > runs[t] => status'[t] # "deleted"]_vars

\* AddTimer and OnTimeout keep the timerfd set to the earliest timer: the IO thread
\* does not sleep on while a timer in the queue has expired (SetTimerFd sleeps at
\* least one unit).
NoSleepPastExpiry ==
    pc = "idle" /\ ~fd.readable => \A t \in Waiting : left[t] <= 0 => fd.left <= 1

=============================================================================
