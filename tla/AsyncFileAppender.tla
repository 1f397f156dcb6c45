------------------------- MODULE AsyncFileAppender -------------------------
(***************************************************************************)
(* AsyncFileAppender (src/src/logger/AsyncFileAppender.cc): the threads    *)
(* that log append to cur_buffer under mtx; a flush thread exchanges the   *)
(* full buffers for empty ones under mtx and writes them to the file       *)
(* without it.  Start waits for the flush thread on a CountDownLatch, Stop *)
(* joins it, and a FATAL message (Logger::Log) ends the process.           *)
(*                                                                         *)
(* A message is its number in the order of the Appends, a buffer the       *)
(* sequence of the messages in it, and a unique_ptr that was moved from is *)
(* Null.                                                                   *)
(***************************************************************************)
EXTENDS Naturals, Sequences

CONSTANTS
    BufferSize,  \* kFixedBufferSize, in messages
    MaxLog,      \* bound on the messages appended
    FastDisk,    \* the sleep before abort() is enough for everything but the
                 \* flush thread's own timeout
    Null

ASSUME SizeAssumption == BufferSize \in Nat \ {0} /\ MaxLog \in Nat
ASSUME DiskAssumption == FastDisk \in BOOLEAN
ASSUME NullAssumption == Null \notin Seq(Nat)

VARIABLES
    cur_buffer, next_buffer, fulled_buffers,   \* guarded by mtx
    tmp_buffer1, tmp_buffer2, buffers_to_write, \* local to the flush thread
    written,     \* how many of buffers_to_write have been written
    file,        \* the log file
    pc,          \* the flush thread
    count,       \* the latch
    starter,     \* the thread in Start
    stop,
    stopper,     \* the thread in Stop
    fatal,       \* the thread in Logger::Log(kFatal)
    appended,    \* number of messages appended so far ...
    stopMark,    \* ... when Stop found the flush thread about to collect
    fatalMark    \* ... when the FATAL message's Flush was heard

front == <<cur_buffer, next_buffer, fulled_buffers, appended>>
back == <<tmp_buffer1, tmp_buffer2, buffers_to_write, written, file>>
control == <<count, starter, stop, stopper, fatal, stopMark, fatalMark>>
vars == <<front, back, pc, control>>

Buffer == Seq(Nat)
BufferPtr == Buffer \union {Null}

Alive == fatal # "aborted"

Init ==
    /\ cur_buffer = <<>> /\ next_buffer = <<>> /\ fulled_buffers = <<>>
    /\ tmp_buffer1 = <<>> /\ tmp_buffer2 = <<>> /\ buffers_to_write = <<>>
    /\ written = 0 /\ file = <<>>
    /\ pc = "none" /\ count = 1 /\ starter = "idle"
    /\ stop = FALSE /\ stopper = "idle" /\ fatal = "none"
    /\ appended = 0 /\ stopMark = 0 /\ fatalMark = 0

-----------------------------------------------------------------------------
(* The threads that log.                                                   *)

\* Mutant: nobody is notified.
FlushSilent == UNCHANGED pc

\* notify_one: only a thread that waits hears it.
Flush == pc' = IF pc = "waiting" THEN "woken" ELSE pc

Fits(b) == Len(b) < BufferSize

\* FixedBuffer::Append.
BufferAppend(b, m) == IF Fits(b) THEN Append(b, m) ELSE b

\* Mutant: the message that found the buffer full is not stored.
AppendMessageLost ==
    LET m == appended + 1 IN
    /\ appended < MaxLog
    /\ appended' = m
    /\ \/ /\ Fits(cur_buffer)
          /\ cur_buffer' = BufferAppend(cur_buffer, m)
          /\ UNCHANGED <<next_buffer, fulled_buffers, pc>>
       \/ /\ ~Fits(cur_buffer)
          /\ fulled_buffers' = Append(fulled_buffers, cur_buffer)
          /\ cur_buffer' = IF next_buffer = Null THEN <<>> ELSE next_buffer
          /\ next_buffer' = Null
          /\ Flush

\* One Append, a critical section of mtx.
AppendMessage ==
    LET m == appended + 1 IN
    /\ appended < MaxLog
    /\ appended' = m
    /\ \/ /\ Fits(cur_buffer)
          /\ cur_buffer' = BufferAppend(cur_buffer, m)
          /\ UNCHANGED <<next_buffer, fulled_buffers, pc>>
       \/ /\ ~Fits(cur_buffer)
          /\ fulled_buffers' = Append(fulled_buffers, cur_buffer)
          /\ cur_buffer' = BufferAppend(IF next_buffer = Null THEN <<>> ELSE next_buffer, m)
          /\ next_buffer' = Null
          /\ Flush

Log ==
    /\ Alive
    /\ AppendMessage
    /\ UNCHANGED <<back, control>>

\* Logger::Log(kFatal): the message, the reason, Flush, a sleep, abort.
FatalAppend ==
    /\ Alive
    /\ \/ fatal = "none" /\ starter = "started" /\ fatal' = "message"
       \/ fatal = "message" /\ fatal' = "reason"
    /\ AppendMessage
    /\ UNCHANGED <<back, count, starter, stop, stopper, stopMark, fatalMark>>

FatalFlush ==
    /\ fatal = "reason"
    /\ Flush
    /\ fatal' = "sleep"
    /\ fatalMark' = IF pc \in {"waiting", "woken"} THEN appended ELSE 0
    /\ UNCHANGED <<front, back, count, starter, stop, stopper, stopMark>>

FatalAbort ==
    /\ fatal = "sleep"
    /\ FastDisk => pc \in {"waiting", "exited"}
    /\ fatal' = "aborted"
    /\ UNCHANGED <<front, back, pc, count, starter, stop, stopper, stopMark, fatalMark>>

-----------------------------------------------------------------------------
(* Start and Stop.                                                         *)

Start ==
    /\ Alive
    /\ starter = "idle"
    /\ starter' = "waiting"
    /\ pc' = "start"
    /\ UNCHANGED <<front, back, count, stop, stopper, fatal, stopMark, fatalMark>>

StartReturns ==
    /\ Alive
    /\ starter = "waiting" /\ count = 0
    /\ starter' = "started"
    /\ UNCHANGED <<front, back, pc, count, stop, stopper, fatal, stopMark, fatalMark>>

StopFlush ==
    /\ Alive
    /\ starter = "started" /\ stopper = "idle"
    /\ Flush
    /\ stopper' = "store"
    /\ stopMark' = IF pc \in {"lock", "waiting", "woken"} THEN appended ELSE 0
    /\ UNCHANGED <<front, back, count, starter, stop, fatal, fatalMark>>

StopStore ==
    /\ Alive
    /\ stopper = "store"
    /\ stop' = TRUE
    /\ stopper' = "join"
    /\ UNCHANGED <<front, back, pc, count, starter, fatal, stopMark, fatalMark>>

StopJoined ==
    /\ Alive
    /\ stopper = "join" /\ pc = "exited"
    /\ stopper' = "joined"
    /\ UNCHANGED <<front, back, pc, count, starter, stop, fatal, stopMark, fatalMark>>

-----------------------------------------------------------------------------
(* The flush thread.                                                       *)

\* Mutant: the latch is counted down twice.
CountDownTwice ==
    /\ Alive
    /\ pc = "start"
    /\ count' = count - 2
    /\ pc' = "check"
    /\ UNCHANGED <<front, back, starter, stop, stopper, fatal, stopMark, fatalMark>>

CountDown ==
    /\ Alive
    /\ pc = "start"
    /\ count' = count - 1
    /\ pc' = "check"
    /\ UNCHANGED <<front, back, starter, stop, stopper, fatal, stopMark, fatalMark>>

CheckStop ==
    /\ Alive
    /\ pc = "check"
    /\ pc' = IF stop THEN "exited" ELSE "lock"
    /\ UNCHANGED <<front, back, control>>

\* Mutant: stop is tested again before the wait.
WaitForUnlessStopped ==
    /\ Alive
    /\ pc = "lock" /\ fulled_buffers = <<>>
    /\ pc' = IF stop THEN "exited" ELSE "waiting"
    /\ UNCHANGED <<front, back, control>>

\* wait_for, when nothing is full.  It returns on a notification, on the timeout
\* or spuriously; there is no predicate.
WaitFor ==
    /\ Alive
    /\ pc = "lock" /\ fulled_buffers = <<>>
    /\ pc' = "waiting"
    /\ UNCHANGED <<front, back, control>>

\* Mutant: wait instead of wait_for.
TimeoutNever == FALSE /\ UNCHANGED vars

Timeout ==
    /\ Alive
    /\ pc = "waiting"
    /\ pc' = "woken"
    /\ UNCHANGED <<front, back, control>>

\* Mutant: next_buffer is replaced even when it exists.
CollectAlwaysReplaces ==
    /\ Alive
    /\ pc = "woken" \/ (pc = "lock" /\ fulled_buffers # <<>>)
    /\ buffers_to_write' = Append(fulled_buffers, cur_buffer)
    /\ fulled_buffers' = <<>>
    /\ cur_buffer' = tmp_buffer1
    /\ tmp_buffer1' = Null
    /\ next_buffer' = tmp_buffer2
    /\ tmp_buffer2' = Null
    /\ pc' = "write"
    /\ UNCHANGED <<written, file, appended, control>>

\* The rest of the critical section: cur_buffer goes with the full ones, the
\* temporary buffers replace it and, if it is gone, next_buffer.
Collect ==
    /\ Alive
    /\ pc = "woken" \/ (pc = "lock" /\ fulled_buffers # <<>>)
    /\ buffers_to_write' = Append(fulled_buffers, cur_buffer)
    /\ fulled_buffers' = <<>>
    /\ cur_buffer' = tmp_buffer1
    /\ tmp_buffer1' = Null
    /\ next_buffer' = IF next_buffer = Null THEN tmp_buffer2 ELSE next_buffer
    /\ tmp_buffer2' = IF next_buffer = Null THEN Null ELSE tmp_buffer2
    /\ pc' = "write"
    /\ UNCHANGED <<written, file, appended, control>>

Write ==
    /\ Alive
    /\ pc = "write" /\ written < Len(buffers_to_write)
    /\ file' = file \o buffers_to_write[written + 1]
    /\ written' = written + 1
    /\ UNCHANGED <<front, tmp_buffer1, tmp_buffer2, buffers_to_write, pc, control>>

\* Two of the written buffers are emptied and kept, the others freed.
Reuse ==
    /\ Alive
    /\ pc = "write" /\ written = Len(buffers_to_write)
    /\ tmp_buffer1' = IF tmp_buffer1 = Null THEN <<>> ELSE tmp_buffer1
    /\ tmp_buffer2' = IF tmp_buffer2 = Null THEN <<>> ELSE tmp_buffer2
    /\ buffers_to_write' = <<>>
    /\ written' = 0
    /\ pc' = "check"
    /\ UNCHANGED <<front, file, control>>

FlushThread == CountDown \/ CheckStop \/ WaitFor \/ Timeout \/ Collect \/ Write \/ Reuse

-----------------------------------------------------------------------------

Stop == StopFlush \/ StopStore \/ StopJoined

Fatal == FatalAppend \/ FatalFlush \/ FatalAbort

Next == Log \/ Fatal \/ Start \/ StartReturns \/ Stop \/ FlushThread

Spec == Init /\ [][Next]_vars

\* The flush thread is scheduled, its timeout included, and Stop, once called, is
\* carried on.
FairSpec ==
    /\ Spec
    /\ WF_vars(FlushThread)
    /\ WF_vars(StopStore \/ StopJoined)

-----------------------------------------------------------------------------
(* Properties.                                                             *)

\* Every variable keeps the shape the code gives it.
TypeOK ==
    /\ cur_buffer \in BufferPtr /\ next_buffer \in BufferPtr
    /\ tmp_buffer1 \in BufferPtr /\ tmp_buffer2 \in BufferPtr
    /\ fulled_buffers \in Seq(BufferPtr) /\ buffers_to_write \in Seq(BufferPtr)
    /\ written \in 0..Len(buffers_to_write)
    /\ file \in Seq(Nat)
    /\ pc \in {"none", "start", "check", "lock", "waiting", "woken", "write", "exited"}
    /\ count \in {0, 1} /\ stop \in BOOLEAN
    /\ starter \in {"idle", "waiting", "started"}
    /\ stopper \in {"idle", "store", "join", "joined"}
    /\ fatal \in {"none", "message", "reason", "sleep", "aborted"}
    /\ appended \in Nat /\ stopMark \in Nat /\ fatalMark \in Nat

\* No null pointer is dereferenced and no vector indexed past its end: cur_buffer
\* always exists for the next Append, every buffer to be written exists, and
\* whenever FlushThread has given a temporary buffer away, buffers_to_write has
\* one to replace it.
NoNullBuffer ==
    /\ cur_buffer # Null
    /\ \A i \in 1..Len(fulled_buffers) : fulled_buffers[i] # Null
    /\ \A i \in 1..Len(buffers_to_write) : buffers_to_write[i] # Null
    /\ pc = "write" /\ tmp_buffer1 = Null => Len(buffers_to_write) >= 1
    /\ pc = "write" /\ tmp_buffer2 = Null => Len(buffers_to_write) >= 2

\* The buffer holds the messages that follow message number n.
Follows(b, n) == \A j \in 1..Len(b) : b[j] = n + j

\* The number of messages in n full buffers.
InFull(n) == n * BufferSize

\* How far the file reaches once the flush thread has written what it has taken.
Collected ==
    Len(file) + IF written = Len(buffers_to_write) THEN 0
                ELSE InFull(Len(buffers_to_write) - written - 1)
                     + Len(buffers_to_write[Len(buffers_to_write)])

\* Double buffering loses, duplicates and reorders nothing: the file, the buffers
\* being written, the full ones and the current one are together what was
\* appended, in the order of the Appends, while Append and FlushThread interleave.
LogConserved ==
    /\ Follows(file, 0)
    /\ \A i \in written + 1..Len(buffers_to_write) :
          /\ Follows(buffers_to_write[i], Len(file) + InFull(i - written - 1))
          /\ i < Len(buffers_to_write) => Len(buffers_to_write[i]) = BufferSize
    /\ \A i \in 1..Len(fulled_buffers) :
          /\ Follows(fulled_buffers[i], Collected + InFull(i - 1))
          /\ Len(fulled_buffers[i]) = BufferSize
    /\ Follows(cur_buffer, Collected + InFull(Len(fulled_buffers)))
    /\ appended = Collected + InFull(Len(fulled_buffers)) + Len(cur_buffer)

\* A message that was appended gets to the file without anyone asking for it,
\* unless the appender is stopped or the process aborted.
AppendedIsWritten ==
    \A n \in 1..MaxLog :
        appended >= n /\ pc # "none" ~> Len(file) >= n \/ stop \/ ~Alive

\* Stop returns: the flush thread is never waited for in vain.
StopReturns == stopper # "idle" ~> stopper = "joined" \/ ~Alive

\* Stop that finds the flush thread behind its test of stop and before it collects
\* returns with everything in the file that was appended before the call, even if
\* stop is stored before the thread wakes up.  (A thread that is writing or that
\* has still to test stop may end without collecting.)
StopFlushesLog == stopper = "joined" => Len(file) >= stopMark

\* If the flush thread hears the Flush of a FATAL message, the message is in the
\* file when the process ends, the disk permitting.  (While it writes it hears
\* nothing.)
FatalIsOnDisk == FastDisk /\ ~Alive => Len(file) >= fatalMark

=============================================================================
