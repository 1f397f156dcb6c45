---------------------- MODULE AsyncFileAppenderProofs ----------------------
(***************************************************************************)
(* For every buffer size and any number of messages: the buffer exchange of *)
(* AsyncFileAppender never meets a null unique_ptr nor indexes past         *)
(* buffers_to_write, it conserves the log, and a Stop or a FATAL message    *)
(* that finds the flush thread able to collect gets everything written.     *)
(***************************************************************************)
EXTENDS AsyncFileAppender, TLAPS

\* next_buffer is missing only when an Append has just filled a buffer, which is
\* why buffers_to_write has a second buffer whenever tmp_buffer2 is given away;
\* outside the writing phase the flush thread has both temporary buffers.
Exchange ==
    /\ next_buffer = Null => Len(fulled_buffers) >= 1
    /\ pc # "write" => /\ tmp_buffer1 # Null /\ tmp_buffer2 # Null
                       /\ buffers_to_write = <<>> /\ written = 0

\* The latch is open exactly when the flush thread has passed CountDown.
LatchInv == /\ count = IF pc \in {"none", "start"} THEN 1 ELSE 0
            /\ pc = "none" <=> starter = "idle"

Inv == TypeOK /\ NoNullBuffer /\ Exchange /\ LatchInv

\* An empty buffer is not a null pointer.
LEMMA EmptyBuffer ==
    <<>> \in Seq(Nat) /\ <<>> \in Seq(BufferPtr) /\ <<>> # Null /\ Len(<<>>) = 0
<1>1. <<>> \in Seq(Nat) /\ <<>> \in Seq(BufferPtr)
    OBVIOUS
<1>2. Len(<<>>) = 0
    OBVIOUS
<1> QED
    BY <1>1, <1>2, NullAssumption

\* Both initial buffers, and the flush thread's own, exist.
LEMMA AppenderInit == Init => Inv
<1> SUFFICES ASSUME Init PROVE Inv
    OBVIOUS
<1>1. <<>> \in Seq(Nat) /\ <<>> \in Seq(BufferPtr) /\ <<>> # Null /\ Len(<<>>) = 0
    BY EmptyBuffer
<1>2. stop \in BOOLEAN
    BY Zenon DEF Init
<1>3. /\ cur_buffer \in BufferPtr /\ next_buffer \in BufferPtr
      /\ tmp_buffer1 \in BufferPtr /\ tmp_buffer2 \in BufferPtr
      /\ fulled_buffers \in Seq(BufferPtr) /\ buffers_to_write \in Seq(BufferPtr)
      /\ file \in Seq(Nat)
      /\ Len(fulled_buffers) = 0 /\ Len(buffers_to_write) = 0
    BY <1>1 DEF Init, Buffer, BufferPtr
<1>4. TypeOK
    BY <1>2, <1>3 DEF Init, TypeOK
<1>5. NoNullBuffer
    BY <1>1, <1>3 DEF Init, NoNullBuffer
<1>6. Exchange
    BY <1>1 DEF Init, Exchange
<1>7. LatchInv
    BY DEF Init, LatchInv
<1> QED
    BY <1>4, <1>5, <1>6, <1>7 DEF Inv

\* One Append, whoever calls it, keeps the part of the invariant about buffers.
LEMMA AppendInv ==
    ASSUME Inv, AppendMessage, UNCHANGED back
    PROVE  /\ cur_buffer' \in Buffer /\ next_buffer' \in BufferPtr
           /\ fulled_buffers' \in Seq(BufferPtr)
           /\ appended' \in Nat
           /\ pc' \in {pc, IF pc = "waiting" THEN "woken" ELSE pc}
           /\ NoNullBuffer' /\ Exchange'
<1>1. \A b \in Buffer, m \in Nat : BufferAppend(b, m) \in Buffer
    BY DEF BufferAppend, Buffer
<1>2. cur_buffer \in Buffer /\ <<>> \in Buffer /\ appended + 1 \in Nat /\ appended' \in Nat
    BY DEF Inv, TypeOK, NoNullBuffer, Buffer, BufferPtr, AppendMessage
<1>3. pc' \in {pc, IF pc = "waiting" THEN "woken" ELSE pc}
    BY DEF AppendMessage, Flush
<1>4. CASE Fits(cur_buffer)
    <2>1. cur_buffer' \in Buffer /\ UNCHANGED <<next_buffer, fulled_buffers, pc>>
        BY <1>1, <1>2, <1>4 DEF AppendMessage
    <2>2. cur_buffer' # Null
        BY <2>1, NullAssumption DEF Buffer
    <2> QED
        BY <1>2, <2>1, <2>2 DEF Inv, TypeOK, NoNullBuffer, Exchange, back
<1>5. CASE ~Fits(cur_buffer)
    <2>1. /\ cur_buffer' \in Buffer /\ next_buffer' = Null
          /\ fulled_buffers' = Append(fulled_buffers, cur_buffer)
        BY <1>1, <1>2, <1>5 DEF AppendMessage, Inv, TypeOK, BufferPtr
    <2>2. cur_buffer' # Null
        BY <2>1, NullAssumption DEF Buffer
    <2>3. /\ fulled_buffers' \in Seq(BufferPtr) /\ Len(fulled_buffers') >= 1
          /\ \A i \in 1..Len(fulled_buffers') : fulled_buffers'[i] # Null
        BY <1>2, <2>1 DEF Inv, TypeOK, NoNullBuffer, BufferPtr
    <2>4. NoNullBuffer' /\ Exchange'
        BY <1>3, <2>1, <2>2, <2>3 DEF Inv, TypeOK, NoNullBuffer, Exchange, back
    <2> QED
        BY <1>2, <1>3, <2>1, <2>3, <2>4 DEF BufferPtr
<1> QED
    BY <1>4, <1>5

\* Collect gives away tmp_buffer2 only when there is a full buffer to replace it.
LEMMA CollectInv == ASSUME Inv, Collect PROVE Inv'
<1>1. /\ buffers_to_write' \in Seq(BufferPtr)
      /\ Len(buffers_to_write') = Len(fulled_buffers) + 1
      /\ \A i \in 1..Len(buffers_to_write') : buffers_to_write'[i] # Null
    BY DEF Inv, TypeOK, NoNullBuffer, Collect
<1>2. /\ pc # "write" /\ written = 0 /\ tmp_buffer1 # Null /\ tmp_buffer2 # Null
      /\ Len(fulled_buffers) \in Nat
    BY DEF Collect, Inv, TypeOK, Exchange
<1>3. /\ cur_buffer' = tmp_buffer1 /\ next_buffer' # Null /\ pc' = "write"
      /\ fulled_buffers' = <<>> /\ written' = written
      /\ tmp_buffer2' = Null => next_buffer = Null
    BY <1>2 DEF Collect
<1>4. TypeOK'
    BY <1>1, <1>2 DEF Inv, TypeOK, Collect, control, BufferPtr
<1>5. NoNullBuffer'
    BY <1>1, <1>2, <1>3 DEF Inv, Exchange, NoNullBuffer
<1>6. Exchange' /\ LatchInv'
    BY <1>3 DEF Inv, Exchange, LatchInv, Collect, control
<1> QED
    BY <1>4, <1>5, <1>6 DEF Inv

\* Writing to the file disturbs no buffer.
LEMMA WriteInv == ASSUME Inv, Write PROVE Inv'
<1>1. /\ written + 1 \in 1..Len(buffers_to_write)
      /\ buffers_to_write[written + 1] \in BufferPtr
      /\ buffers_to_write[written + 1] # Null
    BY DEF Inv, TypeOK, Write, NoNullBuffer
<1>2. file' \in Seq(Nat)
    BY <1>1 DEF Inv, TypeOK, Write, Buffer, BufferPtr
<1>3. TypeOK'
    BY <1>1, <1>2 DEF Inv, TypeOK, Write, front, control
<1> QED
    BY <1>3 DEF Inv, Write, NoNullBuffer, Exchange, LatchInv, front, control

\* After the round the flush thread has both temporary buffers again.
LEMMA ReuseInv == ASSUME Inv, Reuse PROVE Inv'
<1>1. <<>> \in Seq(BufferPtr) /\ <<>> \in BufferPtr /\ <<>> # Null /\ Len(<<>>) = 0
    BY EmptyBuffer DEF Buffer, BufferPtr
<1>2. /\ tmp_buffer1' \in BufferPtr /\ tmp_buffer2' \in BufferPtr
      /\ tmp_buffer1' # Null /\ tmp_buffer2' # Null
      /\ buffers_to_write' \in Seq(BufferPtr) /\ Len(buffers_to_write') = 0
    BY <1>1 DEF Inv, TypeOK, Reuse
<1>3. TypeOK'
    BY <1>2 DEF Inv, TypeOK, Reuse, front, control
<1>4. NoNullBuffer'
    BY <1>2 DEF Inv, Reuse, NoNullBuffer, front
<1>5. Exchange' /\ LatchInv'
    BY <1>2 DEF Inv, Reuse, Exchange, LatchInv, front, control
<1> QED
    BY <1>3, <1>4, <1>5 DEF Inv

\* The steps of Start, Stop, a FATAL message and the waiting leave the buffers
\* alone.
LEMMA ControlInv ==
    ASSUME Inv,
           \/ Start \/ StartReturns \/ StopFlush \/ StopStore \/ StopJoined
           \/ FatalFlush \/ FatalAbort \/ CountDown \/ CheckStop \/ WaitFor \/ Timeout
    PROVE  Inv'
<1>1. /\ UNCHANGED <<front, back>>
      /\ pc' = "write" <=> pc = "write"
    BY DEF Start, StartReturns, StopFlush, StopStore, StopJoined, FatalFlush, FatalAbort,
           CountDown, CheckStop, WaitFor, Timeout, Flush, Inv, LatchInv
<1>2. NoNullBuffer' /\ Exchange'
    BY <1>1 DEF Inv, NoNullBuffer, Exchange, front, back
<1>3. CASE Start \/ StartReturns \/ StopStore \/ StopJoined
    BY <1>1, <1>2, <1>3 DEF Inv, TypeOK, LatchInv, Start, StartReturns, StopStore,
       StopJoined, front, back
<1>4. CASE StopFlush
    BY <1>1, <1>2, <1>4 DEF Inv, TypeOK, LatchInv, StopFlush, Flush, front, back
<1>5. CASE FatalFlush \/ FatalAbort
    BY <1>1, <1>2, <1>5 DEF Inv, TypeOK, LatchInv, FatalFlush, FatalAbort, Flush, front, back
<1>6. CASE CountDown \/ CheckStop \/ WaitFor \/ Timeout
    BY <1>1, <1>2, <1>6 DEF Inv, TypeOK, LatchInv, CountDown, CheckStop, WaitFor, Timeout,
       front, back, control
<1> QED
    BY <1>3, <1>4, <1>5, <1>6

\* Every step keeps the invariant.
LEMMA AppenderStep == Inv /\ [Next]_vars => Inv'
<1> SUFFICES ASSUME Inv, [Next]_vars PROVE Inv'
    OBVIOUS
<1>1. CASE Log \/ FatalAppend
    <2>1. AppendMessage /\ UNCHANGED back
        BY <1>1 DEF Log, FatalAppend
    <2>2. /\ cur_buffer' \in Buffer /\ next_buffer' \in BufferPtr
          /\ fulled_buffers' \in Seq(BufferPtr) /\ appended' \in Nat
          /\ pc' \in {pc, IF pc = "waiting" THEN "woken" ELSE pc}
          /\ NoNullBuffer' /\ Exchange'
        BY <2>1, AppendInv
    <2>3. TypeOK'
        BY <1>1, <2>1, <2>2 DEF Inv, TypeOK, Log, FatalAppend, back, control, BufferPtr
    <2>4. LatchInv'
        BY <1>1, <2>2 DEF Inv, LatchInv, Log, FatalAppend, control
    <2> QED
        BY <2>2, <2>3, <2>4 DEF Inv
<1>2. CASE UNCHANGED vars
    <2>1. UNCHANGED <<front, back, pc, control>>
        BY <1>2 DEF vars
    <2>2. TypeOK' /\ Exchange' /\ LatchInv'
        BY <2>1 DEF Inv, TypeOK, Exchange, LatchInv, front, back, control
    <2>3. NoNullBuffer'
        BY <2>1 DEF Inv, NoNullBuffer, front, back
    <2> QED
        BY <2>2, <2>3 DEF Inv
<1> QED
    BY <1>1, <1>2, CollectInv, WriteInv, ReuseInv, ControlInv
       DEF Next, Fatal, Stop, FlushThread

\* The inductive invariant of the appender.
THEOREM AppenderInvariant == Spec => []Inv
BY AppenderInit, AppenderStep, PTL DEF Spec

\* No null buffer is dereferenced and no vector indexed past its end, whatever the
\* interleaving of Append, FlushThread, Start, Stop and a FATAL message.
THEOREM BuffersAlwaysExist == Spec => []NoNullBuffer
<1>1. Inv => NoNullBuffer
    BY DEF Inv
<1> QED
    BY <1>1, AppenderInvariant, PTL

\* The variables keep their types; in particular the latch never goes below zero,
\* where CountDownLatch::Wait would block for ever.
THEOREM AppenderTypeCorrect == Spec => []TypeOK
<1>1. Inv => TypeOK
    BY DEF Inv
<1> QED
    BY <1>1, AppenderInvariant, PTL

-----------------------------------------------------------------------------
(* The contents of the buffers.                                            *)

\* A buffer that is given away or taken back is empty, and none is overfull.
SpareInv ==
    /\ next_buffer \in {<<>>, Null} /\ tmp_buffer1 \in {<<>>, Null} /\ tmp_buffer2 \in {<<>>, Null}
    /\ Len(cur_buffer) <= BufferSize

\* A flush thread that Stop found behind its test of stop has yet to collect, or
\* has collected what was appended before.
StopMarkInv ==
    /\ stopMark <= appended
    /\ pc \in {"lock", "waiting", "woken"} \/ stopMark <= Collected
    /\ stopper = "joined" => pc = "exited"

\* The same for one that has heard the Flush of a FATAL message.
FatalMarkInv ==
    /\ fatalMark <= appended
    /\ pc = "woken" \/ fatalMark <= Collected
    /\ FastDisk /\ ~Alive => pc \in {"waiting", "exited"}

LogInv == LogConserved /\ SpareInv /\ StopMarkInv /\ FatalMarkInv

\* One more full buffer.
LEMMA InFullStep ==
    /\ InFull(0) = 0
    /\ \A n \in Nat : InFull(n) \in Nat /\ InFull(n + 1) = InFull(n) + BufferSize
BY SizeAssumption DEF InFull

\* A sequence of buffers that exist.
Buffers(s) == s \in Seq(BufferPtr) /\ \A i \in 1..Len(s) : s[i] \in Seq(Nat)

\* The buffers that exist are sequences of messages, and the numbers are numbers.
LEMMA BufferTypes ==
    ASSUME Inv
    PROVE  /\ cur_buffer \in Seq(Nat) /\ file \in Seq(Nat)
           /\ Buffers(fulled_buffers) /\ Buffers(buffers_to_write)
           /\ written \in 0..Len(buffers_to_write) /\ appended \in Nat
           /\ Collected \in Nat /\ Len(file) <= Collected
<1>1. cur_buffer \in Seq(Nat) /\ file \in Seq(Nat) /\ written \in 0..Len(buffers_to_write)
  BY DEF Inv, TypeOK, NoNullBuffer, BufferPtr, Buffer
<1>2. Buffers(fulled_buffers) /\ Buffers(buffers_to_write)
  BY DEF Inv, TypeOK, NoNullBuffer, BufferPtr, Buffer, Buffers
<1>3. Collected \in Nat /\ Len(file) <= Collected
  <2>1. CASE written = Len(buffers_to_write)
    BY <1>1, <2>1 DEF Collected
  <2>2. CASE written # Len(buffers_to_write)
    <3>1. /\ Len(buffers_to_write) - written - 1 \in Nat
          /\ buffers_to_write[Len(buffers_to_write)] \in Seq(Nat)
      BY <1>1, <1>2, <2>2 DEF Buffers
    <3>2. InFull(Len(buffers_to_write) - written - 1) \in Nat
      BY <3>1, InFullStep
    <3> QED BY <1>1, <2>2, <3>1, <3>2 DEF Collected
  <2> QED BY <2>1, <2>2
<1> QED BY <1>1, <1>2, <1>3 DEF Inv, TypeOK

\* Nothing was appended.
LEMMA LogInit == Init => LogInv
<1> SUFFICES ASSUME Init PROVE LogInv
  OBVIOUS
<1>1. Len(<<>>) = 0 /\ \A n : Follows(<<>>, n)
  BY DEF Follows
<1>2. Collected = 0
  BY <1>1 DEF Init, Collected
<1>3. LogConserved
  <2>1. 1..0 = {}
    OBVIOUS
  <2>2. appended = Collected + InFull(Len(fulled_buffers)) + Len(cur_buffer)
    BY <1>1, <1>2, InFullStep DEF Init
  <2> QED BY <1>1, <2>1, <2>2 DEF Init, LogConserved
<1>4. SpareInv
  BY <1>1, SizeAssumption DEF Init, SpareInv
<1>5. StopMarkInv /\ FatalMarkInv
  BY <1>2 DEF Init, StopMarkInv, FatalMarkInv, Alive
<1> QED BY <1>3, <1>4, <1>5 DEF LogInv

\* Append puts the message behind the last one, in this buffer or in the next.
LEMMA AppendLog ==
    ASSUME Inv, LogInv, AppendMessage, UNCHANGED back
    PROVE  LogConserved' /\ SpareInv' /\ Collected' = Collected /\ appended' = appended + 1
<1> USE DEF LogInv
<1>1. Collected' = Collected /\ appended' = appended + 1
  BY DEF Collected, back, AppendMessage
<1>2. /\ cur_buffer \in Seq(Nat) /\ Buffers(fulled_buffers)
      /\ appended \in Nat /\ Collected \in Nat /\ Len(fulled_buffers) \in Nat
  BY BufferTypes
<1>3. /\ InFull(Len(fulled_buffers)) \in Nat
      /\ InFull(Len(fulled_buffers) + 1) = InFull(Len(fulled_buffers)) + BufferSize
  BY <1>2, InFullStep
<1>4. CASE Fits(cur_buffer)
  <2>1. cur_buffer' = Append(cur_buffer, appended + 1) /\ UNCHANGED <<next_buffer, fulled_buffers>>
    BY <1>4 DEF AppendMessage, BufferAppend
  <2>2. Len(cur_buffer') = Len(cur_buffer) + 1 /\ Len(cur_buffer') <= BufferSize
    BY <1>2, <1>4, <2>1, SizeAssumption DEF Fits
  <2>3. Follows(cur_buffer', Collected + InFull(Len(fulled_buffers)))
    BY <1>2, <1>3, <2>1, <2>2 DEF LogConserved, Follows
  <2>4. LogConserved'
    BY <1>1, <1>2, <1>3, <2>1, <2>2, <2>3 DEF LogConserved, back
  <2> QED BY <1>1, <2>1, <2>2, <2>4 DEF SpareInv, back
<1>5. CASE ~Fits(cur_buffer)
  <2>1. /\ fulled_buffers' = Append(fulled_buffers, cur_buffer) /\ next_buffer' = Null
        /\ cur_buffer' = Append(<<>>, appended + 1)
    <3>1. (IF next_buffer = Null THEN <<>> ELSE next_buffer) = <<>>
      BY DEF SpareInv
    <3>2. Fits(<<>>)
      BY EmptyBuffer, SizeAssumption DEF Fits
    <3> QED BY <1>5, <3>1, <3>2 DEF AppendMessage, BufferAppend
  <2>2. Len(cur_buffer) = BufferSize
    BY <1>2, <1>5, SizeAssumption DEF Fits, SpareInv
  <2>3. Len(cur_buffer') = 1 /\ cur_buffer'[1] = appended + 1 /\ Len(cur_buffer') <= BufferSize
    BY <1>2, <2>1, SizeAssumption
  <2>4. /\ Len(fulled_buffers') = Len(fulled_buffers) + 1
        /\ \A i \in 1..Len(fulled_buffers) : fulled_buffers'[i] = fulled_buffers[i]
        /\ fulled_buffers'[Len(fulled_buffers) + 1] = cur_buffer
    BY <1>2, <2>1
  <2>5. \A i \in 1..Len(fulled_buffers') :
            /\ Follows(fulled_buffers'[i], Collected + InFull(i - 1))
            /\ Len(fulled_buffers'[i]) = BufferSize
    <3> SUFFICES ASSUME NEW i \in 1..Len(fulled_buffers) + 1
                 PROVE  /\ Follows(fulled_buffers'[i], Collected + InFull(i - 1))
                        /\ Len(fulled_buffers'[i]) = BufferSize
      BY <2>4
    <3>1. CASE i \in 1..Len(fulled_buffers)
      BY <2>4, <3>1 DEF LogConserved
    <3>2. CASE i = Len(fulled_buffers) + 1
      <4>1. i - 1 = Len(fulled_buffers)
        BY <1>2, <3>2
      <4> QED BY <2>2, <2>4, <3>2, <4>1 DEF LogConserved
    <3> QED BY <1>2, <3>1, <3>2
  <2>6. appended' = Collected + InFull(Len(fulled_buffers')) + Len(cur_buffer')
    BY <1>1, <1>2, <1>3, <2>2, <2>3, <2>4, SizeAssumption DEF LogConserved
  <2>7. Follows(cur_buffer', Collected + InFull(Len(fulled_buffers')))
    BY <1>1, <1>2, <1>3, <2>3, <2>4, <2>6, SizeAssumption DEF Follows
  <2>8. LogConserved'
    BY <1>1, <2>5, <2>6, <2>7 DEF LogConserved, back
  <2> QED BY <1>1, <2>1, <2>3, <2>8 DEF SpareInv, back
<1> QED BY <1>4, <1>5

\* Collect takes everything that was appended, and leaves an empty cur_buffer.
LEMMA CollectLog ==
    ASSUME Inv, LogInv, Collect
    PROVE  LogConserved' /\ SpareInv' /\ Collected' = appended
<1> USE DEF LogInv
<1>1. /\ cur_buffer \in Seq(Nat) /\ Buffers(fulled_buffers) /\ file \in Seq(Nat)
      /\ appended \in Nat /\ Len(fulled_buffers) \in Nat /\ Len(file) \in Nat
  BY BufferTypes
<1>2. /\ written = 0 /\ buffers_to_write = <<>> /\ tmp_buffer1 = <<>> /\ tmp_buffer2 = <<>>
  BY DEF Inv, Collect, Exchange, SpareInv
<1>3. Collected = Len(file)
  BY <1>2 DEF Collected
<1>4. /\ buffers_to_write' = Append(fulled_buffers, cur_buffer) /\ fulled_buffers' = <<>>
      /\ cur_buffer' = <<>> /\ written' = 0 /\ file' = file /\ appended' = appended
      /\ Len(<<>>) = 0
  BY <1>2 DEF Collect
<1>5. /\ Len(buffers_to_write') = Len(fulled_buffers) + 1
      /\ \A i \in 1..Len(fulled_buffers) : buffers_to_write'[i] = fulled_buffers[i]
      /\ buffers_to_write'[Len(fulled_buffers) + 1] = cur_buffer
  BY <1>1, <1>4
<1>6. InFull(Len(fulled_buffers)) \in Nat /\ InFull(0) = 0
  BY <1>1, InFullStep
<1>7. Collected' = appended
  <2>1. written' # Len(buffers_to_write') /\ Len(buffers_to_write') - written' - 1 = Len(fulled_buffers)
    BY <1>1, <1>4, <1>5
  <2>2. Collected' = Len(file) + (InFull(Len(fulled_buffers)) + Len(cur_buffer))
    BY <1>4, <1>5, <2>1 DEF Collected
  <2> QED BY <1>1, <1>3, <1>6, <2>2 DEF LogConserved
<1>8. \A i \in written' + 1..Len(buffers_to_write') :
          /\ Follows(buffers_to_write'[i], Len(file') + InFull(i - written' - 1))
          /\ i < Len(buffers_to_write') => Len(buffers_to_write'[i]) = BufferSize
  <2> SUFFICES ASSUME NEW i \in 1..Len(fulled_buffers) + 1
               PROVE  /\ Follows(buffers_to_write'[i], Len(file) + InFull(i - 1))
                      /\ i < Len(fulled_buffers) + 1 => Len(buffers_to_write'[i]) = BufferSize
    BY <1>1, <1>4, <1>5
  <2>1. CASE i \in 1..Len(fulled_buffers)
    BY <1>3, <1>5, <2>1 DEF LogConserved
  <2>2. CASE i = Len(fulled_buffers) + 1
    BY <1>1, <1>3, <1>5, <2>2 DEF LogConserved
  <2> QED BY <1>1, <2>1, <2>2
<1>9. \A n : Follows(<<>>, n)
  BY DEF Follows
<1>10. LogConserved'
  BY <1>1, <1>4, <1>6, <1>7, <1>8, <1>9 DEF LogConserved
<1>11. SpareInv'
  BY <1>2, <1>4, SizeAssumption DEF Collect, SpareInv
<1> QED BY <1>7, <1>10, <1>11

\* Writing the next buffer moves the end of the file to where the one after it
\* starts.
LEMMA WriteLog ==
    ASSUME Inv, LogInv, Write
    PROVE  LogConserved' /\ SpareInv' /\ Collected' = Collected
<1> USE DEF LogInv
<1> DEFINE next == buffers_to_write[written + 1]
           last == Len(buffers_to_write)
<1>1. /\ file \in Seq(Nat) /\ Buffers(buffers_to_write) /\ last \in Nat
      /\ written \in Nat /\ written < last /\ Len(file) \in Nat
  BY BufferTypes DEF Write
<1>2. next \in Seq(Nat) /\ Len(next) \in Nat
  BY <1>1 DEF Buffers
<1>3. /\ file' = file \o next /\ written' = written + 1 /\ buffers_to_write' = buffers_to_write
      /\ UNCHANGED <<front, tmp_buffer1, tmp_buffer2>>
  BY DEF Write
<1>4. /\ Len(file') = Len(file) + Len(next)
      /\ \A j \in 1..Len(file) : file'[j] = file[j]
      /\ \A j \in 1..Len(next) : file'[Len(file) + j] = next[j]
  BY <1>1, <1>2, <1>3
<1>5. Follows(next, Len(file)) /\ (written + 1 < last => Len(next) = BufferSize)
  <2> DEFINE k == written + 1
  <2>1. k \in written + 1..last /\ k - written - 1 = 0
    BY <1>1
  <2>2. \A i \in written + 1..last :
            /\ Follows(buffers_to_write[i], Len(file) + InFull(i - written - 1))
            /\ i < last => Len(buffers_to_write[i]) = BufferSize
    BY DEF LogConserved
  <2> HIDE DEF k
  <2>3. /\ Follows(buffers_to_write[k], Len(file) + InFull(k - written - 1))
        /\ k < last => Len(buffers_to_write[k]) = BufferSize
    BY <2>1, <2>2, Zenon
  <2>4. InFull(k - written - 1) = 0 /\ Len(file) + 0 = Len(file)
    <3>1. Len(file) + 0 = Len(file)
      BY <1>1
    <3> QED BY <2>1, <3>1, InFullStep, Zenon
  <2> QED BY <2>3, <2>4 DEF k
<1> HIDE DEF next
<1>6. Follows(file', 0)
  <2> SUFFICES ASSUME NEW j \in 1..Len(file') PROVE file'[j] = j
    BY DEF Follows
  <2>1. CASE j \in 1..Len(file)
    <3>1. Follows(file, 0)
      BY DEF LogConserved
    <3> QED BY <1>1, <1>4, <2>1, <3>1 DEF Follows
  <2>2. CASE j \notin 1..Len(file)
    <3>1. j - Len(file) \in 1..Len(next) /\ j = Len(file) + (j - Len(file))
      BY <1>1, <1>2, <1>4, <2>2
    <3>2. file'[j] = next[j - Len(file)] /\ next[j - Len(file)] = Len(file) + (j - Len(file))
      BY <1>4, <1>5, <3>1 DEF Follows
    <3> QED BY <3>1, <3>2
  <2> QED BY <2>1, <2>2
<1>7. Collected' = Collected
  <2>1. CASE written + 1 = last
    <3>1. Collected' = Len(file')
      BY <1>1, <1>3, <2>1 DEF Collected
    <3>2. Collected = Len(file) + (InFull(0) + Len(next))
      <4>1. written # last /\ last - written - 1 = 0 /\ buffers_to_write[last] = next
        BY <1>1, <2>1 DEF next
      <4> QED BY <4>1 DEF Collected
    <3> QED BY <1>1, <1>2, <1>4, <3>1, <3>2, InFullStep
  <2>2. CASE written + 1 # last
    <3>1. /\ written # last /\ written' # last /\ last - written' - 1 \in Nat
          /\ last - written - 1 = (last - written' - 1) + 1
          /\ Len(buffers_to_write[last]) \in Nat
      BY <1>1, <1>3, <2>2 DEF Buffers
    <3>2. InFull(last - written - 1) = InFull(last - written' - 1) + BufferSize
      BY <3>1, InFullStep
    <3>3. Len(next) = BufferSize /\ InFull(last - written' - 1) \in Nat
      <4>1. written + 1 < last
        BY <1>1, <2>2
      <4> QED BY <1>5, <3>1, <4>1, InFullStep
    <3>4. /\ Collected = Len(file) + (InFull(last - written - 1) + Len(buffers_to_write[last]))
          /\ Collected' = Len(file') + (InFull(last - written' - 1) + Len(buffers_to_write[last]))
      BY <1>3, <3>1 DEF Collected
    <3> DEFINE taken == InFull(last - written - 1)
               left == InFull(last - written' - 1)
               rest == Len(buffers_to_write[last])
    <3>5. /\ taken = left + BufferSize /\ left \in Nat /\ rest \in Nat
          /\ Collected = Len(file) + (taken + rest) /\ Collected' = Len(file') + (left + rest)
      BY <3>1, <3>2, <3>3, <3>4
    <3> HIDE DEF taken, left, rest
    <3>6. Len(file') = Len(file) + BufferSize /\ Len(file) \in Nat
      BY <1>1, <1>4, <3>3
    <3>7. Collected = Len(file) + ((left + BufferSize) + rest)
      BY <3>5
    <3>8. Collected' = (Len(file) + BufferSize) + (left + rest)
      BY <3>5, <3>6
    <3> QED BY <3>5, <3>6, <3>7, <3>8, SizeAssumption
  <2> QED BY <2>1, <2>2
<1>8. \A i \in written' + 1..last :
          /\ Follows(buffers_to_write[i], Len(file') + InFull(i - written' - 1))
          /\ i < last => Len(buffers_to_write[i]) = BufferSize
  <2> SUFFICES ASSUME NEW i \in written' + 1..last
               PROVE  /\ Follows(buffers_to_write[i], Len(file') + InFull(i - written' - 1))
                      /\ i < last => Len(buffers_to_write[i]) = BufferSize
    OBVIOUS
  <2>1. /\ i \in written + 1..last /\ Len(next) = BufferSize
        /\ i - written' - 1 \in Nat /\ i - written - 1 = (i - written' - 1) + 1
    BY <1>1, <1>3, <1>5
  <2>2. /\ InFull(i - written - 1) = InFull(i - written' - 1) + BufferSize
        /\ InFull(i - written' - 1) \in Nat
    BY <2>1, InFullStep
  <2>3. Len(file') + InFull(i - written' - 1) = Len(file) + InFull(i - written - 1)
    BY <1>1, <1>4, <2>1, <2>2, SizeAssumption
  <2> QED BY <2>1, <2>3 DEF LogConserved
<1>9. LogConserved'
  BY <1>3, <1>6, <1>7, <1>8 DEF LogConserved, front
<1>10. SpareInv'
  BY <1>3 DEF SpareInv, front
<1> QED BY <1>7, <1>9, <1>10

\* The round is over: everything that was taken is in the file.
LEMMA ReuseLog ==
    ASSUME Inv, LogInv, Reuse
    PROVE  /\ LogConserved' /\ SpareInv' /\ Collected' = Collected
<1> USE DEF LogInv
<1>1. Collected = Len(file)
  BY DEF Reuse, Collected
<1>2. Collected' = Len(file) /\ Len(<<>>) = 0
  BY BufferTypes DEF Reuse, Collected
<1>3. LogConserved'
  BY <1>1, <1>2 DEF Reuse, LogConserved, front
<1>4. SpareInv'
  BY DEF Reuse, SpareInv, front
<1> QED BY <1>1, <1>2, <1>3, <1>4

\* The other steps leave the buffers alone.
LEMMA ControlLog ==
    ASSUME LogInv, UNCHANGED <<front, back>>
    PROVE  LogConserved' /\ SpareInv' /\ Collected' = Collected
<1>1. Collected' = Collected
  BY DEF Collected, back
<1> QED BY <1>1 DEF LogInv, LogConserved, SpareInv, front, back

\* What an Append does to the marks: nothing, and the flush thread hears it.
LEMMA AppendMarks ==
    ASSUME Inv, LogInv, Log \/ FatalAppend, Collected' = Collected, appended' = appended + 1
    PROVE  StopMarkInv' /\ FatalMarkInv'
<1>1. /\ Alive /\ Alive' /\ UNCHANGED <<stopMark, fatalMark, stopper>>
      /\ pc' = pc \/ (pc = "waiting" /\ pc' = "woken")
  BY DEF Log, FatalAppend, AppendMessage, Flush, control, Alive
<1>2. stopMark \in Nat /\ fatalMark \in Nat /\ appended \in Nat /\ Collected \in Nat
  BY BufferTypes DEF Inv, TypeOK
<1> QED BY <1>1, <1>2 DEF LogInv, StopMarkInv, FatalMarkInv

\* A flush thread that was to collect does, up to the last message; otherwise what
\* it has collected stays collected.
LEMMA FlushThreadMarks ==
    ASSUME Inv, LogInv, FlushThread,
           Collect => Collected' = appended, ~Collect => Collected' = Collected
    PROVE  StopMarkInv' /\ FatalMarkInv'
<1>1. /\ Alive /\ Alive' /\ UNCHANGED <<appended, stopMark, fatalMark, stopper>>
  BY DEF FlushThread, CountDown, CheckStop, WaitFor, Timeout, Collect, Write, Reuse,
         front, control, Alive
<1>2. stopMark \in Nat /\ fatalMark \in Nat /\ appended \in Nat /\ Collected \in Nat
  BY BufferTypes DEF Inv, TypeOK
<1>3. CASE Collect
  BY <1>1, <1>2, <1>3 DEF Collect, LogInv, StopMarkInv, FatalMarkInv
<1>4. CASE ~Collect
  <2>1. /\ pc \in {"lock", "waiting", "woken"} => pc' \in {"lock", "waiting", "woken"}
        /\ pc # "woken" /\ pc # "exited"
    BY <1>4 DEF FlushThread, CountDown, CheckStop, WaitFor, Timeout, Write, Reuse,
                Collect, Alive
  <2> QED BY <1>1, <1>2, <1>4, <2>1 DEF LogInv, StopMarkInv, FatalMarkInv
<1> QED BY <1>3, <1>4

\* Start, Stop and the end of a FATAL message set the marks as the invariant says.
LEMMA ControlMarks ==
    ASSUME Inv, LogInv, Collected' = Collected,
           Start \/ StartReturns \/ Stop \/ FatalFlush \/ FatalAbort
    PROVE  StopMarkInv' /\ FatalMarkInv'
<1>1. /\ stopMark \in Nat /\ fatalMark \in Nat /\ appended \in Nat /\ Collected \in Nat
      /\ appended' = appended
  BY BufferTypes DEF Inv, TypeOK, Start, StartReturns, Stop, StopFlush, StopStore,
                     StopJoined, FatalFlush, FatalAbort, front
<1> USE DEF LogInv, StopMarkInv, FatalMarkInv, Alive
<1>2. CASE Start \/ StartReturns
  BY <1>1, <1>2 DEF Start, StartReturns, Inv, LatchInv
<1>3. CASE StopFlush
  BY <1>1, <1>3 DEF StopFlush, Flush
<1>4. CASE StopStore \/ StopJoined
  BY <1>1, <1>4 DEF StopStore, StopJoined
<1>5. CASE FatalFlush
  BY <1>1, <1>5 DEF FatalFlush, Flush
<1>6. CASE FatalAbort
  BY <1>1, <1>6, DiskAssumption DEF FatalAbort
<1> QED BY <1>2, <1>3, <1>4, <1>5, <1>6 DEF Stop

\* Every step keeps the log.
LEMMA LogStep == Inv /\ LogInv /\ [Next]_vars => LogInv'
<1> SUFFICES ASSUME Inv, LogInv, [Next]_vars PROVE LogInv'
  OBVIOUS
<1>1. CASE Log \/ FatalAppend
  <2>1. AppendMessage /\ UNCHANGED back
    BY <1>1 DEF Log, FatalAppend
  <2>2. LogConserved' /\ SpareInv' /\ Collected' = Collected /\ appended' = appended + 1
    BY <2>1, AppendLog
  <2> QED BY <1>1, <2>2, AppendMarks DEF LogInv
<1>2. CASE FlushThread
  <2>1. CASE Collect
    BY <1>2, <2>1, CollectLog, FlushThreadMarks DEF LogInv
  <2>2. CASE ~Collect
    <3>1. Write \/ Reuse \/ UNCHANGED <<front, back>>
      BY <1>2, <2>2 DEF FlushThread, CountDown, CheckStop, WaitFor, Timeout
    <3>2. LogConserved' /\ SpareInv' /\ Collected' = Collected
      BY <3>1, WriteLog, ReuseLog, ControlLog
    <3> QED BY <1>2, <2>2, <3>2, FlushThreadMarks DEF LogInv
  <2> QED BY <2>1, <2>2
<1>3. CASE Start \/ StartReturns \/ Stop \/ FatalFlush \/ FatalAbort
  <2>1. UNCHANGED <<front, back>>
    BY <1>3 DEF Start, StartReturns, Stop, StopFlush, StopStore, StopJoined, FatalFlush,
                FatalAbort
  <2> QED BY <1>3, <2>1, ControlLog, ControlMarks DEF LogInv
<1>4. CASE UNCHANGED vars
  <2>1. UNCHANGED <<front, back, pc, control>>
    BY <1>4 DEF vars
  <2>2. LogConserved' /\ SpareInv' /\ Collected' = Collected
    BY <2>1, ControlLog
  <2> QED BY <2>1, <2>2 DEF LogInv, StopMarkInv, FatalMarkInv, Alive, front, control
<1> QED BY <1>1, <1>2, <1>3, <1>4 DEF Next, Fatal

\* Where every message is, and what Stop and a FATAL message may rely on.
LEMMA LogInvariant == Spec => []LogInv
BY LogInit, LogStep, AppenderInvariant, PTL DEF Spec

\* Double buffering loses, duplicates and reorders no message, for every size of
\* the buffers and any number of messages and rounds of the flush thread.
THEOREM NothingLost == Spec => []LogConserved
<1>1. LogInv => LogConserved
  BY DEF LogInv
<1> QED BY <1>1, LogInvariant, PTL

\* When the flush thread is not writing, all it has collected is in the file.
LEMMA CollectedIsWritten ==
    ASSUME Inv, pc # "write"
    PROVE  Collected = Len(file)
<1>1. written = Len(buffers_to_write) /\ Len(file) \in Nat
  BY EmptyBuffer, BufferTypes DEF Inv, Exchange
<1> QED BY <1>1 DEF Collected

\* Stop that finds the flush thread between its test of stop and its collecting
\* returns with every message in the file that was appended before it.
THEOREM StopFlushes == Spec => []StopFlushesLog
<1>1. Inv /\ LogInv => StopFlushesLog
  BY CollectedIsWritten DEF LogInv, StopMarkInv, StopFlushesLog, Inv, TypeOK
<1> QED BY <1>1, AppenderInvariant, LogInvariant, PTL

\* A FATAL message whose Flush the flush thread hears is in the file when the
\* process aborts, if the disk is fast enough.
THEOREM FatalFlushes == Spec => []FatalIsOnDisk
<1>1. Inv /\ LogInv => FatalIsOnDisk
  BY CollectedIsWritten DEF LogInv, FatalMarkInv, FatalIsOnDisk, Inv, TypeOK
<1> QED BY <1>1, AppenderInvariant, LogInvariant, PTL

=============================================================================
