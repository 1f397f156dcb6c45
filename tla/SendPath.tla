------------------------------ MODULE SendPath ------------------------------
(***************************************************************************)
(* TcpConn::Send called from threads of the ThreadPool while the IO thread *)
(* writes from the same send_buffer (src/src/net: TcpConn, BaseBuffer,     *)
(* Channel, Poller).                                                       *)
(*                                                                         *)
(* Only TcpConn::state is atomic.  The functions are cut at every access   *)
(* to state, to the indexes of send_buffer, to Channel::events and to the  *)
(* epoll set; a value that is loaded and stored again is kept in a         *)
(* register of the thread in between, as the compiled code does.  IOWorker *)
(* models the same functions as atomic handlers of one thread.             *)
(***************************************************************************)
EXTENDS Naturals, FiniteSets

CONSTANTS
    Pool,   \* threads of a ThreadPool, each runs one task that calls Send
    Io      \* the IO thread, which may call Send in OnTcpReceivedData

Threads == Pool \union {Io}

VARIABLES
    state,       \* TcpConn::state
    events,      \* Channel::events
    registered,  \* the fd is in the epoll set ...
    polled,      \* ... with this interest
    cells,       \* send_buffer's storage; each datum is the thread that sent it
    read_idx,
    write_idx,
    asked,       \* the peer's request is in the kernel's receive queue
    gone,        \* the peer has reset the connection
    written,     \* the data that write(2) has taken
    given,       \* the threads whose call of Send has returned
    pc,          \* where each thread is
    idx,         \* an index, or a number of bytes, in a register
    ev           \* Channel::events in a register

buffer == <<cells, read_idx, write_idx>>
channel == <<events, registered, polled>>
vars == <<state, channel, buffer, asked, gone, written, given, pc, idx, ev>>

None == "none"
Cells == 0..Cardinality(Threads)

Init ==
    /\ state = "kConnected"
    /\ events = {"R"} /\ polled = {"R"} /\ registered = TRUE
    /\ cells = [i \in Cells |-> None] /\ read_idx = 0 /\ write_idx = 0
    /\ asked = FALSE /\ gone = FALSE
    /\ written = {} /\ given = {}
    /\ pc = [t \in Threads |-> IF t = Io THEN "poll" ELSE "send"]
    /\ idx = [t \in Threads |-> 0]
    /\ ev = [t \in Threads |-> {}]

Goto(t, from, to) == pc[t] = from /\ pc' = [pc EXCEPT ![t] = to]

\* Where a thread goes when Send, or the handler it is in, returns.
Home(t) == IF t = Io THEN "poll" ELSE "done"

ReadableBytes == IF write_idx > read_idx THEN write_idx - read_idx ELSE 0

-----------------------------------------------------------------------------
(* The peer: one request, and perhaps a reset.                             *)

PeerAsks ==
    /\ ~asked /\ Io \notin given /\ pc[Io] = "poll"
    /\ asked' = TRUE
    /\ UNCHANGED <<state, channel, buffer, gone, written, given, pc, idx, ev>>

PeerResets ==
    /\ ~gone
    /\ gone' = TRUE
    /\ UNCHANGED <<state, channel, buffer, asked, written, given, pc, idx, ev>>

-----------------------------------------------------------------------------
(* TcpConn::Send.                                                          *)

SendTest(t) ==
    /\ Goto(t, "send", IF state = "kConnected" THEN "copy" ELSE Home(t))
    /\ given' = IF state = "kConnected" THEN given ELSE given \union {t}
    /\ UNCHANGED <<state, channel, buffer, asked, gone, written, idx, ev>>

\* Append: the data is copied to where write_idx points ...
Copy(t) ==
    /\ Goto(t, "copy", "advance")
    /\ idx' = [idx EXCEPT ![t] = write_idx]
    /\ cells' = [cells EXCEPT ![write_idx] = t]
    /\ UNCHANGED <<state, channel, read_idx, write_idx, asked, gone, written, given, ev>>

\* ... and write_idx is moved behind it.
Advance(t) ==
    /\ Goto(t, "advance", "activate")
    /\ write_idx' = idx[t] + 1
    /\ UNCHANGED <<state, channel, cells, read_idx, asked, gone, written, given, idx, ev>>

\* ActivateWriting does nothing when writing is active.
ActivateTest(t) ==
    /\ Goto(t, "activate", IF "W" \in events THEN Home(t) ELSE "activateStore")
    /\ ev' = [ev EXCEPT ![t] = events \union {"W"}]
    /\ given' = IF "W" \in events THEN given \union {t} ELSE given
    /\ UNCHANGED <<state, channel, buffer, asked, gone, written, idx>>

ActivateStore(t) ==
    /\ Goto(t, "activateStore", "activateUpdate")
    /\ events' = ev[t]
    /\ UNCHANGED <<state, registered, polled, buffer, asked, gone, written, given, idx, ev>>

\* Poller::UpdateChannel; EPOLL_CTL_MOD fails when the fd is not in the epoll set.
UpdateChannel == polled' = IF registered THEN events ELSE polled

ActivateUpdate(t) ==
    /\ Goto(t, "activateUpdate", Home(t))
    /\ UpdateChannel
    /\ given' = given \union {t}
    /\ UNCHANGED <<state, events, registered, buffer, asked, gone, written, idx, ev>>

Send(t) ==
    SendTest(t) \/ Copy(t) \/ Advance(t)
        \/ ActivateTest(t) \/ ActivateStore(t) \/ ActivateUpdate(t)

-----------------------------------------------------------------------------
(* The IO thread.                                                          *)

\* Poll and Channel::HandleEvent: a hang-up first, then input (the callback
\* answers the request with Send), then output.
Poll ==
    /\ registered
    /\ \/ gone /\ Goto(Io, "poll", "close") /\ UNCHANGED asked
       \/ ~gone /\ asked /\ Goto(Io, "poll", "send") /\ asked' = FALSE
       \/ ~gone /\ ~asked /\ "W" \in polled /\ Goto(Io, "poll", "write") /\ UNCHANGED asked
    /\ UNCHANGED <<state, channel, buffer, gone, written, given, idx, ev>>

\* OnChannelWritable: write(2) takes what is readable.  A write of 0 bytes, and
\* one to a peer that is gone, changes nothing here.
Write ==
    /\ Goto(Io, "write", IF state = "kConnected" /\ ~gone THEN "drop" ELSE "poll")
    /\ IF state = "kConnected" /\ ~gone
       THEN /\ written' = written \union {cells[i] : i \in {j \in Cells : read_idx <= j /\ j < write_idx}}
            /\ idx' = [idx EXCEPT ![Io] = ReadableBytes]
       ELSE UNCHANGED <<written, idx>>
    /\ UNCHANGED <<state, channel, buffer, asked, gone, given, ev>>

\* DropBytes(n), called when n > 0: the test and then the stores.
DropTest ==
    /\ Goto(Io, "drop", IF idx[Io] = 0 THEN "left"
                        ELSE IF idx[Io] >= ReadableBytes THEN "dropAll" ELSE "dropSome")
    /\ UNCHANGED <<state, channel, buffer, asked, gone, written, given, idx, ev>>

DropAllBytes ==
    /\ Goto(Io, "dropAll", "left")
    /\ read_idx' = 0 /\ write_idx' = 0
    /\ UNCHANGED <<state, channel, cells, asked, gone, written, given, idx, ev>>

DropSome ==
    /\ Goto(Io, "dropSome", "left")
    /\ read_idx' = read_idx + idx[Io]
    /\ UNCHANGED <<state, channel, cells, write_idx, asked, gone, written, given, idx, ev>>

\* Nothing left: DeactivateWriting.
LeftTest ==
    /\ Goto(Io, "left", IF ReadableBytes = 0 THEN "deactivate" ELSE "poll")
    /\ UNCHANGED <<state, channel, buffer, asked, gone, written, given, idx, ev>>

DeactivateTest ==
    /\ Goto(Io, "deactivate", IF "W" \in events THEN "deactivateStore" ELSE "poll")
    /\ ev' = [ev EXCEPT ![Io] = events \ {"W"}]
    /\ UNCHANGED <<state, channel, buffer, asked, gone, written, given, idx>>

DeactivateStore ==
    /\ Goto(Io, "deactivateStore", "deactivateUpdate")
    /\ events' = ev[Io]
    /\ UNCHANGED <<state, registered, polled, buffer, asked, gone, written, given, idx, ev>>

DeactivateUpdate ==
    /\ Goto(Io, "deactivateUpdate", "poll")
    /\ UpdateChannel
    /\ UNCHANGED <<state, events, registered, buffer, asked, gone, written, given, idx, ev>>

\* OnChannelClose: the state, then the poller and the buffers.
CloseState ==
    /\ Goto(Io, "close", "release")
    /\ state' = "kDisconnected"
    /\ UNCHANGED <<channel, buffer, asked, gone, written, given, idx, ev>>

CloseRelease ==
    /\ Goto(Io, "release", "poll")
    /\ registered' = FALSE /\ polled' = {}
    /\ cells' = [i \in Cells |-> None] /\ read_idx' = 0 /\ write_idx' = 0
    /\ UNCHANGED <<state, events, asked, gone, written, given, idx, ev>>

IoStep ==
    \/ Poll \/ Write \/ DropTest \/ DropAllBytes \/ DropSome \/ LeftTest
    \/ DeactivateTest \/ DeactivateStore \/ DeactivateUpdate
    \/ CloseState \/ CloseRelease \/ Send(Io)

Next == PeerAsks \/ PeerResets \/ IoStep \/ \E p \in Pool : Send(p)

\* Every thread is scheduled; the peer takes what it is sent, and may reset.
Spec ==
    /\ Init /\ [][Next]_vars
    /\ WF_vars(IoStep)
    /\ \A p \in Pool : WF_vars(Send(p))

-----------------------------------------------------------------------------

\* What TcpConn.h says of Send: the data is written to send_buffer and will be
\* sent automatically, unless the connection goes down.
SentAutomatically ==
    \A t \in Threads : t \in given ~> t \in written \/ state # "kConnected"

=============================================================================
