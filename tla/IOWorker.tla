------------------------------ MODULE IOWorker ------------------------------
(***************************************************************************)
(* One IOWorker: the event loop, its Poller (epoll), its Acceptor and the  *)
(* TcpConns it owns (src/src/net: IOWorker, Poller, Channel, Acceptor,     *)
(* TcpConn, and the callbacks TcpServer::Serve binds to every TcpConn).    *)
(*                                                                         *)
(* The loop thread is a sequence of atomic handlers; the peers, the kernel *)
(* and the thread that calls Stop run between any two of them.  A handler  *)
(* runs on the batch epoll_wait returned, so it may meet a connection that *)
(* an earlier handler of the same batch has already closed or destroyed.   *)
(*                                                                         *)
(* A connection is a record; TcpConn's and Channel's member functions are  *)
(* functions on that record.                                               *)
(***************************************************************************)
EXTENDS Naturals, FiniteSets

CONSTANTS
    Conns,       \* the connections peers may open; each is used once
    Limited,     \* a TcpRateLimiter is set
    MaxConns,    \* its max_conns_per_io_worker
    ConnectOps,  \* what the application may do in OnTcpConnected
    DataOps,     \* what it may do in OnTcpReceivedData
    TimerOps,    \* what it may do in a timer task that holds a TcpConnPtr
    MaxBytes     \* bound on each buffer (units of data)

Ops == {"none", "Send", "Shutdown", "ForceClose", "Hold"}

ASSUME MaxConnsAssumption == Limited \in BOOLEAN /\ MaxConns \in Nat
ASSUME MaxBytesAssumption == MaxBytes \in Nat \ {0}
ASSUME OpsAssumption == ConnectOps \union DataOps \union TimerOps \subseteq Ops

VARIABLES
    conn,     \* the connections, kernel and peer side included
    batch,    \* events of the connections still to be handled in this batch
    ready,    \* the worker's own channels still to be handled in this batch
    due,      \* connections whose timer task OnTimeout has still to run
    pc,       \* where the loop thread is
    wakeup,   \* the wakeup eventfd's counter is not 0
    stopper,  \* the thread in IOWorker::Stop
    encrypted \* IsEncrypted(): the worker was given an SslContext

vars == <<conn, batch, ready, due, pc, wakeup, stopper, encrypted>>

Events == {"HUP", "IN", "OUT", "ERR"}

Conn == [phase      : {"none", "backlog", "open", "refused"},
         peer       : {"open", "fin", "rst"},   \* what the peer has sent
         rcv        : 0..MaxBytes,               \* kernel receive queue
         sndbuf     : {"room", "full"},          \* kernel send buffer
         wr         : BOOLEAN,                   \* SHUT_WR done
         registered : BOOLEAN,                   \* fd is in the epoll set ...
         polled     : SUBSET {"R", "W"},         \* ... with this interest
         events     : SUBSET {"R", "W"},         \* Channel::events
         state      : {"kConnected", "kDisconnected", "kShutdown"},
         unsent     : 0..MaxBytes,               \* send_buffer.ReadableBytes()
         owned      : BOOLEAN,                   \* in IOWorker::tcp_conns
         held       : BOOLEAN,                   \* a timer task owns a TcpConnPtr
         downs      : 0..2]                      \* OnDisconnected calls, up to 2

NewConn == [phase |-> "none", peer |-> "open", rcv |-> 0, sndbuf |-> "room",
            wr |-> FALSE, registered |-> FALSE, polled |-> {}, events |-> {},
            state |-> "kConnected", unsent |-> 0, owned |-> FALSE,
            held |-> FALSE, downs |-> 0]

\* The last shared_ptr is gone: ~TcpConn has run and deleted the channel.
Freed(k) == k.phase = "open" /\ ~k.owned /\ ~k.held

-----------------------------------------------------------------------------
(* Channel and Poller.  EPOLL_CTL_MOD fails, and is only logged, when the  *)
(* fd is not in the epoll set.                                             *)

\* Mutant: an fd that is not in the epoll set is added.
UpdateChannelOrAdd(k) == [k EXCEPT !.registered = TRUE, !.polled = k.events]

UpdateChannel(k) == IF k.registered THEN [k EXCEPT !.polled = k.events] ELSE k

AddToPoller(k) == [k EXCEPT !.registered = TRUE, !.polled = {}]

\* Mutant: closing a connection leaves its fd in the epoll set.
RemoveFromPollerSkipped(k) == k

RemoveFromPoller(k) == [k EXCEPT !.registered = FALSE, !.polled = {}]

ActivateReading(k) ==
    IF "R" \in k.events THEN k
    ELSE UpdateChannel([k EXCEPT !.events = @ \union {"R"}])

ActivateWriting(k) ==
    IF "W" \in k.events THEN k
    ELSE UpdateChannel([k EXCEPT !.events = @ \union {"W"}])

DeactivateWriting(k) ==
    IF "W" \in k.events THEN UpdateChannel([k EXCEPT !.events = @ \ {"W"}])
    ELSE k

-----------------------------------------------------------------------------
(* TcpConn.                                                                *)

NotifyDisconnected(k) == [k EXCEPT !.downs = IF @ < 2 THEN @ + 1 ELSE @]

ReleaseBuffers(k) == [k EXCEPT !.unsent = 0]

\* Mutant: a closed connection stays in tcp_conns.
RemoveFromIOWorkerSkipped(k) == k

RemoveFromIOWorker(k) == [k EXCEPT !.owned = FALSE]

\* OnPeerClose and OnError are both bound to OnChannelClose, and ForceClose
\* calls it: state, poller, buffers, callback and tcp_conns, in that order.
OnChannelClose(k) ==
    LET closed == RemoveFromPoller([k EXCEPT !.state = "kDisconnected"])
    IN  RemoveFromIOWorker(NotifyDisconnected(ReleaseBuffers(closed)))

\* Mutant: Send does not look at the state.
SendUnchecked(k) ==
    IF k.unsent = MaxBytes THEN k
    ELSE ActivateWriting([k EXCEPT !.unsent = @ + 1])

Send(k) ==
    IF k.state # "kConnected" \/ k.unsent = MaxBytes THEN k
    ELSE ActivateWriting([k EXCEPT !.unsent = @ + 1])

\* shutdown(fd, SHUT_WR) fails with ENOTCONN once the socket is closed: after
\* a reset, or some time after both sides have sent FIN.
ShutdownCanSucceed(k) == k.peer # "rst"
ShutdownCanFail(k) == k.peer = "rst" \/ (k.peer = "fin" /\ k.wr)

Shutdown(k) ==
    LET q == DeactivateWriting([k EXCEPT !.state = "kShutdown"])
    IN  {r \in {[q EXCEPT !.wr = TRUE]} : ShutdownCanSucceed(k)}
        \union {r \in {OnChannelClose(q)} : ShutdownCanFail(k)}

\* What one application call may turn the connection into.
App(k, op) ==
    CASE op = "Send"       -> {Send(k)}
      [] op = "Shutdown"   -> Shutdown(k)
      [] op = "ForceClose" -> {OnChannelClose(k)}
      [] op = "Hold"       -> {[k EXCEPT !.held = TRUE]}
      [] OTHER             -> {k}

\* The record once n > 0 units have been read from the socket.
Taken(k) == {[k EXCEPT !.rcv = @ - n] : n \in 1..k.rcv}

\* OnChannelReadable: the possible results, the data callback included.
\* SSL_read: 0 on close_notify or EOF, WANT_READ on a partial record.
OnChannelReadable(k) ==
    CASE k.state # "kConnected" -> {k}
      [] k.state = "kConnected" /\ encrypted ->
            (UNION {App(t, op) : t \in Taken(k), op \in DataOps})
            \union Taken(k)
            \union (UNION {Shutdown(t) : t \in Taken(k) \union {k}})
            \union {OnChannelClose(t) : t \in Taken(k) \union {k}}
      [] k.state = "kConnected" /\ ~encrypted ->
            IF k.rcv = 0 THEN {OnChannelClose(k)}
            ELSE UNION {App(t, op) : t \in Taken(k), op \in DataOps}

\* Mutant: one unit too many is dropped.
WriteBytesPlusOne(k, n, room) ==
    [[k EXCEPT !.unsent = @ - n - 1] EXCEPT !.sndbuf = room]

\* n units are written and dropped from send_buffer; room is what is left in the
\* kernel's buffer.
WriteBytes(k, n, room) == [[k EXCEPT !.unsent = @ - n] EXCEPT !.sndbuf = room]

\* Mutant: writing is deactivated after every write.
WrittenDeactivate(k) ==
    {DeactivateWriting(WriteBytes(k, n, room)) : n \in 1..k.unsent, room \in {"room", "full"}}

\* Writing is deactivated when nothing is left to send.
Written(k) ==
    {LET r == WriteBytes(k, n, room)
     IN  IF r.unsent = 0 THEN DeactivateWriting(r) ELSE r :
        n \in 1..k.unsent, room \in {"room", "full"}}

\* OnChannelWritable.  EPIPE or ECONNRESET: the disconnection is reported and
\* the connection left as it is.  SSL_write failed: the connection is closed
\* and the function goes on to look at send_buffer, now empty.
OnChannelWritable(k) ==
    CASE k.state # "kConnected" -> {k}
      [] k.state = "kConnected" /\ encrypted ->
            (IF k.peer = "rst" THEN {} ELSE Written(k))
            \union {DeactivateWriting(OnChannelClose(k))}
      [] k.state = "kConnected" /\ ~encrypted ->
            IF k.peer = "rst" THEN {NotifyDisconnected(k)} ELSE Written(k)

\* Whether OnChannelWritable, having run to r, has touched a destroyed TcpConn.
WriteTouchesFreed(r) == encrypted /\ Freed(r)

-----------------------------------------------------------------------------
(* The kernel: what epoll_wait reports for a connection.                   *)

Triggered(k) ==
    {e \in Events :
        /\ k.registered
        /\ CASE e = "HUP" -> k.peer = "rst" \/ (k.peer = "fin" /\ k.wr)
             [] e = "ERR" -> k.peer = "rst"
             [] e = "IN"  -> "R" \in k.polled /\ (k.rcv > 0 \/ k.peer # "open")
             [] e = "OUT" -> "W" \in k.polled /\ (k.sndbuf = "room" \/ k.peer = "rst")}

-----------------------------------------------------------------------------

Init ==
    /\ conn = [c \in Conns |-> NewConn]
    /\ batch = [c \in Conns |-> {}]
    /\ ready = {}
    /\ due = {}
    /\ pc = "check"
    /\ wakeup = FALSE
    /\ stopper = "idle"
    /\ encrypted \in BOOLEAN

(* The peers.  A peer's socket matters until ours is closed.               *)

Reachable(c) == conn[c].phase \in {"backlog", "open"} /\ ~Freed(conn[c])

PeerConnect(c) ==
    /\ conn[c].phase = "none"
    /\ conn' = [conn EXCEPT ![c].phase = "backlog"]
    /\ UNCHANGED <<batch, ready, due, pc, wakeup, stopper, encrypted>>

PeerSend(c) ==
    /\ Reachable(c) /\ conn[c].peer = "open" /\ conn[c].rcv < MaxBytes
    /\ conn' = [conn EXCEPT ![c].rcv = @ + 1]
    /\ UNCHANGED <<batch, ready, due, pc, wakeup, stopper, encrypted>>

PeerClose(c) ==
    /\ Reachable(c) /\ conn[c].peer = "open"
    /\ conn' = [conn EXCEPT ![c].peer = "fin"]
    /\ UNCHANGED <<batch, ready, due, pc, wakeup, stopper, encrypted>>

\* A reset discards what the kernel has queued.
PeerReset(c) ==
    /\ Reachable(c) /\ conn[c].peer # "rst"
    /\ conn' = [conn EXCEPT ![c].peer = "rst", ![c].rcv = 0]
    /\ UNCHANGED <<batch, ready, due, pc, wakeup, stopper, encrypted>>

\* The peer acknowledges data: the kernel's send buffer has room again.
PeerAck(c) ==
    /\ Reachable(c) /\ conn[c].sndbuf = "full"
    /\ conn' = [conn EXCEPT ![c].sndbuf = "room"]
    /\ UNCHANGED <<batch, ready, due, pc, wakeup, stopper, encrypted>>

-----------------------------------------------------------------------------
(* The loop thread, IOWorker::Loop.                                        *)

CheckStop ==
    /\ pc = "check"
    /\ pc' = IF stopper = "idle" THEN "poll" ELSE "closing"
    /\ UNCHANGED <<conn, batch, ready, due, wakeup, stopper, encrypted>>

\* epoll_wait blocks until something is ready.  A timer may expire at any time
\* while a task waits in the TimerQueue.
Poll ==
    /\ pc = "poll"
    /\ batch' = [c \in Conns |-> Triggered(conn[c])]
    /\ \E expired \in BOOLEAN :
        /\ expired => \E c \in Conns : conn[c].held
        /\ ready' = {x \in {"acceptor", "timer", "wakeup"} :
                        CASE x = "acceptor" -> \E c \in Conns : conn[c].phase = "backlog"
                          [] x = "timer"    -> expired
                          [] x = "wakeup"   -> wakeup}
    /\ ready' # {} \/ \E c \in Conns : batch'[c] # {}
    /\ pc' = "dispatch"
    /\ UNCHANGED <<conn, due, wakeup, stopper, encrypted>>

\* epoll_wait returned -1 (EINTR): no channel, and the loop tests stop_loop.
PollInterrupted ==
    /\ pc = "poll"
    /\ pc' = "check"
    /\ UNCHANGED <<conn, batch, ready, due, wakeup, stopper, encrypted>>

Dispatching == pc = "dispatch" /\ due = {}

\* Channel::HandleEvent: HUP before IN before OUT; anything else is an error,
\* and OnError is OnPeerClose.
HandleEvent(c) ==
    /\ Dispatching
    /\ batch[c] # {}
    /\ batch' = [batch EXCEPT ![c] = {}]
    /\ IF Freed(conn[c]) THEN pc' = "faulted" /\ UNCHANGED conn
       ELSE \/ /\ "HUP" \in batch[c] \/ batch[c] \subseteq {"ERR"}
               /\ conn' = [conn EXCEPT ![c] = OnChannelClose(@)]
               /\ UNCHANGED pc
            \/ /\ "HUP" \notin batch[c] /\ "IN" \in batch[c]
               /\ \E r \in OnChannelReadable(conn[c]) : conn' = [conn EXCEPT ![c] = r]
               /\ UNCHANGED pc
            \/ /\ {"HUP", "IN"} \intersect batch[c] = {} /\ "OUT" \in batch[c]
               /\ \E r \in OnChannelWritable(conn[c]) :
                    /\ conn' = [conn EXCEPT ![c] = r]
                    /\ pc' = IF WriteTouchesFreed(r) THEN "faulted" ELSE pc
    /\ UNCHANGED <<ready, due, wakeup, stopper, encrypted>>

ConnNums == Cardinality({c \in Conns : conn[c].owned})

\* TcpRateLimiter::ReachConnectionLimits; the new conn, already in tcp_conns, is
\* the one that is added here.
ReachConnectionLimits == Limited /\ ConnNums + 1 >= MaxConns

\* The OnConnected callback TcpServer::Serve binds.
OnConnected(k) ==
    IF ReachConnectionLimits THEN Shutdown(k)
    ELSE UNION {App(k, op) : op \in ConnectOps}

\* Mutant: ActivateReading is not called.
AcceptedDeaf(k) ==
    AddToPoller([k EXCEPT !.phase = "open", !.owned = TRUE])

\* The TcpConn before OnConnected is called.
Accepted(k) ==
    ActivateReading(AddToPoller([k EXCEPT !.phase = "open", !.owned = TRUE]))

\* Acceptor::OnPeerConnect; InitSsl reads the TcpConn after OnConnected.
OnPeerConnect(c) ==
    /\ Dispatching
    /\ "acceptor" \in ready
    /\ conn[c].phase = "backlog"
    /\ ready' = ready \ {"acceptor"}
    /\ \E r \in OnConnected(Accepted(conn[c])) :
        /\ conn' = [conn EXCEPT ![c] = r]
        /\ pc' = IF Freed(r) THEN "faulted" ELSE pc
    /\ UNCHANGED <<batch, due, wakeup, stopper, encrypted>>

\* accept4 failed.  With EMFILE the reserved fd makes room to accept the client
\* and close it; otherwise nothing is accepted.
AcceptFails(c) ==
    /\ Dispatching
    /\ "acceptor" \in ready
    /\ conn[c].phase = "backlog"
    /\ ready' = ready \ {"acceptor"}
    /\ \E phase \in {"backlog", "refused"} :
        conn' = [conn EXCEPT ![c].phase = phase]
    /\ UNCHANGED <<batch, due, pc, wakeup, stopper, encrypted>>

\* TimerQueue::OnTimeout: the tasks popped as expired, then run one by one.
OnTimeout ==
    /\ Dispatching
    /\ "timer" \in ready
    /\ ready' = ready \ {"timer"}
    /\ due' \in SUBSET {c \in Conns : conn[c].held}
    /\ UNCHANGED <<conn, batch, pc, wakeup, stopper, encrypted>>

\* A task that repeats keeps its TcpConnPtr, one that does not drops it.
RunTask(c) ==
    /\ pc = "dispatch"
    /\ c \in due
    /\ due' = due \ {c}
    /\ \E op \in TimerOps, keep \in BOOLEAN : \E r \in App(conn[c], op) :
        conn' = [conn EXCEPT ![c] = [r EXCEPT !.held = keep]]
    /\ UNCHANGED <<batch, ready, pc, wakeup, stopper, encrypted>>

HandleWakeup ==
    /\ Dispatching
    /\ "wakeup" \in ready
    /\ ready' = ready \ {"wakeup"}
    /\ wakeup' = FALSE
    /\ UNCHANGED <<conn, batch, due, pc, stopper, encrypted>>

EndBatch ==
    /\ Dispatching
    /\ ready = {}
    /\ \A c \in Conns : batch[c] = {}
    /\ pc' = "check"
    /\ UNCHANGED <<conn, batch, ready, due, wakeup, stopper, encrypted>>

\* tcp_conns.LockForEach(ForceClose).  ForceClose erases the element the
\* range-for stands on, so what the loop does next is undefined: it goes on,
\* it ends, or it crashes.
CloseNext(c) ==
    /\ pc = "closing"
    /\ conn[c].owned
    /\ conn' = [conn EXCEPT ![c] = OnChannelClose(@)]
    /\ pc' \in {"closing", "waiting", "crashed"}
    /\ UNCHANGED <<batch, ready, due, wakeup, stopper, encrypted>>

EndClosing ==
    /\ pc = "closing"
    /\ \A c \in Conns : ~conn[c].owned
    /\ pc' = "waiting"
    /\ UNCHANGED <<conn, batch, ready, due, wakeup, stopper, encrypted>>

\* The thread sleeps until tcp_conns is empty; nothing polls any more.
LoopReturns ==
    /\ pc = "waiting"
    /\ \A c \in Conns : ~conn[c].owned
    /\ pc' = "exited"
    /\ UNCHANGED <<conn, batch, ready, due, wakeup, stopper, encrypted>>

-----------------------------------------------------------------------------
(* IOWorker::Stop, from WorkerGroup::Stop on the main thread.              *)

\* Mutant: Stop does not wake the poller up.
StopStoreSilent ==
    /\ stopper = "idle"
    /\ stopper' = "done"
    /\ UNCHANGED <<conn, batch, ready, due, pc, wakeup, encrypted>>

StopStore ==
    /\ stopper = "idle"
    /\ stopper' = "stored"
    /\ UNCHANGED <<conn, batch, ready, due, pc, wakeup, encrypted>>

StopWakeup ==
    /\ stopper = "stored"
    /\ stopper' = "done"
    /\ wakeup' = TRUE
    /\ UNCHANGED <<conn, batch, ready, due, pc, encrypted>>

-----------------------------------------------------------------------------

Peer(c) ==
    PeerConnect(c) \/ PeerSend(c) \/ PeerClose(c) \/ PeerReset(c) \/ PeerAck(c)

LoopStep ==
    \/ CheckStop \/ Poll \/ OnTimeout \/ HandleWakeup \/ EndBatch
    \/ EndClosing \/ LoopReturns
    \/ \E c \in Conns : \/ HandleEvent(c) \/ OnPeerConnect(c) \/ AcceptFails(c)
                        \/ RunTask(c) \/ CloseNext(c)

Stop == StopStore \/ StopWakeup

Next == LoopStep \/ PollInterrupted \/ Stop \/ \E c \in Conns : Peer(c)

Spec == Init /\ [][Next]_vars

\* The loop thread and the stopping thread are scheduled, signals do not interrupt
\* epoll_wait for ever, and a peer acknowledges what it was sent.
FairSpec ==
    /\ Spec
    /\ WF_vars(LoopStep)
    /\ SF_vars(Poll)
    /\ WF_vars(StopWakeup)
    /\ \A c \in Conns : WF_vars(PeerAck(c))

-----------------------------------------------------------------------------
(* Properties.                                                             *)

\* Every variable keeps the shape the code gives it.
TypeOK ==
    /\ conn \in [Conns -> Conn]
    /\ batch \in [Conns -> SUBSET Events]
    /\ ready \subseteq {"acceptor", "timer", "wakeup"}
    /\ due \subseteq Conns
    /\ pc \in {"check", "poll", "dispatch", "closing", "waiting", "exited",
              "faulted", "crashed"}
    /\ wakeup \in BOOLEAN
    /\ stopper \in {"idle", "stored", "done"}
    /\ encrypted \in BOOLEAN

\* A TcpConn is in tcp_conns exactly while its fd is in the epoll set: no owned
\* connection that nothing watches, and no epoll entry (its data.ptr is the
\* Channel) that outlives the TcpConn.
OwnedIffRegistered == \A c \in Conns : conn[c].owned <=> conn[c].registered

\* The epoll set watches an owned TcpConn for reading until it is destroyed (the
\* peer's FIN is only ever seen by a read or as EPOLLHUP), and for writing
\* exactly when it is connected and send_buffer holds data: data put in by Send
\* is not forgotten, and an empty or shut down connection does not spin the
\* level-triggered loop.
InterestExact ==
    \A c \in Conns : conn[c].owned =>
        /\ "R" \in conn[c].polled
        /\ "W" \in conn[c].polled <=>
             conn[c].state = "kConnected" /\ conn[c].unsent > 0

\* AddTcpConn's comment: tcp_conns owns a TcpConn "to ensure that the lifecycle of
\* the TcpConn object is long enough".  No handler runs on a TcpConn or a Channel
\* that has been destroyed: neither one of the current batch, nor the one being
\* accepted, nor the one being written.
NoUseAfterFree == pc # "faulted"

\* OnChannelClose releases the buffers, and nothing fills them again: a removed
\* TcpConn that a timer task still holds is not connected and keeps no data, even
\* if the task sends or shuts it down.
ClosedHoldsNoData ==
    \A c \in Conns : conn[c].phase = "open" /\ ~conn[c].owned =>
        conn[c].state # "kConnected" /\ conn[c].unsent = 0

\* A TcpConn leaves tcp_conns only with OnTcpDisconnected called: the
\* application may release what it attached to the connection.
NoSilentRemoval ==
    \A c \in Conns :
        conn[c].phase = "open" /\ ~conn[c].owned => conn[c].downs > 0

\* The application is told once that a connection is gone, whichever of the
\* handlers finds out first, as long as the peer does not reset the connection (a
\* write that fails then reports the disconnection and leaves the rest to EPOLLHUP).
DisconnectedOnce == \A c \in Conns : conn[c].peer # "rst" => conn[c].downs < 2

\* A connection that was shut down or closed never becomes connected again, and
\* one that was closed never enters tcp_conns or the epoll set again.
CloseIsFinal ==
    [][\A c \in Conns :
        /\ conn[c].state # "kConnected" => conn'[c].state # "kConnected"
        /\ conn[c].downs > 0 /\ ~conn[c].owned =>
              ~conn'[c].owned /\ ~conn'[c].registered]_vars

InLoop == pc \in {"check", "poll", "dispatch"}

\* A connection whose peer has closed or reset it is eventually closed and
\* removed, whatever state Shutdown and the application left it in.
PeerGoneIsReaped ==
    \A c \in Conns :
        conn[c].owned /\ conn[c].peer # "open" ~> ~conn[c].owned \/ ~InLoop

\* Data given to Send is written to a peer that takes it, unless the connection
\* goes down, provided neither the peer nor a timer task goes on for ever: the
\* application may send more each time.
SendDrains ==
    \A c \in Conns :
        <>[](conn[c].rcv = 0 /\ c \notin due) =>
            (conn[c].owned /\ conn[c].unsent > 0
                ~> conn[c].unsent = 0 \/ conn[c].state # "kConnected" \/ ~InLoop)

\* Stop makes the loop thread leave the event loop, even when it is blocked in
\* epoll_wait or between the test of stop_loop and epoll_wait.
StopLeavesLoop == stopper # "idle" ~> ~InLoop

\* Stop ends the worker: Loop returns once the connections are closed.
StopEndsWorker == stopper # "idle" ~> pc = "exited"

=============================================================================
