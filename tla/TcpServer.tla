----------------------------- MODULE TcpServer ------------------------------
(***************************************************************************)
(* TcpServer::Serve: the main thread that starts the WorkerGroup and the   *)
(* ThreadPool, monitors them and stops them, composed with the threads of  *)
(* all its IOWorkers and with what they share: the process's file          *)
(* descriptors and the mutex in every worker's TcpConnSet (src/src/net:    *)
(* TcpServer, WorkerGroup, IOWorker, Acceptor, TcpConnSet).                *)
(*                                                                         *)
(* A worker's event loop is abstracted to what the others see of it (the   *)
(* module IOWorker has its batches, buffers and peers).  The server's own  *)
(* thread_pool is private and never given a task, so its threads only wait *)
(* for Stop.  A short critical section (Add, Size, Empty) is one step that *)
(* needs the mutex to be free; LockForEach holds it over several.          *)
(***************************************************************************)
EXTENDS Naturals, FiniteSets

CONSTANTS
    N,          \* config.workgroup.workers
    Pool,       \* the threads of thread_pool
    Conns,      \* the connections clients may open; each is used once
    Limited,    \* a TcpRateLimiter is set
    MaxConns,   \* its max_conns_per_io_worker
    MaxFds,     \* RLIMIT_NOFILE, less the fds that are always open
    MaxOthers   \* fds the rest of the program may open (bound)

Workers == 1..N

ASSUME WorkersAssumption == N \in Nat \ {0}
ASSUME FdsAssumption == MaxFds \in Nat /\ MaxFds >= N
ASSUME LimitsAssumption == Limited \in BOOLEAN /\ MaxConns \in Nat /\ MaxOthers \in Nat
ASSUME ConnsAssumption == IsFiniteSet(Conns) /\ IsFiniteSet(Pool)

VARIABLES
    main,             \* where Serve is
    stop_all_server,
    pool,             \* where each thread of the pool is
    stop_loop,        \* the workers told to stop
    at,               \* where each worker's thread is
    reserved,         \* the workers whose reserved_fd is open
    conn,             \* the life of each connection ...
    home,             \* ... and the worker whose socket it came in on
    held,             \* connections a timer task owns a TcpConnPtr of
    counting,         \* in GetTotalConns: the worker a thread counts next, or 0
    others            \* open fds of the rest of the program

vars == <<main, stop_all_server, pool, stop_loop, at, reserved, conn, home, held,
          counting, others>>

Main == 0
Threads == Workers \union {Main}

Init ==
    /\ main = "group"
    /\ stop_all_server = FALSE
    /\ pool = [p \in Pool |-> "none"]
    /\ stop_loop = {}
    /\ at = [w \in Workers |-> "none"]
    /\ reserved = {}
    /\ conn = [c \in Conns |-> "none"]
    /\ home = [c \in Conns |-> 1]
    /\ held = {}
    /\ counting = [t \in Threads |-> 0]
    /\ others = 0

\* The connections in a worker's tcp_conns.
TcpConns(w) == {c \in Conns : home[c] = w /\ conn[c] \in {"kConnected", "kShutdown"}}

\* ~TcpConn closes the fd, when the last TcpConnPtr is gone.
Undestroyed == {c \in Conns : conn[c] \in {"kConnected", "kShutdown"}} \union held

FdFree == Cardinality(Undestroyed) + Cardinality(reserved) + others < MaxFds

\* TcpConnSet::mtx is taken: the worker is in LockForEach.
Locked(w) == at[w] = "closing"

-----------------------------------------------------------------------------
(* The main thread.                                                        *)

Started == {w \in Workers : at[w] # "none"}

\* WorkerGroup::Start: the constructors (Acceptor asserts that it gets its
\* reserved fd), worker_set, and the thread.
StartWorker(w) ==
    /\ main = "group"
    /\ Started = 1..(w - 1)
    /\ FdFree
    /\ at' = [at EXCEPT ![w] = "loop"]
    /\ reserved' = reserved \union {w}
    /\ main' = IF w = N THEN "pool" ELSE main
    /\ UNCHANGED <<stop_all_server, pool, stop_loop, conn, home, held, counting, others>>

\* thread_pool.Start; then the signal handlers are set.
StartPool ==
    /\ main = "pool"
    /\ pool' = [p \in Pool |-> "wait"]
    /\ main' = "serving"
    /\ UNCHANGED <<stop_all_server, stop_loop, at, reserved, conn, home, held, counting, others>>

SignalHandler ==
    /\ main = "serving"
    /\ ~stop_all_server
    /\ stop_all_server' = TRUE
    /\ UNCHANGED <<main, pool, stop_loop, at, reserved, conn, home, held, counting, others>>

\* Monitor, in the loop while stop_all_server is not set: GetTotalConns.
Monitor ==
    /\ main = "serving" /\ counting[Main] = 0
    /\ ~stop_all_server
    /\ counting' = [counting EXCEPT ![Main] = 1]
    /\ UNCHANGED <<main, stop_all_server, pool, stop_loop, at, reserved, conn, home, held, others>>

\* thread_pool.Stop: a thread between its predicate and its wait misses the
\* notification, and no task will ever wake it up.
StopPool ==
    /\ main = "serving" /\ counting[Main] = 0
    /\ stop_all_server
    /\ pool' \in [Pool -> {"exited", "missed"}]
    /\ main' = "joinPool"
    /\ UNCHANGED <<stop_all_server, stop_loop, at, reserved, conn, home, held, counting, others>>

\* A condition variable may wake a thread up for no reason.
SpuriousWakeup(p) ==
    /\ pool[p] = "missed"
    /\ pool' = [pool EXCEPT ![p] = "exited"]
    /\ UNCHANGED <<main, stop_all_server, stop_loop, at, reserved, conn, home, held, counting, others>>

JoinPool ==
    /\ main = "joinPool"
    /\ \A p \in Pool : pool[p] = "exited"
    /\ main' = "stopGroup"
    /\ UNCHANGED <<stop_all_server, pool, stop_loop, at, reserved, conn, home, held, counting, others>>

\* WorkerGroup::Stop: IOWorker::Stop for every worker, then the joins.
StopWorker(w) ==
    /\ main = "stopGroup"
    /\ stop_loop = 1..(w - 1)
    /\ stop_loop' = stop_loop \union {w}
    /\ main' = IF w = N THEN "joinGroup" ELSE main
    /\ UNCHANGED <<stop_all_server, pool, at, reserved, conn, home, held, counting, others>>

JoinGroup ==
    /\ main = "joinGroup"
    /\ \A w \in Workers : at[w] = "exited"
    /\ main' = "returned"
    /\ UNCHANGED <<stop_all_server, pool, stop_loop, at, reserved, conn, home, held, counting, others>>

\* GetTotalConns: one worker's GetConnNums after the other, over worker_set.
CountNext(t) ==
    /\ counting[t] > 0
    /\ ~Locked(counting[t])
    /\ counting' = [counting EXCEPT ![t] = IF @ < N THEN @ + 1 ELSE 0]
    /\ UNCHANGED <<main, stop_all_server, pool, stop_loop, at, reserved, conn, home, held, others>>

-----------------------------------------------------------------------------
(* Clients and the rest of the program.                                    *)

\* SO_REUSEPORT: the kernel picks the listening socket.
ClientConnects(c, w) ==
    /\ conn[c] = "none"
    /\ w \in Started
    /\ conn' = [conn EXCEPT ![c] = "backlog"]
    /\ home' = [home EXCEPT ![c] = w]
    /\ UNCHANGED <<main, stop_all_server, pool, stop_loop, at, reserved, held, counting, others>>

OthersOpen ==
    /\ others < MaxOthers /\ FdFree
    /\ others' = others + 1
    /\ UNCHANGED <<main, stop_all_server, pool, stop_loop, at, reserved, conn, home, held, counting>>

OthersClose ==
    /\ others > 0
    /\ others' = others - 1
    /\ UNCHANGED <<main, stop_all_server, pool, stop_loop, at, reserved, conn, home, held, counting>>

-----------------------------------------------------------------------------
(* A worker's thread.  Loop tests stop_loop after every batch.             *)

Handling(w) == at[w] = "loop" /\ counting[w] = 0

Waiting(w) == {c \in Conns : conn[c] = "backlog" /\ home[c] = w}

\* Mutant: the limit is compared with > instead of >=.
ReachConnectionLimitsLate(w) == Limited /\ Cardinality(TcpConns(w)) + 1 > MaxConns

\* The new connection is in tcp_conns when the limiter counts: a limit of 0 or 1
\* refuses everybody.
ReachConnectionLimits(w) == Limited /\ Cardinality(TcpConns(w)) + 1 >= MaxConns

\* Acceptor::OnPeerConnect with an fd for the client, and the OnConnected that
\* Serve binds.
OnPeerConnect(w, c) ==
    /\ Handling(w) /\ c \in Waiting(w)
    /\ FdFree
    /\ conn' = [conn EXCEPT ![c] = IF ReachConnectionLimits(w) THEN "kShutdown" ELSE "kConnected"]
    /\ UNCHANGED <<main, stop_all_server, pool, stop_loop, at, reserved, home, held, counting, others>>

\* accept4 fails with EMFILE: reserved_fd is closed (if it is open) ...
AcceptFails(w) ==
    /\ Handling(w) /\ Waiting(w) # {}
    /\ ~FdFree
    /\ reserved' = reserved \ {w}
    /\ at' = [at EXCEPT ![w] = "again"]
    /\ UNCHANGED <<main, stop_all_server, pool, stop_loop, conn, home, held, counting, others>>

\* Mutant: the fd is given back without accepting the client.
AcceptAgainSkipped(w) ==
    /\ at[w] = "again"
    /\ UNCHANGED conn
    /\ at' = [at EXCEPT ![w] = "reopen"]
    /\ UNCHANGED <<main, stop_all_server, pool, stop_loop, reserved, home, held, counting, others>>

\* ... the client is accepted in its place and closed, unless another thread has
\* taken the fd ...
AcceptAgain(w) ==
    /\ at[w] = "again"
    /\ IF FdFree THEN \E c \in Waiting(w) : conn' = [conn EXCEPT ![c] = "refused"]
       ELSE UNCHANGED conn
    /\ at' = [at EXCEPT ![w] = "reopen"]
    /\ UNCHANGED <<main, stop_all_server, pool, stop_loop, reserved, home, held, counting, others>>

\* ... and /dev/null is opened again, if it can be.
Reopen(w) ==
    /\ at[w] = "reopen"
    /\ at' = [at EXCEPT ![w] = "loop"]
    /\ reserved' = IF FdFree THEN reserved \union {w} ELSE reserved
    /\ UNCHANGED <<main, stop_all_server, pool, stop_loop, conn, home, held, counting, others>>

\* OnTcpReceivedData: the application adds a timer that holds the connection, or
\* asks for the number of connections.  It does so once all workers have started:
\* worker_set is appended to without a lock, and reading it meanwhile is undefined.
OnTcpReceivedData(w, c) ==
    /\ Handling(w) /\ c \in TcpConns(w) /\ conn[c] = "kConnected"
    /\ \/ held' = held \union {c} /\ UNCHANGED counting
       \/ main # "group" /\ counting' = [counting EXCEPT ![w] = 1] /\ UNCHANGED held
    /\ UNCHANGED <<main, stop_all_server, pool, stop_loop, at, reserved, conn, home, others>>

\* The timer task has run for the last time.
TimerEnds(w, c) ==
    /\ Handling(w) /\ c \in held /\ home[c] = w
    /\ held' = held \ {c}
    /\ UNCHANGED <<main, stop_all_server, pool, stop_loop, at, reserved, conn, home, counting, others>>

\* Mutant: Remove takes the lock.
RemoveLocks(w) == ~Locked(w)

\* TcpConnSet::Remove does not take the mutex.
Remove(w) == TRUE

\* The peer closes: OnChannelClose.
OnChannelClose(w, c) ==
    /\ Handling(w) /\ c \in TcpConns(w)
    /\ Remove(w)
    /\ conn' = [conn EXCEPT ![c] = "kDisconnected"]
    /\ UNCHANGED <<main, stop_all_server, pool, stop_loop, at, reserved, home, held, counting, others>>

LeaveLoop(w) ==
    /\ Handling(w) /\ w \in stop_loop
    /\ at' = [at EXCEPT ![w] = "closing"]
    /\ UNCHANGED <<main, stop_all_server, pool, stop_loop, reserved, conn, home, held, counting, others>>

\* LockForEach(ForceClose): Remove erases the element the loop stands on, so the
\* loop goes on, ends, or crashes.
CloseNext(w, c) ==
    /\ at[w] = "closing" /\ c \in TcpConns(w)
    /\ Remove(w)
    /\ conn' = [conn EXCEPT ![c] = "kDisconnected"]
    /\ \E next \in {"closing", "waiting", "crashed"} : at' = [at EXCEPT ![w] = next]
    /\ UNCHANGED <<main, stop_all_server, pool, stop_loop, reserved, home, held, counting, others>>

EndClosing(w) ==
    /\ at[w] = "closing" /\ TcpConns(w) = {}
    /\ at' = [at EXCEPT ![w] = "waiting"]
    /\ UNCHANGED <<main, stop_all_server, pool, stop_loop, reserved, conn, home, held, counting, others>>

\* Mutant: Loop does not wait for its connections.
LoopReturnsEarly(w) ==
    /\ at[w] = "waiting"
    /\ at' = [at EXCEPT ![w] = "exited"]
    /\ UNCHANGED <<main, stop_all_server, pool, stop_loop, reserved, conn, home, held, counting, others>>

LoopReturns(w) ==
    /\ at[w] = "waiting" /\ TcpConns(w) = {}
    /\ at' = [at EXCEPT ![w] = "exited"]
    /\ UNCHANGED <<main, stop_all_server, pool, stop_loop, reserved, conn, home, held, counting, others>>

-----------------------------------------------------------------------------

Accept(w) == AcceptFails(w) \/ \E c \in Conns : OnPeerConnect(w, c)

WorkerStep(w) ==
    \/ Accept(w) \/ AcceptAgain(w) \/ Reopen(w) \/ CountNext(w)
    \/ LeaveLoop(w) \/ EndClosing(w) \/ LoopReturns(w)
    \/ \E c \in Conns : CloseNext(w, c)

Traffic(w, c) == OnTcpReceivedData(w, c) \/ TimerEnds(w, c) \/ OnChannelClose(w, c)

MainStep ==
    \/ \E w \in Workers : StartWorker(w) \/ StopWorker(w)
    \/ StartPool \/ StopPool \/ JoinPool \/ JoinGroup \/ CountNext(Main)

Next ==
    \/ MainStep \/ Monitor \/ SignalHandler
    \/ OthersOpen \/ OthersClose
    \/ \E p \in Pool : SpuriousWakeup(p)
    \/ \E w \in Workers :
          WorkerStep(w) \/ \E c \in Conns : ClientConnects(c, w) \/ Traffic(w, c)

\* The threads are scheduled.  A worker whose socket has a client is given it by
\* epoll_wait along with its other events, and tests stop_loop after every batch.
Spec ==
    /\ Init /\ [][Next]_vars
    /\ WF_vars(MainStep)
    /\ \A w \in Workers : WF_vars(WorkerStep(w)) /\ SF_vars(Accept(w)) /\ SF_vars(LeaveLoop(w))

-----------------------------------------------------------------------------
(* Properties.                                                             *)

\* With a TcpRateLimiter set, the application serves fewer connections of one
\* worker at a time than max_conns_per_io_worker, and none if that is 0, whatever
\* the other workers do: the limiter counts the new connection, and those that are
\* only shut down.
ServedWithinLimit ==
    Limited => \A w \in Workers :
        LET served == {c \in TcpConns(w) : conn[c] = "kConnected"}
        IN  served = {} \/ Cardinality(served) < MaxConns

\* When Serve has returned, no thread of the server runs and no connection is left
\* that was accepted and not closed, whenever the client came and however far the
\* workers had got when they were stopped.
ReturnedMeansDone ==
    main = "returned" =>
        /\ \A w \in Workers : at[w] = "exited" /\ TcpConns(w) = {}
        /\ \A p \in Pool : pool[p] = "exited"

\* LockForEach has gone wrong in one of the ways its iterator allows: it crashed,
\* or it ended before all connections were closed, and nothing polls them now.
Astray(w) == at[w] = "crashed" \/ (at[w] = "waiting" /\ TcpConns(w) # {})

\* After a signal Serve returns, with any number of clients connected and threads
\* counting connections in OnTcpReceivedData, unless a thread of the pool missed the
\* notification of Stop or LockForEach went astray.  (An application that counts
\* them in OnTcpDisconnected would lock the worker's mutex a second time.)
ServeReturns ==
    stop_all_server ~>
        \/ main = "returned"
        \/ \E p \in Pool : pool[p] = "missed"
        \/ \E w \in Workers : Astray(w)

\* A client that waits at a running worker is accepted or turned away even when no
\* fd is left, unless another thread takes the fd that the worker has given up for
\* it before accept4 is called again.
ClientIsAnswered ==
    \A c \in Conns :
        conn[c] = "backlog" ~>
            \/ conn[c] # "backlog"
            \/ at[home[c]] = "again" /\ ~FdFree
            \/ home[c] \in stop_loop

=============================================================================
