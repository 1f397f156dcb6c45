-------------------------- MODULE TcpServerProofs ---------------------------
(***************************************************************************)
(* What TcpServer::Serve guarantees for any number of workers, threads of  *)
(* the pool, clients and file descriptors: the connection limit, and what  *)
(* is over when Serve has returned.                                        *)
(***************************************************************************)
EXTENDS TcpServer, FiniteSetTheorems, TLAPS

USE WorkersAssumption, FdsAssumption, LimitsAssumption, ConnsAssumption

\* The connections of one worker that the application serves.
Served(w) == {c \in TcpConns(w) : conn[c] = "kConnected"}

\* Every variable keeps the shape the code gives it.
TypeInv ==
    /\ main \in {"group", "pool", "serving", "joinPool", "stopGroup", "joinGroup", "returned"}
    /\ stop_all_server \in BOOLEAN
    /\ pool \in [Pool -> {"none", "wait", "missed", "exited"}]
    /\ stop_loop \subseteq Workers /\ reserved \subseteq Workers
    /\ at \in [Workers -> {"none", "loop", "again", "reopen", "closing", "waiting",
                           "crashed", "exited"}]
    /\ conn \in [Conns -> {"none", "backlog", "kConnected", "kShutdown", "refused",
                           "kDisconnected"}]
    /\ home \in [Conns -> Workers]
    /\ held \subseteq Conns
    /\ counting \in [Threads -> 0..N]
    /\ others \in 0..MaxOthers

\* A worker's thread ends with no connection left, and gets none afterwards.
ExitInv == \A w \in Workers : at[w] = "exited" => TcpConns(w) = {}

\* Serve goes past a join only when the threads it joins have ended.
JoinInv ==
    /\ main \in {"stopGroup", "joinGroup", "returned"} => \A p \in Pool : pool[p] = "exited"
    /\ main = "returned" => \A w \in Workers : at[w] = "exited"

ServerInv == TypeInv /\ ExitInv /\ JoinInv /\ ServedWithinLimit

\* Init has no thread and no connection.
LEMMA ServerInit == Init => ServerInv
<1> SUFFICES ASSUME Init PROVE ServerInv
  OBVIOUS
<1>1. TypeInv
  <2>1. home \in [Conns -> Workers] /\ counting \in [Threads -> 0..N] /\ others \in 0..MaxOthers
    BY DEF Init, Workers
  <2>2. pool \in [Pool -> {"none"}] /\ at \in [Workers -> {"none"}] /\ conn \in [Conns -> {"none"}]
    BY DEF Init
  <2> QED BY <2>1, <2>2 DEF Init, TypeInv
<1>2. \A w \in Workers : TcpConns(w) = {}
  BY DEF Init, TcpConns
<1>3. ServedWithinLimit
  BY <1>2, FS_EmptySet DEF ServedWithinLimit
<1>4. ExitInv /\ JoinInv
  BY <1>2 DEF Init, ExitInv, JoinInv
<1> QED BY <1>1, <1>3, <1>4 DEF ServerInv

\* The connections of a worker are finitely many.
LEMMA ConnsFinite ==
    ASSUME NEW w \in Workers
    PROVE  /\ IsFiniteSet(TcpConns(w)) /\ IsFiniteSet(Served(w))
           /\ Cardinality(TcpConns(w)) \in Nat /\ Cardinality(Served(w)) \in Nat
<1>1. TcpConns(w) \subseteq Conns /\ Served(w) \subseteq Conns
  BY DEF TcpConns, Served
<1> QED BY <1>1, FS_Subset, FS_CardinalityType

\* A step that adds no connection to those the application serves keeps the limit.
LEMMA LimitKept ==
    ASSUME ServedWithinLimit, \A w \in Workers : Served(w)' \subseteq Served(w)
    PROVE  ServedWithinLimit'
<1> SUFFICES ASSUME Limited, NEW w \in Workers, Served(w)' # {}
             PROVE  Cardinality(Served(w)') < MaxConns
  BY DEF ServedWithinLimit, Served
<1>1. Cardinality(Served(w)) < MaxConns
  BY DEF ServedWithinLimit, Served
<1>2. /\ IsFiniteSet(Served(w)) /\ Cardinality(Served(w)) \in Nat
      /\ Served(w)' \subseteq Served(w)
  BY ConnsFinite
<1>3. /\ Cardinality(Served(w)') \in Nat
      /\ Cardinality(Served(w)') <= Cardinality(Served(w))
  BY <1>2, FS_Subset, FS_CardinalityType
<1> QED BY <1>1, <1>2, <1>3

\* The main thread: every start, stop and join, and what it counts.
LEMMA MainKeeps ==
    ASSUME ServerInv, MainStep \/ Monitor \/ SignalHandler
    PROVE  ServerInv'
<1> USE DEF MainStep, StartWorker, StopWorker, StartPool, StopPool, JoinPool, JoinGroup,
            CountNext, Monitor, SignalHandler, ServerInv
<1>1. TypeInv'
  <2>1. counting' \in [Threads -> 0..N]
    BY DEF TypeInv, Threads
  <2>2. at' \in [Workers -> {"none", "loop", "again", "reopen", "closing", "waiting",
                            "crashed", "exited"}]
    BY DEF TypeInv
  <2>3. pool' \in [Pool -> {"none", "wait", "missed", "exited"}]
    BY DEF TypeInv
  <2> QED BY <2>1, <2>2, <2>3 DEF TypeInv
<1>2. UNCHANGED <<conn, home>>
  OBVIOUS
<1>3. ServedWithinLimit'
  BY <1>2, LimitKept DEF Served, TcpConns
<1>4. ExitInv'
  BY <1>2 DEF ExitInv, TcpConns, TypeInv
<1>5. JoinInv'
  BY DEF JoinInv, TypeInv
<1> QED BY <1>1, <1>3, <1>4, <1>5

\* The pool's threads, the rest of the program, and clients that connect.
LEMMA OthersKeep ==
    ASSUME ServerInv,
           \/ OthersOpen \/ OthersClose
           \/ \E p \in Pool : SpuriousWakeup(p)
           \/ \E w \in Workers, c \in Conns : ClientConnects(c, w)
    PROVE  ServerInv'
<1> USE DEF OthersOpen, OthersClose, SpuriousWakeup, ClientConnects, ServerInv
<1>1. TypeInv'
  BY DEF TypeInv
<1>2. \A w \in Workers : TcpConns(w)' = TcpConns(w) /\ Served(w)' = Served(w)
  BY DEF TypeInv, TcpConns, Served
<1>3. ServedWithinLimit'
  BY <1>2, LimitKept
<1>4. ExitInv'
  BY <1>2 DEF ExitInv
<1>5. JoinInv'
  BY DEF JoinInv, TypeInv
<1> QED BY <1>1, <1>3, <1>4, <1>5

\* OnPeerConnect: the limiter counts the connections that are only shut down as
\* well, so the new one is served only while there is room for it.
LEMMA ConnectKeeps ==
    ASSUME ServerInv, NEW w \in Workers, NEW c \in Conns, OnPeerConnect(w, c)
    PROVE  ServerInv'
<1> USE DEF OnPeerConnect, Handling, Waiting, ServerInv
<1>1. TypeInv'
  BY DEF TypeInv
<1>2. at[w] = "loop" /\ home[c] = w /\ conn[c] = "backlog"
  OBVIOUS
<1>3. \A v \in Workers : v # w => TcpConns(v)' = TcpConns(v) /\ Served(v)' = Served(v)
  BY <1>2 DEF TypeInv, TcpConns, Served
<1>4. ServedWithinLimit'
  <2>1. CASE ReachConnectionLimits(w)
    <3>1. \A v \in Workers : Served(v)' \subseteq Served(v)
      BY <1>2, <1>3, <2>1 DEF TypeInv, TcpConns, Served
    <3> QED BY <3>1, LimitKept
  <2>2. CASE ~ReachConnectionLimits(w)
    <3> SUFFICES ASSUME Limited, NEW v \in Workers, Served(v)' # {}
                 PROVE  Cardinality(Served(v)') < MaxConns
      BY DEF ServedWithinLimit, Served
    <3>1. CASE v # w
      BY <1>3, <3>1 DEF ServedWithinLimit, Served
    <3>2. CASE v = w
      <4>1. /\ Cardinality(TcpConns(w)) + 1 < MaxConns
            /\ IsFiniteSet(TcpConns(w)) /\ Cardinality(TcpConns(w)) \in Nat
        BY <2>2, ConnsFinite DEF ReachConnectionLimits
      <4>2. c \notin TcpConns(w)
        BY <1>2 DEF TcpConns
      <4>3. /\ IsFiniteSet(TcpConns(w) \union {c})
            /\ Cardinality(TcpConns(w) \union {c}) = Cardinality(TcpConns(w)) + 1
        BY <4>1, <4>2, FS_AddElement
      <4>4. Served(w)' \subseteq TcpConns(w) \union {c}
        BY DEF TypeInv, TcpConns, Served
      <4>5. /\ Cardinality(Served(w)') \in Nat
            /\ Cardinality(Served(w)') <= Cardinality(TcpConns(w) \union {c})
        BY <4>3, <4>4, FS_Subset, FS_CardinalityType
      <4> QED BY <3>2, <4>1, <4>3, <4>5
    <3> QED BY <3>1, <3>2
  <2> QED BY <2>1, <2>2
<1>5. ExitInv'
  BY <1>2, <1>3 DEF ExitInv, TypeInv
<1>6. JoinInv'
  BY DEF JoinInv
<1> QED BY <1>1, <1>4, <1>5, <1>6

\* A worker's other steps add no connection, and its thread ends with none.
LEMMA WorkerKeeps ==
    ASSUME ServerInv, NEW w \in Workers,
           \/ AcceptFails(w) \/ AcceptAgain(w) \/ Reopen(w) \/ CountNext(w)
           \/ LeaveLoop(w) \/ EndClosing(w) \/ LoopReturns(w)
           \/ \E c \in Conns : CloseNext(w, c) \/ Traffic(w, c)
    PROVE  ServerInv'
<1> USE DEF AcceptFails, AcceptAgain, Reopen, CountNext, LeaveLoop, EndClosing, LoopReturns,
            CloseNext, Traffic, OnTcpReceivedData, TimerEnds, OnChannelClose, Handling,
            ServerInv
<1>1. TypeInv'
  <2>1. counting' \in [Threads -> 0..N]
    BY DEF TypeInv, Threads
  <2>2. conn' \in [Conns -> {"none", "backlog", "kConnected", "kShutdown", "refused",
                            "kDisconnected"}]
    BY DEF TypeInv, Waiting
  <2> QED BY <2>1, <2>2 DEF TypeInv
<1>2. \A v \in Workers : TcpConns(v)' \subseteq TcpConns(v) /\ Served(v)' \subseteq Served(v)
  BY DEF TypeInv, TcpConns, Served, Waiting
<1>3. ServedWithinLimit'
  BY <1>2, LimitKept
<1>4. ExitInv'
  BY <1>2 DEF ExitInv, TypeInv
<1>5. JoinInv'
  BY DEF JoinInv, TypeInv
<1> QED BY <1>1, <1>3, <1>4, <1>5

\* Every step keeps the invariant.
LEMMA ServerStep == ServerInv /\ [Next]_vars => ServerInv'
<1> SUFFICES ASSUME ServerInv, [Next]_vars PROVE ServerInv'
  OBVIOUS
<1>1. CASE MainStep \/ Monitor \/ SignalHandler
  BY <1>1, MainKeeps
<1>2. CASE OthersOpen \/ OthersClose \/ \E p \in Pool : SpuriousWakeup(p)
  BY <1>2, OthersKeep
<1>3. ASSUME NEW w \in Workers, NEW c \in Conns, ClientConnects(c, w)
      PROVE  ServerInv'
  BY <1>3, OthersKeep
<1>4. ASSUME NEW w \in Workers, WorkerStep(w)
      PROVE  ServerInv'
  BY <1>4, ConnectKeeps, WorkerKeeps DEF WorkerStep, Accept
<1>5. ASSUME NEW w \in Workers, NEW c \in Conns, Traffic(w, c)
      PROVE  ServerInv'
  BY <1>5, WorkerKeeps
<1>6. CASE UNCHANGED vars
  BY <1>6 DEF vars, ServerInv, TypeInv, ExitInv, JoinInv, ServedWithinLimit, TcpConns
<1> QED BY <1>1, <1>2, <1>3, <1>4, <1>5, <1>6 DEF Next

LEMMA ServerInvariant == Spec => []ServerInv
BY ServerInit, ServerStep, PTL DEF Spec

-----------------------------------------------------------------------------

\* TcpServer's variables keep their types.
THEOREM TypeCorrect == Spec => []TypeInv
<1>1. ServerInv => TypeInv
  BY DEF ServerInv
<1> QED BY <1>1, ServerInvariant, PTL

\* A worker never serves max_conns_per_io_worker connections at a time, for any
\* number of clients and workers and however connecting and closing interleave.
THEOREM LimitHolds == Spec => []ServedWithinLimit
<1>1. ServerInv => ServedWithinLimit
  BY DEF ServerInv
<1> QED BY <1>1, ServerInvariant, PTL

\* When Serve has returned, every thread it started has ended and every connection
\* that was accepted has been closed.
THEOREM NothingOutlivesServe == Spec => []ReturnedMeansDone
<1>1. ServerInv => ReturnedMeansDone
  BY DEF ServerInv, ExitInv, JoinInv, ReturnedMeansDone
<1> QED BY <1>1, ServerInvariant, PTL

=============================================================================
