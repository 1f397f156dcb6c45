--------------------------- MODULE IOWorkerProofs ---------------------------
(***************************************************************************)
(* What the IOWorker module's runs check on one connection, proved for any *)
(* set of connections, any buffer bound and any application.               *)
(*                                                                         *)
(* ConnInv is the inductive invariant of one connection.  TcpConn's        *)
(* functions go through records that break it (the state changes before    *)
(* the epoll interest does), so the lemmas are about whole functions.      *)
(***************************************************************************)
EXTENDS IOWorker, TLAPS

\* One connection is consistent: owned, registered and watched agree, the kernel's
\* interest is Channel::events, and before it is accepted and after it is closed it
\* has no data.
ConnInv(k) ==
    /\ k \in Conn
    /\ k.owned <=> k.registered
    /\ k.registered => k.polled = k.events
    /\ k.owned => /\ k.phase = "open"
                  /\ k.state # "kDisconnected"
                  /\ "R" \in k.events
                  /\ "W" \in k.events <=> k.state = "kConnected" /\ k.unsent > 0
    /\ k.phase = "open" /\ ~k.owned =>
            k.state # "kConnected" /\ k.unsent = 0 /\ k.downs > 0
    /\ k.phase # "open" =>
            /\ k.state = "kConnected" /\ k.unsent = 0 /\ k.downs = 0
            /\ k.events = {} /\ ~k.held

OpenInv(k) == ConnInv(k) /\ k.phase = "open"

USE MaxConnsAssumption, MaxBytesAssumption DEF Ops

\* OnChannelClose, on a connection that is open or already closed.
LEMMA CloseInv ==
    ASSUME NEW k, k \in Conn, k.phase = "open"
    PROVE  /\ OpenInv(OnChannelClose(k))
           /\ ~OnChannelClose(k).owned
<1> DEFINE k1 == [k EXCEPT !.state = "kDisconnected"]
           k2 == RemoveFromPoller(k1)
           k3 == ReleaseBuffers(k2)
           k4 == NotifyDisconnected(k3)
           r == OnChannelClose(k)
<1>1. k1 \in Conn /\ k1.phase = "open" /\ k1.state = "kDisconnected"
  BY DEF Conn
<1>2. r = RemoveFromIOWorker(k4)
  BY DEF OnChannelClose
<1> HIDE DEF k1, r
<1>3. /\ k2 \in Conn /\ k2.phase = "open" /\ k2.state = "kDisconnected"
      /\ ~k2.registered
  BY <1>1 DEF Conn, RemoveFromPoller
<1> HIDE DEF k2
<1>4. /\ k3 \in Conn /\ k3.phase = "open" /\ k3.state = "kDisconnected"
      /\ ~k3.registered /\ k3.unsent = 0
  BY <1>3 DEF Conn, ReleaseBuffers
<1> HIDE DEF k3
<1>5. /\ k4 \in Conn /\ k4.phase = "open" /\ k4.state = "kDisconnected"
      /\ ~k4.registered /\ k4.unsent = 0 /\ k4.downs > 0
  BY <1>4 DEF Conn, NotifyDisconnected
<1> HIDE DEF k4
<1>6. /\ r \in Conn /\ r.phase = "open" /\ r.state = "kDisconnected"
      /\ ~r.registered /\ r.unsent = 0 /\ r.downs > 0 /\ ~r.owned
  BY <1>2, <1>5 DEF Conn, RemoveFromIOWorker
<1>7. OpenInv(r) /\ ~r.owned
  BY <1>6 DEF OpenInv, ConnInv
<1> QED BY <1>7 DEF r

\* Send watches for writing exactly when it put data into the buffer.
LEMMA SendInv ==
    ASSUME NEW k, OpenInv(k)
    PROVE  /\ OpenInv(Send(k))
           /\ Send(k).owned = k.owned
<1>1. CASE k.state # "kConnected" \/ k.unsent = MaxBytes
  BY <1>1 DEF Send
<1>2. CASE k.state = "kConnected" /\ k.unsent # MaxBytes
  <2> DEFINE x == [k EXCEPT !.unsent = k.unsent + 1]
  <2>1. /\ x \in Conn /\ x.unsent > 0 /\ x.owned = k.owned /\ x.owned = TRUE
        /\ x.registered = TRUE /\ x.polled = x.events /\ x.phase = "open"
        /\ x.state = "kConnected" /\ "R" \in x.events
    BY <1>2 DEF OpenInv, ConnInv, Conn
  <2>2. Send(k) = ActivateWriting(x)
    BY <1>2 DEF Send
  <2> HIDE DEF x
  <2>3. CASE "W" \in x.events
    BY <2>1, <2>2, <2>3 DEF OpenInv, ConnInv, ActivateWriting
  <2>4. CASE "W" \notin x.events
    <3> DEFINE y == [x EXCEPT !.events = x.events \union {"W"},
                              !.polled = x.events \union {"W"}]
    <3>1. Send(k) = y
      BY <2>1, <2>2, <2>4 DEF ActivateWriting, UpdateChannel, Conn
    <3>2. y \in Conn /\ y.owned = k.owned
      BY <2>1 DEF Conn
    <3> QED BY <2>1, <3>1, <3>2 DEF OpenInv, ConnInv, Conn
  <2> QED BY <2>3, <2>4
<1> QED BY <1>1, <1>2

\* Shutdown ends with the connection consistent, whether shutdown(2) fails or not.
LEMMA ShutdownInv ==
    ASSUME NEW k, OpenInv(k), NEW r \in Shutdown(k)
    PROVE  OpenInv(r)
<1> DEFINE s == [k EXCEPT !.state = "kShutdown"]
           q == DeactivateWriting(s)
<1>1. s \in Conn /\ s.phase = "open"
  BY DEF OpenInv, ConnInv, Conn
<1>2. q \in Conn /\ q.phase = "open"
  BY <1>1 DEF Conn, DeactivateWriting, UpdateChannel
<1>3. CASE r = [q EXCEPT !.wr = TRUE]
  BY <1>3 DEF OpenInv, ConnInv, Conn, DeactivateWriting, UpdateChannel
<1>4. CASE r = OnChannelClose(q)
  BY <1>2, <1>4, CloseInv
<1> QED BY <1>3, <1>4 DEF Shutdown

\* Whatever the application calls, the connection stays consistent.
LEMMA AppInv ==
    ASSUME NEW k, OpenInv(k), NEW op \in Ops, NEW r \in App(k, op)
    PROVE  OpenInv(r)
<1>1. CASE op = "Send"
  BY <1>1, SendInv DEF App
<1>2. CASE op = "Shutdown"
  BY <1>2, ShutdownInv DEF App
<1>3. CASE op = "ForceClose"
  BY <1>3, CloseInv DEF App, OpenInv, ConnInv
<1>4. CASE op = "Hold"
  <2>1. r = [k EXCEPT !.held = TRUE]
    BY <1>4 DEF App
  <2> QED BY <2>1 DEF OpenInv, ConnInv, Conn
<1>5. CASE op = "none"
  BY <1>5 DEF App
<1> QED BY <1>1, <1>2, <1>3, <1>4, <1>5

\* Reading from the socket changes only the kernel's queue.
LEMMA TakenInv ==
    ASSUME NEW k, OpenInv(k), NEW t \in Taken(k)
    PROVE  OpenInv(t)
BY DEF Taken, OpenInv, ConnInv, Conn

\* OnChannelReadable ends with the connection consistent.
LEMMA ReadInv ==
    ASSUME NEW k, OpenInv(k), NEW r \in OnChannelReadable(k)
    PROVE  OpenInv(r)
<1>1. DataOps \subseteq Ops
  BY OpsAssumption
<1>2. k \in Conn /\ k.phase = "open"
  BY DEF OpenInv, ConnInv
<1>3. \A t \in Taken(k) : OpenInv(t) /\ t \in Conn /\ t.phase = "open"
  BY TakenInv DEF OpenInv, ConnInv
<1>4. CASE r = k
  BY <1>4
<1>5. ASSUME NEW t \in Taken(k), NEW op \in DataOps, r \in App(t, op) PROVE OpenInv(r)
  BY <1>1, <1>3, <1>5, AppInv
<1>6. ASSUME NEW t \in Taken(k) \union {k}, r \in Shutdown(t) PROVE OpenInv(r)
  BY <1>3, <1>6, ShutdownInv
<1>7. ASSUME NEW t \in Taken(k) \union {k}, r = OnChannelClose(t) PROVE OpenInv(r)
  BY <1>2, <1>3, <1>7, CloseInv
<1>8. CASE r \in Taken(k)
  BY <1>3, <1>8
<1>9. CASE k.state # "kConnected"
  BY <1>4, <1>9 DEF OnChannelReadable
<1>10. CASE k.state = "kConnected" /\ encrypted
  <2>1. r \in (UNION {App(t, op) : t \in Taken(k), op \in DataOps})
            \union Taken(k)
            \union (UNION {Shutdown(t) : t \in Taken(k) \union {k}})
            \union {OnChannelClose(t) : t \in Taken(k) \union {k}}
    BY <1>10 DEF OnChannelReadable
  <2>2. \/ \E t \in Taken(k), op \in DataOps : r \in App(t, op)
        \/ r \in Taken(k)
        \/ \E t \in Taken(k) \union {k} : r \in Shutdown(t)
        \/ \E t \in Taken(k) \union {k} : r = OnChannelClose(t)
    BY <2>1, SMTT(20)
  <2> QED BY <2>2, <1>5, <1>6, <1>7, <1>8
<1>11. CASE k.state = "kConnected" /\ ~encrypted
  <2>1. r \in IF k.rcv = 0 THEN {OnChannelClose(k)}
              ELSE UNION {App(t, op) : t \in Taken(k), op \in DataOps}
    BY <1>11 DEF OnChannelReadable
  <2> QED BY <2>1, <1>5, <1>7
<1> QED BY <1>9, <1>10, <1>11

\* So does OnChannelWritable.
LEMMA WriteInv ==
    ASSUME NEW k, OpenInv(k), NEW r \in OnChannelWritable(k)
    PROVE  OpenInv(r)
<1>1. k \in Conn /\ k.phase = "open" /\ (k.state = "kConnected" => k.owned)
  BY DEF OpenInv, ConnInv
<1>2. ASSUME k.state = "kConnected", r \in Written(k) PROVE OpenInv(r)
  <2>1. PICK n \in 1..k.unsent, room \in {"room", "full"} :
            r = LET x == WriteBytes(k, n, room)
                IN  IF x.unsent = 0 THEN DeactivateWriting(x) ELSE x
    BY <1>2 DEF Written
  <2> DEFINE w == [k EXCEPT !.unsent = k.unsent - n]
             x == WriteBytes(k, n, room)
  <2>2. /\ w \in Conn /\ w.unsent = k.unsent - n
        /\ w.owned /\ w.registered /\ w.polled = w.events /\ w.phase = "open"
        /\ w.state = "kConnected" /\ "R" \in w.events /\ "W" \in w.events
    BY <1>1, <1>2 DEF OpenInv, ConnInv, Conn
  <2>3. x = [w EXCEPT !.sndbuf = room]
    BY DEF WriteBytes
  <2> HIDE DEF w, x
  <2>4. /\ x \in Conn /\ x.unsent = k.unsent - n
        /\ x.owned /\ x.registered /\ x.polled = x.events /\ x.phase = "open"
        /\ x.state = "kConnected" /\ "R" \in x.events /\ "W" \in x.events
    BY <2>2, <2>3 DEF Conn
  <2>5. r = IF x.unsent = 0 THEN DeactivateWriting(x) ELSE x
    BY <2>1 DEF x
  <2>6. CASE x.unsent = 0
    <3>1. r = [x EXCEPT !.events = x.events \ {"W"}, !.polled = x.events \ {"W"}]
      BY <2>4, <2>5, <2>6 DEF DeactivateWriting, UpdateChannel, Conn
    <3>2. /\ r \in Conn /\ r.unsent = 0 /\ r.owned /\ r.registered
          /\ r.phase = "open" /\ r.state = "kConnected"
      BY <3>1, <2>4, <2>6 DEF Conn
    <3>3. r.polled = r.events /\ "R" \in r.events /\ "W" \notin r.events
      BY <3>1, <2>4 DEF Conn
    <3> QED BY <3>2, <3>3 DEF OpenInv, ConnInv
  <2>7. CASE x.unsent # 0
    <3>1. r = x /\ x.unsent > 0
      BY <2>4, <2>5, <2>7 DEF Conn
    <3> QED BY <3>1, <2>4 DEF OpenInv, ConnInv
  <2> QED BY <2>6, <2>7
<1>3. CASE r = DeactivateWriting(OnChannelClose(k))
  <2> DEFINE x == OnChannelClose(k)
  <2>1. OpenInv(x) /\ ~x.owned
    BY <1>1, CloseInv
  <2> HIDE DEF x
  <2>2. r = DeactivateWriting(x)
    BY <1>3 DEF x
  <2> QED BY <2>1, <2>2 DEF OpenInv, ConnInv, Conn, DeactivateWriting, UpdateChannel
<1>4. CASE r = NotifyDisconnected(k)
  BY <1>1, <1>4 DEF OpenInv, ConnInv, Conn, NotifyDisconnected
<1>5. CASE r = k
  BY <1>5
<1> QED BY <1>2, <1>3, <1>4, <1>5 DEF OnChannelWritable

\* A connection that has just been accepted is consistent.
LEMMA AcceptedInv ==
    ASSUME NEW k, ConnInv(k), k.phase = "backlog"
    PROVE  OpenInv(Accepted(k)) /\ Accepted(k).owned
<1> DEFINE a == [k EXCEPT !.phase = "open", !.owned = TRUE]
           b == AddToPoller(a)
<1>1. /\ a \in Conn /\ a.phase = "open" /\ a.owned /\ a.events = {}
      /\ a.state = "kConnected" /\ a.unsent = 0
  BY DEF ConnInv, Conn
<1>2. Accepted(k) = ActivateReading(b)
  BY DEF Accepted
<1> HIDE DEF a
<1>3. /\ b \in Conn /\ b.phase = "open" /\ b.owned /\ b.events = {}
      /\ b.state = "kConnected" /\ b.unsent = 0 /\ b.registered
  BY <1>1 DEF AddToPoller, Conn
<1> HIDE DEF b
<1>4. Accepted(k) = [b EXCEPT !.events = {"R"}, !.polled = {"R"}]
  BY <1>2, <1>3 DEF ActivateReading, UpdateChannel, Conn
<1> DEFINE e == [b EXCEPT !.events = {"R"}]
           r == Accepted(k)
<1>5. /\ r \in Conn /\ r.phase = "open" /\ r.owned /\ r.registered
      /\ r.state = "kConnected" /\ r.unsent = 0
  <2>1. /\ e \in Conn /\ e.phase = "open" /\ e.owned /\ e.registered
        /\ e.state = "kConnected" /\ e.unsent = 0
    BY <1>3 DEF Conn
  <2>2. r = [e EXCEPT !.polled = {"R"}]
    BY <1>3, <1>4 DEF Conn
  <2> HIDE DEF e, r
  <2> QED BY <2>1, <2>2 DEF Conn
<1>6. r.events = {"R"} /\ r.polled = {"R"}
  <2>1. r.events = {"R"}
    BY <1>3, <1>4 DEF Conn
  <2>2. r.polled = {"R"}
    BY <1>3, <1>4 DEF Conn
  <2> QED BY <2>1, <2>2
<1> HIDE DEF r
<1>7. OpenInv(r) /\ r.owned
  BY <1>5, <1>6 DEF OpenInv, ConnInv
<1> QED BY <1>7 DEF r

\* The OnConnected callback keeps a new connection consistent.
LEMMA OnConnectedInv ==
    ASSUME NEW k, OpenInv(k), NEW r \in OnConnected(k)
    PROVE  OpenInv(r)
<1>1. ConnectOps \subseteq Ops
  BY OpsAssumption
<1> QED BY <1>1, AppInv, ShutdownInv DEF OnConnected

-----------------------------------------------------------------------------
(* The worker.                                                             *)

\* Every connection is consistent, a popped timer task still holds its
\* connection, and a batch is only open while the loop dispatches it.
WorkerInv ==
    /\ TypeOK
    /\ \A c \in Conns : ConnInv(conn[c])
    /\ \A c \in due : conn[c].held
    /\ \A c \in Conns : batch[c] # {} => conn[c].phase = "open"

\* No connection exists at the start.
LEMMA InitInv == Init => WorkerInv
<1> SUFFICES ASSUME Init PROVE WorkerInv
  OBVIOUS
<1>1. NewConn \in Conn /\ ConnInv(NewConn)
  BY DEF NewConn, Conn, ConnInv
<1> QED BY <1>1 DEF Init, WorkerInv, TypeOK

\* Replacing one connection by a consistent one keeps all of them consistent.
LEMMA UpdateInv ==
    ASSUME conn \in [Conns -> Conn], \A c \in Conns : ConnInv(conn[c]),
           NEW c \in Conns, NEW r, ConnInv(r), conn' = [conn EXCEPT ![c] = r]
    PROVE  /\ conn' \in [Conns -> Conn]
           /\ \A d \in Conns : ConnInv(conn'[d])
           /\ conn'[c] = r
           /\ \A d \in Conns \ {c} : conn'[d] = conn[d]
<1>1. r \in Conn
  BY DEF ConnInv
<1> QED BY <1>1

\* The peers and the kernel keep the invariant.
LEMMA PeerInv ==
    ASSUME WorkerInv, NEW c \in Conns, Peer(c)
    PROVE  WorkerInv'
<1> DEFINE k == conn[c]
<1>0. k \in Conn /\ ConnInv(k) /\ conn \in [Conns -> Conn]
  BY DEF WorkerInv, TypeOK
<1>1. UNCHANGED <<batch, ready, due, pc, wakeup, stopper, encrypted>>
  BY DEF Peer, PeerConnect, PeerSend, PeerClose, PeerReset, PeerAck
<1>2. \E r : /\ ConnInv(r) /\ r.held = k.held
             /\ k.phase = "open" => r.phase = "open"
             /\ conn' = [conn EXCEPT ![c] = r]
  <2>1. CASE PeerConnect(c)
    <3> DEFINE r == [k EXCEPT !.phase = "backlog"]
    <3>1. k.phase = "none" /\ conn' = [conn EXCEPT ![c] = r]
      BY <2>1 DEF PeerConnect
    <3>2. ConnInv(r) /\ r.held = k.held /\ (k.phase = "open" => r.phase = "open")
      BY <1>0, <3>1 DEF ConnInv, Conn
    <3> QED BY <3>1, <3>2
  <2>2. CASE PeerSend(c)
    <3> DEFINE r == [k EXCEPT !.rcv = k.rcv + 1]
    <3>1. k.rcv < MaxBytes /\ conn' = [conn EXCEPT ![c] = r]
      BY <2>2 DEF PeerSend
    <3>2. ConnInv(r) /\ r.held = k.held /\ (k.phase = "open" => r.phase = "open")
      BY <1>0, <3>1 DEF ConnInv, Conn
    <3> QED BY <3>1, <3>2
  <2>3. CASE PeerClose(c)
    <3> DEFINE r == [k EXCEPT !.peer = "fin"]
    <3>1. conn' = [conn EXCEPT ![c] = r]
      BY <2>3 DEF PeerClose
    <3>2. ConnInv(r) /\ r.held = k.held /\ (k.phase = "open" => r.phase = "open")
      BY <1>0 DEF ConnInv, Conn
    <3> QED BY <3>1, <3>2
  <2>4. CASE PeerReset(c)
    <3> DEFINE q == [k EXCEPT !.peer = "rst"]
               r == [q EXCEPT !.rcv = 0]
    <3>1. conn' = [conn EXCEPT ![c] = r]
      BY <1>0, <2>4 DEF PeerReset
    <3>2. ConnInv(q) /\ q.held = k.held /\ (k.phase = "open" => q.phase = "open")
      BY <1>0 DEF ConnInv, Conn
    <3> HIDE DEF q
    <3>3. ConnInv(r) /\ r.held = k.held /\ (k.phase = "open" => r.phase = "open")
      BY <3>2 DEF ConnInv, Conn
    <3> QED BY <3>1, <3>3
  <2>5. CASE PeerAck(c)
    <3> DEFINE r == [k EXCEPT !.sndbuf = "room"]
    <3>1. conn' = [conn EXCEPT ![c] = r]
      BY <2>5 DEF PeerAck
    <3>2. ConnInv(r) /\ r.held = k.held /\ (k.phase = "open" => r.phase = "open")
      BY <1>0 DEF ConnInv, Conn
    <3> QED BY <3>1, <3>2
  <2> QED BY <2>1, <2>2, <2>3, <2>4, <2>5 DEF Peer
<1>3. PICK r : /\ ConnInv(r) /\ r.held = k.held
               /\ k.phase = "open" => r.phase = "open"
               /\ conn' = [conn EXCEPT ![c] = r]
  BY <1>2
<1>4. /\ conn' \in [Conns -> Conn] /\ \A d \in Conns : ConnInv(conn'[d])
      /\ conn'[c] = r /\ \A d \in Conns \ {c} : conn'[d] = conn[d]
  BY <1>0, <1>3, UpdateInv DEF WorkerInv
<1> QED BY <1>1, <1>3, <1>4 DEF WorkerInv, TypeOK

\* Handling one event of a batch keeps the invariant.
LEMMA HandleEventInv ==
    ASSUME WorkerInv, NEW c \in Conns, HandleEvent(c)
    PROVE  WorkerInv'
<1>0. /\ OpenInv(conn[c]) /\ conn[c] \in Conn /\ conn \in [Conns -> Conn]
      /\ \A d \in Conns : ConnInv(conn[d])
  BY DEF WorkerInv, TypeOK, HandleEvent, OpenInv
<1>1. /\ UNCHANGED <<ready, due, wakeup, stopper, encrypted>> /\ due = {}
      /\ batch' = [batch EXCEPT ![c] = {}]
      /\ pc' \in {pc, "faulted"}
  <2>1. /\ UNCHANGED <<ready, due, wakeup, stopper, encrypted>> /\ due = {}
        /\ batch' = [batch EXCEPT ![c] = {}]
    BY DEF HandleEvent, Dispatching
  <2>2. pc' \in {pc, "faulted"}
    BY DEF HandleEvent
  <2> QED BY <2>1, <2>2
<1>2. CASE UNCHANGED conn
  BY <1>1, <1>2 DEF WorkerInv, TypeOK
<1>3. CASE \E r : OpenInv(r) /\ conn' = [conn EXCEPT ![c] = r]
  <2>1. PICK r : OpenInv(r) /\ conn' = [conn EXCEPT ![c] = r]
    BY <1>3
  <2>2. /\ conn' \in [Conns -> Conn] /\ \A d \in Conns : ConnInv(conn'[d])
        /\ conn'[c] = r /\ \A d \in Conns \ {c} : conn'[d] = conn[d]
    BY <1>0, <2>1, UpdateInv DEF OpenInv
  <2> QED BY <1>1, <2>1, <2>2 DEF WorkerInv, TypeOK, OpenInv
<1>4. ASSUME conn' = [conn EXCEPT ![c] = OnChannelClose(conn[c])]
      PROVE  \E r : OpenInv(r) /\ conn' = [conn EXCEPT ![c] = r]
  BY <1>0, <1>4, CloseInv DEF OpenInv
<1>5. ASSUME NEW r \in OnChannelReadable(conn[c]), conn' = [conn EXCEPT ![c] = r]
      PROVE  \E q : OpenInv(q) /\ conn' = [conn EXCEPT ![c] = q]
  BY <1>0, <1>5, ReadInv
<1>6. ASSUME NEW r \in OnChannelWritable(conn[c]), conn' = [conn EXCEPT ![c] = r]
      PROVE  \E q : OpenInv(q) /\ conn' = [conn EXCEPT ![c] = q]
  BY <1>0, <1>6, WriteInv
<1> QED BY <1>2, <1>3, <1>4, <1>5, <1>6 DEF HandleEvent

\* Accepting or refusing a client keeps the invariant.
LEMMA AcceptInv ==
    ASSUME WorkerInv, NEW c \in Conns, OnPeerConnect(c) \/ AcceptFails(c)
    PROVE  WorkerInv'
<1>0. /\ ConnInv(conn[c]) /\ conn[c] \in Conn /\ conn \in [Conns -> Conn]
      /\ conn[c].phase = "backlog" /\ due = {} /\ batch[c] = {}
      /\ \A d \in Conns : ConnInv(conn[d])
  BY DEF WorkerInv, TypeOK, OnPeerConnect, AcceptFails, Dispatching
<1>1. /\ UNCHANGED <<batch, due, wakeup, stopper, encrypted>>
      /\ pc' \in {pc, "faulted"} /\ ready' = ready \ {"acceptor"}
  BY DEF OnPeerConnect, AcceptFails
<1>2. \E r : ConnInv(r) /\ conn' = [conn EXCEPT ![c] = r]
  <2>1. CASE OnPeerConnect(c)
    <3>1. PICK r \in OnConnected(Accepted(conn[c])) : conn' = [conn EXCEPT ![c] = r]
      BY <2>1 DEF OnPeerConnect
    <3>2. OpenInv(Accepted(conn[c]))
      BY <1>0, AcceptedInv
    <3>3. OpenInv(r)
      BY <3>1, <3>2, OnConnectedInv
    <3> QED BY <3>1, <3>3 DEF OpenInv
  <2>2. CASE AcceptFails(c)
    <3>1. PICK phase \in {"backlog", "refused"} :
                conn' = [conn EXCEPT ![c] = [conn[c] EXCEPT !.phase = phase]]
      BY <2>2 DEF AcceptFails
    <3>2. ConnInv([conn[c] EXCEPT !.phase = phase])
      BY <1>0 DEF ConnInv, Conn
    <3> QED BY <3>1, <3>2
  <2> QED BY <2>1, <2>2
<1>3. PICK r : ConnInv(r) /\ conn' = [conn EXCEPT ![c] = r]
  BY <1>2
<1>4. /\ conn' \in [Conns -> Conn] /\ \A d \in Conns : ConnInv(conn'[d])
      /\ conn'[c] = r /\ \A d \in Conns \ {c} : conn'[d] = conn[d]
  BY <1>0, <1>3, UpdateInv
<1> QED BY <1>0, <1>1, <1>4 DEF WorkerInv, TypeOK

\* Running a timer task keeps the invariant, whatever the task does.
LEMMA RunTaskInv ==
    ASSUME WorkerInv, NEW c \in Conns, RunTask(c)
    PROVE  WorkerInv'
<1>0. /\ OpenInv(conn[c]) /\ conn[c] \in Conn /\ conn \in [Conns -> Conn]
      /\ \A d \in Conns : ConnInv(conn[d])
  BY DEF WorkerInv, TypeOK, RunTask, OpenInv, ConnInv
<1>1. PICK op \in TimerOps, keep \in BOOLEAN : \E r \in App(conn[c], op) :
        conn' = [conn EXCEPT ![c] = [r EXCEPT !.held = keep]]
  BY DEF RunTask
<1>2. PICK r \in App(conn[c], op) : conn' = [conn EXCEPT ![c] = [r EXCEPT !.held = keep]]
  BY <1>1
<1>3. op \in Ops
  BY OpsAssumption
<1>4. OpenInv(r)
  BY <1>0, <1>2, <1>3, AppInv
<1>5. OpenInv([r EXCEPT !.held = keep])
  <2>1. CASE keep = TRUE
    BY <1>4, <2>1 DEF OpenInv, ConnInv, Conn
  <2>2. CASE keep = FALSE
    BY <1>4, <2>2 DEF OpenInv, ConnInv, Conn
  <2> QED BY <2>1, <2>2
<1>6. /\ conn' \in [Conns -> Conn] /\ \A d \in Conns : ConnInv(conn'[d])
      /\ conn'[c] = [r EXCEPT !.held = keep]
      /\ \A d \in Conns \ {c} : conn'[d] = conn[d]
  BY <1>0, <1>2, <1>5, UpdateInv DEF OpenInv
<1>7. due' = due \ {c} /\ UNCHANGED <<batch, ready, pc, wakeup, stopper, encrypted>>
  BY DEF RunTask
<1> QED BY <1>5, <1>6, <1>7 DEF WorkerInv, TypeOK, OpenInv

\* Closing a connection when the worker stops keeps the invariant.
LEMMA CloseNextInv ==
    ASSUME WorkerInv, NEW c \in Conns, CloseNext(c)
    PROVE  WorkerInv'
<1>0. /\ OpenInv(conn[c]) /\ conn[c] \in Conn /\ conn \in [Conns -> Conn]
      /\ \A d \in Conns : ConnInv(conn[d])
  BY DEF WorkerInv, TypeOK, CloseNext, OpenInv, ConnInv
<1>1. OpenInv(OnChannelClose(conn[c])) /\ conn' = [conn EXCEPT ![c] = OnChannelClose(conn[c])]
  BY <1>0, CloseInv DEF CloseNext, OpenInv
<1>2. OnChannelClose(conn[c]).held = conn[c].held
  BY <1>0 DEF OnChannelClose, RemoveFromIOWorker, NotifyDisconnected, ReleaseBuffers,
              RemoveFromPoller, Conn
<1>3. /\ conn' \in [Conns -> Conn] /\ \A d \in Conns : ConnInv(conn'[d])
      /\ conn'[c] = OnChannelClose(conn[c])
      /\ \A d \in Conns \ {c} : conn'[d] = conn[d]
  BY <1>0, <1>1, UpdateInv DEF OpenInv
<1>4. UNCHANGED <<batch, ready, due, wakeup, stopper, encrypted>>
      /\ pc' \in {"closing", "waiting", "crashed"}
  BY DEF CloseNext
<1> QED BY <1>1, <1>2, <1>3, <1>4 DEF WorkerInv, TypeOK, OpenInv

\* The loop's own steps and Stop leave the connections alone.
LEMMA ControlInv ==
    ASSUME WorkerInv,
           \/ CheckStop \/ Poll \/ PollInterrupted \/ OnTimeout \/ HandleWakeup
           \/ EndBatch \/ EndClosing \/ LoopReturns \/ Stop
    PROVE  WorkerInv'
<1>1. CASE CheckStop \/ PollInterrupted \/ EndBatch \/ EndClosing \/ LoopReturns
  BY <1>1 DEF WorkerInv, TypeOK, CheckStop, PollInterrupted, EndBatch, EndClosing,
              LoopReturns
<1>2. CASE Poll
  <2>1. /\ UNCHANGED <<conn, due, wakeup, stopper, encrypted>> /\ pc' = "dispatch"
        /\ ready' \subseteq {"acceptor", "timer", "wakeup"}
        /\ batch' = [c \in Conns |-> Triggered(conn[c])]
    BY <1>2 DEF Poll
  <2>2. \A c \in Conns : Triggered(conn[c]) \subseteq Events
    BY DEF Triggered
  <2>3. \A c \in Conns : Triggered(conn[c]) # {} => conn[c].phase = "open"
    BY DEF Triggered, WorkerInv, ConnInv
  <2> QED BY <2>1, <2>2, <2>3 DEF WorkerInv, TypeOK
<1>3. CASE OnTimeout
  BY <1>3 DEF WorkerInv, TypeOK, OnTimeout
<1>4. CASE HandleWakeup
  BY <1>4 DEF WorkerInv, TypeOK, HandleWakeup
<1>5. CASE Stop
  BY <1>5 DEF WorkerInv, TypeOK, Stop, StopStore, StopWakeup
<1> QED BY <1>1, <1>2, <1>3, <1>4, <1>5

\* Every step of the worker, the peers or Stop keeps the invariant.
LEMMA StepInv == WorkerInv /\ [Next]_vars => WorkerInv'
<1> SUFFICES ASSUME WorkerInv, [Next]_vars PROVE WorkerInv'
  OBVIOUS
<1>1. CASE UNCHANGED vars
  BY <1>1 DEF vars, WorkerInv, TypeOK
<1>2. CASE Next
  BY <1>2, ControlInv, PeerInv, HandleEventInv, AcceptInv, RunTaskInv, CloseNextInv
     DEF Next, LoopStep
<1> QED BY <1>1, <1>2

\* WorkerInv holds in every reachable state of every worker.
THEOREM WorkerInvariant == Spec => []WorkerInv
BY InitInv, StepInv, PTL DEF Spec

\* Every variable keeps its shape, for any number of connections.
THEOREM TypeCorrect == Spec => []TypeOK
<1>1. WorkerInv => TypeOK
  BY DEF WorkerInv
<1> QED BY <1>1, WorkerInvariant, PTL

\* tcp_conns and the epoll set hold the same connections (Acceptor::OnPeerConnect
\* and OnChannelClose are the only places that change either).
THEOREM OwnershipMatchesPoller == Spec => []OwnedIffRegistered
<1>1. WorkerInv => OwnedIffRegistered
  BY DEF WorkerInv, ConnInv, OwnedIffRegistered
<1> QED BY <1>1, WorkerInvariant, PTL

\* Data given to Send is always watched for writing, and nothing else is: over
\* Send, Shutdown, OnChannelWritable and OnChannelClose in any order.
THEOREM PollerInterestExact == Spec => []InterestExact
<1>1. WorkerInv => InterestExact
  BY DEF WorkerInv, ConnInv, InterestExact
<1> QED BY <1>1, WorkerInvariant, PTL

\* A TcpConn out of tcp_conns is not connected and holds no data.
THEOREM ClosedConnectionsAreEmpty == Spec => []ClosedHoldsNoData
<1>1. WorkerInv => ClosedHoldsNoData
  BY DEF WorkerInv, ConnInv, ClosedHoldsNoData
<1> QED BY <1>1, WorkerInvariant, PTL

\* A TcpConn leaves tcp_conns only after OnTcpDisconnected.
THEOREM RemovalIsReported == Spec => []NoSilentRemoval
<1>1. WorkerInv => NoSilentRemoval
  BY DEF WorkerInv, ConnInv, NoSilentRemoval
<1> QED BY <1>1, WorkerInvariant, PTL

-----------------------------------------------------------------------------
(* Closing is final.                                                       *)

\* A function of TcpConn that turns the open connection k into r neither
\* reconnects it nor brings it back into tcp_conns.
Final(k, r) ==
    /\ k.state # "kConnected" => r.state # "kConnected"
    /\ ~k.owned => ~r.owned

\* A consistent connection out of tcp_conns has been closed for good.
LEMMA RemovedIsFinal ==
    ASSUME NEW k, NEW r, OpenInv(r), ~r.owned
    PROVE  Final(k, r)
BY DEF Final, OpenInv, ConnInv

\* Shutdown leaves the connection kShutdown, or closes it.
LEMMA ShutdownFinal ==
    ASSUME NEW k, OpenInv(k), NEW r \in Shutdown(k)
    PROVE  Final(k, r)
<1> DEFINE s == [k EXCEPT !.state = "kShutdown"]
           q == DeactivateWriting(s)
<1>1. s \in Conn /\ s.phase = "open" /\ s.state = "kShutdown" /\ s.owned = k.owned
  BY DEF OpenInv, ConnInv, Conn
<1> HIDE DEF s
<1>2. q \in Conn /\ q.phase = "open" /\ q.state = "kShutdown" /\ q.owned = k.owned
  BY <1>1 DEF Conn, DeactivateWriting, UpdateChannel
<1> HIDE DEF q
<1>3. CASE r = [q EXCEPT !.wr = TRUE]
  BY <1>2, <1>3 DEF Conn, Final
<1>4. CASE r = OnChannelClose(q)
  BY <1>2, <1>4, CloseInv, RemovedIsFinal
<1> QED BY <1>3, <1>4 DEF Shutdown, q, s

\* No call of the application reopens a connection.
LEMMA AppFinal ==
    ASSUME NEW k, OpenInv(k), NEW op \in Ops, NEW r \in App(k, op)
    PROVE  Final(k, r)
<1>1. CASE op = "Send"
  <2>1. r = Send(k)
    BY <1>1 DEF App
  <2>2. r.owned = k.owned
    BY <2>1, SendInv
  <2>3. k.state # "kConnected" => r = k
    BY <2>1 DEF Send
  <2> QED BY <2>2, <2>3 DEF Final
<1>2. CASE op = "Shutdown"
  BY <1>2, ShutdownFinal DEF App
<1>3. CASE op = "ForceClose"
  BY <1>3, CloseInv, RemovedIsFinal DEF App, OpenInv, ConnInv
<1>4. CASE op = "Hold"
  <2>1. r = [k EXCEPT !.held = TRUE]
    BY <1>4 DEF App
  <2> QED BY <2>1 DEF OpenInv, ConnInv, Conn, Final
<1>5. CASE op = "none"
  BY <1>5 DEF App, Final
<1> QED BY <1>1, <1>2, <1>3, <1>4, <1>5

\* A step changes one connection at most, and only by functions that are final.
LEMMA StepFinal ==
    ASSUME WorkerInv, [Next]_vars, NEW d \in Conns, conn[d].phase = "open"
    PROVE  Final(conn[d], conn'[d])
<1>0. conn \in [Conns -> Conn] /\ OpenInv(conn[d])
  BY DEF WorkerInv, TypeOK, OpenInv
<1>1. CASE conn'[d] = conn[d]
  BY <1>1 DEF Final
<1>2. ASSUME NEW c \in Conns, Peer(c) PROVE Final(conn[d], conn'[d])
  <2>1. conn'[d].state = conn[d].state /\ conn'[d].owned = conn[d].owned
    BY <1>0, <1>2 DEF Peer, PeerConnect, PeerSend, PeerClose, PeerReset, PeerAck, Conn
  <2> QED BY <2>1 DEF Final
<1>3. ASSUME NEW c \in Conns, HandleEvent(c) PROVE Final(conn[d], conn'[d])
  <2>1. CASE UNCHANGED conn \/ c # d
    BY <1>0, <1>1, <1>3, <2>1 DEF HandleEvent
  <2>2. CASE conn'[d] = OnChannelClose(conn[d])
    BY <1>0, <2>2, CloseInv, RemovedIsFinal DEF OpenInv
  <2>3. CASE conn[d].state = "kConnected"
    BY <1>0, <2>3 DEF OpenInv, ConnInv, Final
  <2>4. CASE conn[d].state # "kConnected" /\ ~UNCHANGED conn /\ c = d
    <3>1. \/ conn' = [conn EXCEPT ![d] = OnChannelClose(conn[d])]
          \/ \E r \in OnChannelReadable(conn[d]) : conn' = [conn EXCEPT ![d] = r]
          \/ \E r \in OnChannelWritable(conn[d]) : conn' = [conn EXCEPT ![d] = r]
      BY <1>3, <2>4 DEF HandleEvent
    <3>2. OnChannelReadable(conn[d]) = {conn[d]} /\ OnChannelWritable(conn[d]) = {conn[d]}
      BY <2>4 DEF OnChannelReadable, OnChannelWritable
    <3> QED BY <1>0, <1>1, <2>2, <3>1, <3>2
  <2> QED BY <2>1, <2>3, <2>4
<1>4. ASSUME NEW c \in Conns, OnPeerConnect(c) \/ AcceptFails(c)
      PROVE  Final(conn[d], conn'[d])
  <2>1. c # d
    BY <1>4 DEF OnPeerConnect, AcceptFails
  <2> QED BY <1>0, <1>1, <1>4, <2>1 DEF OnPeerConnect, AcceptFails
<1>5. ASSUME NEW c \in Conns, RunTask(c) PROVE Final(conn[d], conn'[d])
  <2>1. PICK op \in TimerOps, keep \in BOOLEAN : \E r \in App(conn[c], op) :
            conn' = [conn EXCEPT ![c] = [r EXCEPT !.held = keep]]
    BY <1>5 DEF RunTask
  <2>2. PICK r \in App(conn[c], op) : conn' = [conn EXCEPT ![c] = [r EXCEPT !.held = keep]]
    BY <2>1
  <2>3. CASE c # d
    BY <1>0, <1>1, <2>2, <2>3
  <2>4. CASE c = d
    <3>1. OpenInv(r) /\ Final(conn[d], r)
      BY <1>0, <2>2, <2>4, OpsAssumption, AppInv, AppFinal
    <3>2. conn'[d].state = r.state /\ conn'[d].owned = r.owned
      BY <1>0, <2>2, <2>4, <3>1 DEF OpenInv, ConnInv, Conn
    <3> QED BY <3>1, <3>2 DEF Final
  <2> QED BY <2>3, <2>4
<1>6. ASSUME NEW c \in Conns, CloseNext(c) PROVE Final(conn[d], conn'[d])
  <2>1. conn'[d] = conn[d] \/ conn'[d] = OnChannelClose(conn[d])
    BY <1>0, <1>6 DEF CloseNext
  <2> QED BY <1>0, <1>1, <2>1, CloseInv, RemovedIsFinal DEF OpenInv, ConnInv
<1>7. CASE UNCHANGED conn
  BY <1>1, <1>7
<1>8. CASE \/ CheckStop \/ Poll \/ PollInterrupted \/ OnTimeout \/ HandleWakeup
           \/ EndBatch \/ EndClosing \/ LoopReturns \/ Stop
  BY <1>7, <1>8 DEF CheckStop, Poll, PollInterrupted, OnTimeout, HandleWakeup, EndBatch,
                    EndClosing, LoopReturns, Stop, StopStore, StopWakeup
<1> QED BY <1>2, <1>3, <1>4, <1>5, <1>6, <1>7, <1>8 DEF Next, LoopStep, vars

\* A TcpConn that was shut down or closed never becomes connected again, and a closed
\* one never gets back into tcp_conns or the epoll set, whichever of Send, Shutdown,
\* ForceClose, the handlers and the timer tasks that still hold it run afterwards.
THEOREM ClosingIsFinal == Spec => CloseIsFinal
<1> DEFINE Body ==
        \A c \in Conns :
            /\ conn[c].state # "kConnected" => conn'[c].state # "kConnected"
            /\ conn[c].downs > 0 /\ ~conn[c].owned =>
                  ~conn'[c].owned /\ ~conn'[c].registered
<1>1. WorkerInv /\ [Next]_vars => Body
  <2> SUFFICES ASSUME WorkerInv, [Next]_vars, NEW c \in Conns,
                      conn[c].state # "kConnected" \/ conn[c].downs > 0
               PROVE  /\ conn[c].state # "kConnected" => conn'[c].state # "kConnected"
                      /\ ~conn[c].owned => ~conn'[c].owned /\ ~conn'[c].registered
    OBVIOUS
  <2>1. conn[c].phase = "open"
    BY DEF WorkerInv, ConnInv
  <2>2. Final(conn[c], conn'[c])
    BY <2>1, StepFinal
  <2>3. ConnInv(conn'[c])
    BY StepInv DEF WorkerInv
  <2> QED BY <2>2, <2>3 DEF Final, ConnInv
<1>2. WorkerInv /\ [Next]_vars => [Body]_vars
  BY <1>1
<1> QED BY <1>2, WorkerInvariant, PTL DEF Spec, CloseIsFinal

-----------------------------------------------------------------------------
(* What a batch may still refer to.                                        *)

\* No timer task shuts down or closes the connection it holds.
TimersDoNotClose == TimerOps \subseteq {"none", "Send", "Hold"}

\* A connection that is still to be handled in the batch is owned: its own handler
\* is the only one that closes it.
BatchInv ==
    \A c \in Conns : batch[c] # {} => conn[c].owned /\ pc \in {"dispatch", "faulted"}

\* The calls that do not close leave the ownership alone.
LEMMA AppKeepsOwner ==
    ASSUME NEW k, OpenInv(k), NEW op \in {"none", "Send", "Hold"}, NEW r \in App(k, op)
    PROVE  r.owned = k.owned
<1>1. CASE op = "Send"
  BY <1>1, SendInv DEF App
<1>2. CASE op = "Hold"
  <2>1. r = [k EXCEPT !.held = TRUE]
    BY <1>2 DEF App
  <2> QED BY <2>1 DEF OpenInv, ConnInv, Conn
<1>3. CASE op = "none"
  BY <1>3 DEF App
<1> QED BY <1>1, <1>2, <1>3

\* With such timer tasks no step closes a connection of the batch before its turn.
LEMMA BatchStep ==
    ASSUME TimersDoNotClose
    PROVE  WorkerInv /\ BatchInv /\ [Next]_vars => BatchInv'
<1> SUFFICES ASSUME WorkerInv, BatchInv, [Next]_vars PROVE BatchInv'
  OBVIOUS
<1>0. conn \in [Conns -> Conn] /\ batch \in [Conns -> SUBSET Events]
  BY DEF WorkerInv, TypeOK
<1>1. CASE UNCHANGED vars
  BY <1>0, <1>1 DEF BatchInv, vars
<1>2. ASSUME NEW c \in Conns, Peer(c) PROVE BatchInv'
  <2>1. UNCHANGED <<batch, pc>> /\ \A d \in Conns \ {c} : conn'[d] = conn[d]
    BY <1>0, <1>2 DEF Peer, PeerConnect, PeerSend, PeerClose, PeerReset, PeerAck
  <2>2. conn'[c].owned = conn[c].owned
    BY <1>0, <1>2 DEF Peer, PeerConnect, PeerSend, PeerClose, PeerReset, PeerAck, Conn
  <2> QED BY <1>0, <2>1, <2>2 DEF BatchInv
<1>3. ASSUME NEW c \in Conns, HandleEvent(c) PROVE BatchInv'
  <2>1. pc = "dispatch" /\ pc' \in {"dispatch", "faulted"} /\ batch' = [batch EXCEPT ![c] = {}]
    BY <1>3 DEF HandleEvent, Dispatching
  <2>2. \A d \in Conns \ {c} : conn'[d] = conn[d]
    BY <1>0, <1>3 DEF HandleEvent
  <2> QED BY <1>0, <2>1, <2>2 DEF BatchInv
<1>4. ASSUME NEW c \in Conns, OnPeerConnect(c) \/ AcceptFails(c) PROVE BatchInv'
  <2>1. batch[c] = {} /\ batch' = batch /\ pc = "dispatch" /\ pc' \in {"dispatch", "faulted"}
    BY <1>4 DEF OnPeerConnect, AcceptFails, Dispatching, WorkerInv
  <2>2. \A d \in Conns \ {c} : conn'[d] = conn[d]
    BY <1>0, <1>4 DEF OnPeerConnect, AcceptFails
  <2> QED BY <1>0, <2>1, <2>2 DEF BatchInv
<1>5. ASSUME NEW c \in Conns, RunTask(c) PROVE BatchInv'
  <2>0. PICK op \in TimerOps, keep \in BOOLEAN : \E r \in App(conn[c], op) :
            conn' = [conn EXCEPT ![c] = [r EXCEPT !.held = keep]]
    BY <1>5 DEF RunTask
  <2>1. PICK r \in App(conn[c], op) :
            conn' = [conn EXCEPT ![c] = [r EXCEPT !.held = keep]]
    BY <2>0
  <2>2. OpenInv(conn[c])
    BY <1>5 DEF WorkerInv, RunTask, ConnInv, OpenInv
  <2>3. op \in {"none", "Send", "Hold"}
    BY DEF TimersDoNotClose
  <2>4. r.owned = conn[c].owned /\ r \in Conn
    BY <2>1, <2>2, <2>3, AppKeepsOwner, AppInv DEF OpenInv, ConnInv
  <2>5. conn'[c].owned = conn[c].owned /\ \A d \in Conns \ {c} : conn'[d] = conn[d]
    BY <1>0, <2>1, <2>4 DEF Conn
  <2>6. UNCHANGED <<batch, pc>>
    BY <1>5 DEF RunTask
  <2> QED BY <1>0, <2>5, <2>6 DEF BatchInv
<1>6. ASSUME NEW c \in Conns, CloseNext(c) PROVE BatchInv'
  BY <1>0, <1>6 DEF BatchInv, CloseNext
<1>7. CASE Poll
  <2>1. /\ UNCHANGED conn /\ pc' = "dispatch"
        /\ batch' = [c \in Conns |-> Triggered(conn[c])]
    BY <1>7 DEF Poll
  <2>2. \A c \in Conns : Triggered(conn[c]) # {} => conn[c].owned
    BY <1>0 DEF Triggered, WorkerInv, ConnInv
  <2> QED BY <1>0, <2>1, <2>2 DEF BatchInv
<1>8. CASE CheckStop \/ PollInterrupted \/ EndBatch \/ EndClosing \/ LoopReturns
  BY <1>0, <1>8 DEF BatchInv, CheckStop, PollInterrupted, EndBatch, EndClosing,
                    LoopReturns, Dispatching
<1>9. CASE OnTimeout \/ HandleWakeup \/ Stop
  BY <1>0, <1>9 DEF BatchInv, OnTimeout, HandleWakeup, Stop, StopStore, StopWakeup
<1> QED BY <1>1, <1>2, <1>3, <1>4, <1>5, <1>6, <1>7, <1>8, <1>9
        DEF Next, LoopStep

\* Under that discipline the batch only refers to connections that are owned.
LEMMA BatchInvariant ==
    ASSUME TimersDoNotClose
    PROVE  Spec => []BatchInv
<1>1. Init => BatchInv
  BY DEF Init, BatchInv
<1>2. WorkerInv /\ BatchInv /\ [Next]_vars => BatchInv'
  BY BatchStep
<1> QED BY <1>1, <1>2, WorkerInvariant, PTL DEF Spec

-----------------------------------------------------------------------------
(* OnTcpDisconnected is called once.                                       *)

\* Unless the peer reset it, a connection in tcp_conns was not reported as gone, and
\* no connection was reported twice.
OnceInv(k) == k.peer # "rst" => k.downs < 2 /\ (k.owned => k.downs = 0)

\* An owned connection about which this holds, with which the handlers start.
Live(k) == OpenInv(k) /\ k.owned /\ OnceInv(k)

\* The parts of a connection that OnceInv is about are the same in k and r.
SameReport(k, r) == r.peer = k.peer /\ r.downs = k.downs /\ r.owned = k.owned

LEMMA SameKeepsOnce ==
    ASSUME NEW k, NEW r, OnceInv(k), SameReport(k, r)
    PROVE  OnceInv(r)
BY DEF OnceInv, SameReport

\* OnChannelClose reports once and takes the connection out of tcp_conns.
LEMMA CloseOnce ==
    ASSUME NEW k \in Conn, k.owned, OnceInv(k)
    PROVE  OnceInv(OnChannelClose(k))
<1> DEFINE a == [k EXCEPT !.state = "kDisconnected"]
           b == RemoveFromPoller(a)
           d == ReleaseBuffers(b)
           e == NotifyDisconnected(d)
<1>1. a \in Conn /\ a.peer = k.peer /\ a.downs = k.downs
  BY DEF Conn
<1> HIDE DEF a
<1>2. b \in Conn /\ b.peer = k.peer /\ b.downs = k.downs
  BY <1>1 DEF Conn, RemoveFromPoller
<1> HIDE DEF b
<1>3. d \in Conn /\ d.peer = k.peer /\ d.downs = k.downs
  BY <1>2 DEF Conn, ReleaseBuffers
<1> HIDE DEF d
<1>4. e \in Conn /\ e.peer = k.peer /\ (k.peer # "rst" => e.downs = 1)
  BY <1>3 DEF Conn, NotifyDisconnected, OnceInv
<1> HIDE DEF e
<1>5. OnceInv(RemoveFromIOWorker(e))
  BY <1>4 DEF Conn, RemoveFromIOWorker, OnceInv
<1>6. OnChannelClose(k) = RemoveFromIOWorker(e)
  BY DEF OnChannelClose, e, d, b, a
<1> QED BY <1>5, <1>6

\* Send, and the change of the epoll interest, report nothing.
LEMMA DeactivateSame ==
    ASSUME NEW k \in Conn
    PROVE  DeactivateWriting(k) \in Conn /\ SameReport(k, DeactivateWriting(k))
BY DEF DeactivateWriting, UpdateChannel, Conn, SameReport

LEMMA SendSame ==
    ASSUME NEW k, OpenInv(k)
    PROVE  SameReport(k, Send(k))
<1> DEFINE s == [k EXCEPT !.unsent = @ + 1]
<1>1. CASE k.state # "kConnected" \/ k.unsent = MaxBytes
  BY <1>1 DEF Send, SameReport
<1>2. CASE k.state = "kConnected" /\ k.unsent # MaxBytes
  <2>1. s \in Conn /\ SameReport(k, s)
    BY <1>2 DEF OpenInv, ConnInv, Conn, SameReport
  <2>2. Send(k) = ActivateWriting(s)
    BY <1>2 DEF Send
  <2> HIDE DEF s
  <2>3. SameReport(s, ActivateWriting(s))
    BY <2>1 DEF ActivateWriting, UpdateChannel, Conn, SameReport
  <2> QED BY <2>1, <2>2, <2>3 DEF SameReport
<1> QED BY <1>1, <1>2

\* Shutdown reports only if it closes the connection.
LEMMA ShutdownOnce ==
    ASSUME NEW k, Live(k), NEW r \in Shutdown(k)
    PROVE  OnceInv(r)
<1> DEFINE s == [k EXCEPT !.state = "kShutdown"]
           q == DeactivateWriting(s)
<1>1. s \in Conn /\ SameReport(k, s)
  BY DEF Live, OpenInv, ConnInv, Conn, SameReport
<1> HIDE DEF s
<1>2. q \in Conn /\ q.owned /\ OnceInv(q)
  BY <1>1, DeactivateSame, SameKeepsOnce DEF SameReport, Live
<1> HIDE DEF q
<1>3. CASE r = [q EXCEPT !.wr = TRUE]
  <2>1. SameReport(q, r)
    BY <1>2, <1>3 DEF Conn, SameReport
  <2> QED BY <1>2, <2>1, SameKeepsOnce
<1>4. CASE r = OnChannelClose(q)
  BY <1>2, <1>4, CloseOnce
<1> QED BY <1>3, <1>4 DEF Shutdown, q, s

\* The calls that do not close report nothing.
LEMMA QuietSame ==
    ASSUME NEW k, OpenInv(k), NEW op \in {"none", "Send", "Hold"}, NEW r \in App(k, op)
    PROVE  SameReport(k, r)
<1>1. CASE op = "Send"
  BY <1>1, SendSame DEF App
<1>2. CASE op = "Hold"
  <2>1. r = [k EXCEPT !.held = TRUE]
    BY <1>2 DEF App
  <2> QED BY <2>1 DEF OpenInv, ConnInv, Conn, SameReport
<1>3. CASE op = "none"
  BY <1>3 DEF App, SameReport
<1> QED BY <1>1, <1>2, <1>3

\* Whatever the application calls, a live connection is reported at most once.
LEMMA AppOnce ==
    ASSUME NEW k, Live(k), NEW op \in Ops, NEW r \in App(k, op)
    PROVE  OnceInv(r)
<1>1. CASE op = "Shutdown"
  BY <1>1, ShutdownOnce DEF App
<1>2. CASE op = "ForceClose"
  BY <1>2, CloseOnce DEF App, Live, OpenInv, ConnInv
<1>3. CASE op \in {"none", "Send", "Hold"}
  BY <1>3, QuietSame, SameKeepsOnce DEF Live
<1> QED BY <1>1, <1>2, <1>3

\* So does a read ...
LEMMA ReadOnce ==
    ASSUME NEW k, Live(k), NEW r \in OnChannelReadable(k)
    PROVE  OnceInv(r)
<1>1. ASSUME NEW t \in Taken(k) PROVE Live(t)
  <2>1. OpenInv(t)
    BY TakenInv DEF Live
  <2>2. SameReport(k, t)
    BY DEF Taken, Live, OpenInv, ConnInv, Conn, SameReport
  <2> QED BY <2>1, <2>2, SameKeepsOnce DEF Live, SameReport
<1>2. ASSUME NEW t \in Taken(k) \union {k}
      PROVE  OnceInv(t) /\ OnceInv(OnChannelClose(t)) /\ \A x \in Shutdown(t) : OnceInv(x)
  <2>1. Live(t) /\ t \in Conn
    BY <1>1 DEF Live, OpenInv, ConnInv
  <2> QED BY <2>1, CloseOnce, ShutdownOnce DEF Live
<1>3. ASSUME NEW t \in Taken(k), NEW op \in DataOps, r \in App(t, op)
      PROVE  OnceInv(r)
  BY <1>1, <1>3, AppOnce, OpsAssumption
<1>4. CASE k.state # "kConnected"
  BY <1>4 DEF OnChannelReadable, Live
<1>5. CASE k.state = "kConnected" /\ encrypted
  BY <1>2, <1>3, <1>5 DEF OnChannelReadable
<1>6. CASE k.state = "kConnected" /\ ~encrypted
  BY <1>2, <1>3, <1>6 DEF OnChannelReadable
<1> QED BY <1>4, <1>5, <1>6

\* ... and a write: the report without a close is for a peer that reset.
LEMMA WriteOnce ==
    ASSUME NEW k, Live(k), NEW r \in OnChannelWritable(k)
    PROVE  OnceInv(r)
<1>1. k \in Conn /\ k.owned /\ OnceInv(k)
  BY DEF Live, OpenInv, ConnInv
<1>2. ASSUME r \in Written(k) PROVE OnceInv(r)
  <2>1. PICK n \in 1..k.unsent, room \in {"room", "full"} :
            r = LET x == WriteBytes(k, n, room)
                IN  IF x.unsent = 0 THEN DeactivateWriting(x) ELSE x
    BY <1>2 DEF Written
  <2> DEFINE y == [k EXCEPT !.unsent = @ - n]
             x == WriteBytes(k, n, room)
  <2>a. k.unsent - n \in 0..MaxBytes
    BY <1>1 DEF Conn
  <2>b. y \in Conn /\ SameReport(k, y)
    BY <1>1, <2>a DEF Conn, SameReport
  <2>c. x = [y EXCEPT !.sndbuf = room]
    BY DEF WriteBytes
  <2> HIDE DEF y
  <2>2. x \in Conn /\ SameReport(k, x)
    BY <2>b, <2>c DEF Conn, SameReport
  <2>3. r = x \/ r = DeactivateWriting(x)
    BY <2>1
  <2> HIDE DEF x
  <2> QED BY <1>1, <2>2, <2>3, DeactivateSame, SameKeepsOnce
<1>3. ASSUME r = DeactivateWriting(OnChannelClose(k)) PROVE OnceInv(r)
  <2>1. OnChannelClose(k) \in Conn /\ OnceInv(OnChannelClose(k))
    BY <1>1, CloseInv, CloseOnce DEF Live, OpenInv, ConnInv
  <2> QED BY <1>3, <2>1, DeactivateSame, SameKeepsOnce
<1>4. ASSUME r = NotifyDisconnected(k), k.peer = "rst" PROVE OnceInv(r)
  BY <1>1, <1>4 DEF NotifyDisconnected, Conn, OnceInv
<1> QED BY <1>1, <1>2, <1>3, <1>4 DEF OnChannelWritable

\* A connection that is accepted has not been reported.
LEMMA AcceptedLive ==
    ASSUME NEW k, ConnInv(k), k.phase = "backlog"
    PROVE  Live(Accepted(k))
<1> DEFINE a == [k EXCEPT !.phase = "open", !.owned = TRUE]
           b == AddToPoller(a)
<1>1. a \in Conn /\ a.downs = 0
  BY DEF ConnInv, Conn
<1> HIDE DEF a
<1>2. b \in Conn /\ b.downs = 0
  BY <1>1 DEF AddToPoller, Conn
<1> HIDE DEF b
<1>3. ActivateReading(b).downs = 0
  BY <1>2 DEF ActivateReading, UpdateChannel, Conn
<1>4. Accepted(k) = ActivateReading(b)
  BY DEF Accepted, a, b
<1> QED BY <1>3, <1>4, AcceptedInv DEF Live, OnceInv

\* A step changes one connection, by one of these functions.
LEMMA OnceStep ==
    ASSUME TimersDoNotClose
    PROVE  /\ WorkerInv /\ BatchInv /\ (\A d \in Conns : OnceInv(conn[d])) /\ [Next]_vars
           => \A d \in Conns : OnceInv(conn'[d])
<1> SUFFICES ASSUME WorkerInv, BatchInv, \A d \in Conns : OnceInv(conn[d]), [Next]_vars
             PROVE  \A d \in Conns : OnceInv(conn'[d])
  OBVIOUS
<1>0. conn \in [Conns -> Conn] /\ \A d \in Conns : ConnInv(conn[d])
  BY DEF WorkerInv, TypeOK
<1>1. ASSUME NEW c \in Conns, NEW r, OnceInv(r), conn' = [conn EXCEPT ![c] = r]
      PROVE  \A d \in Conns : OnceInv(conn'[d])
  BY <1>0, <1>1
<1>2. ASSUME NEW c \in Conns, Peer(c) PROVE \A d \in Conns : OnceInv(conn'[d])
  <2>1. \A d \in Conns \ {c} : conn'[d] = conn[d]
    BY <1>0, <1>2 DEF Peer, PeerConnect, PeerSend, PeerClose, PeerReset, PeerAck
  <2>2. /\ conn'[c].owned = conn[c].owned /\ conn'[c].downs = conn[c].downs
        /\ conn[c].peer = "rst" => conn'[c].peer = "rst"
    BY <1>0, <1>2 DEF Peer, PeerConnect, PeerSend, PeerClose, PeerReset, PeerAck, Conn
  <2> QED BY <2>1, <2>2 DEF OnceInv
<1>3. ASSUME NEW c \in Conns, HandleEvent(c) PROVE \A d \in Conns : OnceInv(conn'[d])
  <2>1. Live(conn[c]) /\ conn[c] \in Conn
    BY <1>0, <1>3 DEF HandleEvent, BatchInv, Live, OpenInv, ConnInv
  <2>2. PICK r : /\ conn' = [conn EXCEPT ![c] = r]
                 /\ \/ r = OnChannelClose(conn[c])
                    \/ r \in OnChannelReadable(conn[c]) \/ r \in OnChannelWritable(conn[c])
    BY <1>3, <2>1 DEF HandleEvent, Live, Freed
  <2>3. OnceInv(r)
    BY <2>1, <2>2, CloseOnce, ReadOnce, WriteOnce DEF Live
  <2> QED BY <1>1, <2>2, <2>3
<1>4. ASSUME NEW c \in Conns, OnPeerConnect(c) PROVE \A d \in Conns : OnceInv(conn'[d])
  <2>1. PICK r \in OnConnected(Accepted(conn[c])) : conn' = [conn EXCEPT ![c] = r]
    BY <1>4 DEF OnPeerConnect
  <2>2. Live(Accepted(conn[c]))
    BY <1>0, <1>4, AcceptedLive DEF OnPeerConnect
  <2>3. OnceInv(r)
    BY <2>1, <2>2, ShutdownOnce, AppOnce, OpsAssumption DEF OnConnected
  <2> QED BY <1>1, <2>1, <2>3
<1>5. ASSUME NEW c \in Conns, AcceptFails(c) PROVE \A d \in Conns : OnceInv(conn'[d])
  <2>1. PICK phase \in {"backlog", "refused"} : conn' = [conn EXCEPT ![c].phase = phase]
    BY <1>5 DEF AcceptFails
  <2>2. SameReport(conn[c], conn'[c]) /\ \A d \in Conns \ {c} : conn'[d] = conn[d]
    BY <1>0, <2>1 DEF Conn, SameReport
  <2> QED BY <2>2, SameKeepsOnce
<1>6. ASSUME NEW c \in Conns, RunTask(c) PROVE \A d \in Conns : OnceInv(conn'[d])
  <2>0. PICK op \in TimerOps, keep \in BOOLEAN : \E r \in App(conn[c], op) :
            conn' = [conn EXCEPT ![c] = [r EXCEPT !.held = keep]]
    BY <1>6 DEF RunTask
  <2>1. PICK r \in App(conn[c], op) :
            conn' = [conn EXCEPT ![c] = [r EXCEPT !.held = keep]]
    BY <2>0
  <2>2. OpenInv(conn[c]) /\ op \in {"none", "Send", "Hold"}
    BY <1>6 DEF WorkerInv, RunTask, ConnInv, OpenInv, TimersDoNotClose
  <2>3. OnceInv(r) /\ r \in Conn
    BY <2>1, <2>2, QuietSame, SameKeepsOnce, AppInv DEF OpenInv, ConnInv
  <2>4. OnceInv([r EXCEPT !.held = keep])
    BY <2>3 DEF OnceInv, Conn
  <2> QED BY <1>1, <2>1, <2>4
<1>7. ASSUME NEW c \in Conns, CloseNext(c) PROVE \A d \in Conns : OnceInv(conn'[d])
  <2>1. OnceInv(OnChannelClose(conn[c])) /\ conn' = [conn EXCEPT ![c] = OnChannelClose(conn[c])]
    BY <1>0, <1>7, CloseOnce DEF CloseNext
  <2> QED BY <1>1, <2>1
<1>8. CASE \/ UNCHANGED vars \/ CheckStop \/ Poll \/ PollInterrupted \/ OnTimeout \/ HandleWakeup
           \/ EndBatch \/ EndClosing \/ LoopReturns \/ Stop
  BY <1>8 DEF vars, CheckStop, Poll, PollInterrupted, OnTimeout, HandleWakeup, EndBatch,
              EndClosing, LoopReturns, Stop, StopStore, StopWakeup
<1> QED BY <1>2, <1>3, <1>4, <1>5, <1>6, <1>7, <1>8 DEF Next, LoopStep

\* Unless the peer resets the connection, OnTcpDisconnected is called at most once
\* for it, with or without a rate limiter and wherever the callbacks close it, as
\* long as no timer task does.
THEOREM DisconnectedAtMostOnce ==
    ASSUME TimersDoNotClose
    PROVE  Spec => []DisconnectedOnce
<1> DEFINE Once == \A d \in Conns : OnceInv(conn[d])
<1>1. Init => Once
  BY DEF Init, NewConn, OnceInv
<1>2. WorkerInv /\ BatchInv /\ Once /\ [Next]_vars => Once'
  BY OnceStep
<1>3. Once => DisconnectedOnce
  BY DEF OnceInv, DisconnectedOnce
<1>4. Spec => []BatchInv
  BY BatchInvariant
<1> QED BY <1>1, <1>2, <1>3, <1>4, WorkerInvariant, PTL DEF Spec

=============================================================================
