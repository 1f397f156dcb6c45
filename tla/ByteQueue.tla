----------------------------- MODULE ByteQueue -----------------------------
(***************************************************************************)
(* What BaseBuffer promises to TcpConn and to the decoders: the readable   *)
(* bytes are a FIFO queue.  Exactly the bytes that a call hands in go to   *)
(* the back, exactly as many as it asks for leave at the front, and        *)
(* nothing else ever changes what is readable.                             *)
(***************************************************************************)
EXTENDS Naturals, Sequences

CONSTANTS Bytes

VARIABLES
    queue,
    call    \* the last call: the bytes handed in, the number to take out

Init == queue = <<>> /\ call = [in |-> <<>>, out |-> 0]

Put(data) ==
    /\ data \in Seq(Bytes)
    /\ call' = [in |-> data, out |-> 0]
    /\ queue' = queue \o data

\* All bytes, if there are fewer than n.
Take(n) ==
    /\ n \in Nat
    /\ call' = [in |-> <<>>, out |-> n]
    /\ queue' = SubSeq(queue, n + 1, Len(queue))

\* One of the two, with the arguments of the call.
Next == Put(call'.in) \/ Take(call'.out)

Spec == Init /\ [][Next]_<<queue, call>>

=============================================================================
