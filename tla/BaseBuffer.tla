----------------------------- MODULE BaseBuffer -----------------------------
(***************************************************************************)
(* BaseBuffer (src/src/net/BaseBuffer.cc): a vector of bytes with a read   *)
(* and a write iterator, which TcpConn fills from the socket and drains    *)
(* into it.  When the space behind write_idx is too small, the readable    *)
(* bytes are moved to the front or the vector is reallocated.              *)
(*                                                                         *)
(* The buffer is a record of the vector and the two iterators as offsets;  *)
(* the member functions are functions on that record.                      *)
(***************************************************************************)
EXTENDS Naturals, Sequences

CONSTANTS
    Bytes,      \* the values a byte may have, 0 included
    InitSize,   \* init_size
    ExtraSize,  \* sizeof(extra_buffer) in ReadBytesFromFd
    SslSpace,   \* the space ReadBytesFromSsl makes sure of
    MaxData,    \* bound on the bytes of one Append
    MaxSize     \* bound on the size of the vector

ASSUME ByteAssumption == 0 \in Bytes
ASSUME SizesAssumption ==
    InitSize \in Nat /\ ExtraSize \in Nat /\ SslSpace \in Nat /\ MaxData \in Nat

VARIABLES
    b,
    call        \* history: the bytes the last call put in, the number it was to drop

vars == <<b, call>>

WritableBytes(k) == Len(k.buffer) - k.write_idx
ReadableBytes(k) == k.write_idx - k.read_idx

\* The bytes from read_idx to write_idx.
ToString(k) == SubSeq(k.buffer, k.read_idx + 1, k.write_idx)

Zeros(n) == [i \in 1..n |-> 0]

\* std::copy and std::move of data to offset at of the vector.
Store(vector, at, data) ==
    [i \in 1..Len(vector) |->
        IF at < i /\ i <= at + Len(data) THEN data[i - at] ELSE vector[i]]

\* The space a reallocation asks for.
NewSize(size, len) == LET half == (size * 3) \div 2
                      IN  IF size + len > half THEN size + len ELSE half

MovedToFront(k) ==
    [buffer |-> Store(k.buffer, 0, ToString(k)), read_idx |-> 0, write_idx |-> ReadableBytes(k)]

Reallocated(k, len) ==
    [k EXCEPT !.buffer = @ \o Zeros(NewSize(Len(@), len) - Len(@))]

EnsureWritableSpace(k, len) ==
    IF WritableBytes(k) >= len THEN k
    ELSE IF k.read_idx + WritableBytes(k) >= len THEN MovedToFront(k)
    ELSE Reallocated(k, len)

AppendData(k, data) ==
    IF data = <<>> THEN k
    ELSE LET e == EnsureWritableSpace(k, Len(data))
         IN  [e EXCEPT !.buffer = Store(@, e.write_idx, data),
                       !.write_idx = @ + Len(data)]

DropAllBytes(k) == [k EXCEPT !.read_idx = 0, !.write_idx = 0]

\* Mutant: DropBytes does not look at the number of readable bytes.
DropBytesUnchecked(k, n) == [k EXCEPT !.read_idx = @ + n]

DropBytes(k, n) ==
    IF n >= ReadableBytes(k) THEN DropAllBytes(k) ELSE [k EXCEPT !.read_idx = @ + n]

\* pos lies in the readable bytes.
DropBytesUntil(k, pos) == [k EXCEPT !.read_idx = pos]

Release == [buffer |-> <<>>, read_idx |-> 0, write_idx |-> 0]

\* Mutant: what is in extra_buffer is appended from its second byte on.
ReadBytesFromFdShort(k, data) ==
    LET room == WritableBytes(k)
    IN  IF Len(data) <= room
        THEN [k EXCEPT !.buffer = Store(@, k.write_idx, data), !.write_idx = @ + Len(data)]
        ELSE AppendData([k EXCEPT !.buffer = Store(@, k.write_idx, SubSeq(data, 1, room)),
                                  !.write_idx = Len(k.buffer)],
                        SubSeq(data, room + 2, Len(data)))

\* The bytes read go behind write_idx; what does not fit there comes by way of
\* extra_buffer.
ReadBytesFromFd(k, data) ==
    LET room == WritableBytes(k)
    IN  IF Len(data) <= room
        THEN [k EXCEPT !.buffer = Store(@, k.write_idx, data), !.write_idx = @ + Len(data)]
        ELSE AppendData([k EXCEPT !.buffer = Store(@, k.write_idx, SubSeq(data, 1, room)),
                                  !.write_idx = Len(k.buffer)],
                        SubSeq(data, room + 1, Len(data)))

\* How much readv may return.
ReadLimit(k) ==
    WritableBytes(k) + IF WritableBytes(k) < ExtraSize THEN ExtraSize ELSE 0

-----------------------------------------------------------------------------
(* The operations TcpConn, the codecs and the decoders call.               *)

DataUpTo(n) == UNION {[1..m -> Bytes] : m \in 0..n}

In(data) == [in |-> data, out |-> 0]
Out(n) == [in |-> <<>>, out |-> n]

Init ==
    /\ b = [buffer |-> Zeros(InitSize), read_idx |-> 0, write_idx |-> 0]
    /\ call = Out(0)

Becomes(k) == b' = k /\ Len(k.buffer) <= MaxSize

AppendBytes ==
    \E data \in DataUpTo(MaxData) : Becomes(AppendData(b, data)) /\ call' = In(data)

Drop == \E n \in 0..ReadableBytes(b) + 1 : Becomes(DropBytes(b, n)) /\ call' = Out(n)

DropAll == Becomes(DropAllBytes(b)) /\ call' = Out(ReadableBytes(b))

DropUntil ==
    \E pos \in b.read_idx..b.write_idx :
        Becomes(DropBytesUntil(b, pos)) /\ call' = Out(pos - b.read_idx)

ReleaseAll == Becomes(Release) /\ call' = Out(ReadableBytes(b))

ReadFd ==
    \E data \in DataUpTo(ReadLimit(b)) :
        data # <<>> /\ Becomes(ReadBytesFromFd(b, data)) /\ call' = In(data)

\* A failed read leaves the space that was made.
ReadSsl ==
    LET e == EnsureWritableSpace(b, SslSpace)
    IN  \E data \in DataUpTo(WritableBytes(e)) :
            Becomes(ReadBytesFromFd(e, data)) /\ call' = In(data)

\* WriteBytesToFd and WriteBytesToSsl: n bytes were written.
WriteFd == \E n \in 1..ReadableBytes(b) : Becomes(DropBytes(b, n)) /\ call' = Out(n)

Next ==
    AppendBytes \/ Drop \/ DropAll \/ DropUntil \/ ReleaseAll \/ ReadFd \/ ReadSsl \/ WriteFd

Spec == Init /\ [][Next]_vars

-----------------------------------------------------------------------------
(* Properties.                                                             *)

InRange(k) ==
    /\ k \in [buffer : Seq(Bytes), read_idx : Nat, write_idx : Nat]
    /\ k.read_idx <= k.write_idx /\ k.write_idx <= Len(k.buffer)

\* The vector holds bytes and both iterators lie in it, in their order: no copy
\* passes the end of the vector and ReadableBytes never wraps below zero.
IndexesInRange == InRange(b)

Queue == INSTANCE ByteQueue WITH queue <- ToString(b)

\* The buffer implements a FIFO byte queue: every call puts the very bytes it is
\* given, or that were read, at the back, or drops as many as it is asked to at the
\* front.  Moving the bytes, a reallocation and the detour through extra_buffer
\* neither lose, nor repeat, nor reorder an old or a new byte.
IsByteQueue == Queue!Spec

=============================================================================
