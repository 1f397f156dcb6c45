-------------------------- MODULE BaseBufferProofs --------------------------
(***************************************************************************)
(* BaseBuffer implements ByteQueue for every initial size and every amount *)
(* of data.                                                                *)
(***************************************************************************)
EXTENDS BaseBuffer, SequenceTheorems, TLAPS

\* Copying data into the vector changes the bytes it covers and no others.
LEMMA StoreData ==
    ASSUME NEW v \in Seq(Bytes), NEW at \in Nat, NEW data \in Seq(Bytes),
           at + Len(data) <= Len(v)
    PROVE  /\ Store(v, at, data) \in Seq(Bytes)
           /\ Len(Store(v, at, data)) = Len(v)
           /\ \A i \in 1..Len(v) :
                Store(v, at, data)[i] =
                    IF at < i /\ i <= at + Len(data) THEN data[i - at] ELSE v[i]
<1>1. Len(v) \in Nat /\ Len(data) \in Nat
    OBVIOUS
<1>2. \A i \in 1..Len(v) : v[i] \in Bytes
    BY ElementOfSeq
<1>3. \A i \in 1..Len(v) : at < i /\ i <= at + Len(data) => data[i - at] \in Bytes
    BY <1>1, ElementOfSeq
<1>4. Store(v, at, data) \in [1..Len(v) -> Bytes]
    BY <1>2, <1>3 DEF Store
<1>5. Store(v, at, data) \in Seq(Bytes)
    BY <1>1, <1>4, SeqDef
<1>6. Len(Store(v, at, data)) = Len(v)
    BY <1>1, <1>4, <1>5
<1> QED
    BY <1>5, <1>6 DEF Store

\* What is readable, byte by byte.
LEMMA Readable ==
    ASSUME NEW k, InRange(k)
    PROVE  /\ ToString(k) \in Seq(Bytes)
           /\ Len(ToString(k)) = k.write_idx - k.read_idx
           /\ \A i \in 1..(k.write_idx - k.read_idx) :
                ToString(k)[i] = k.buffer[k.read_idx + i]
<1>1. /\ k.buffer \in Seq(Bytes) /\ k.read_idx \in Nat /\ k.write_idx \in Nat
      /\ k.read_idx <= k.write_idx /\ k.write_idx <= Len(k.buffer)
    BY DEF InRange
<1> DEFINE m == k.read_idx + 1
           n == k.write_idx
<1>2. m \in Int /\ n \in Int /\ \A i \in m..n : k.buffer[i] \in Bytes
    BY <1>1, ElementOfSeq
<1>3. /\ SubSeq(k.buffer, m, n) \in Seq(Bytes)
      /\ Len(SubSeq(k.buffer, m, n)) = IF m <= n THEN n - m + 1 ELSE 0
      /\ \A i \in 1..(n - m + 1) : SubSeq(k.buffer, m, n)[i] = k.buffer[m + i - 1]
    <2> HIDE DEF m, n
    <2> QED
        BY <1>2, SubSeqProperties
<1>4. ToString(k) = SubSeq(k.buffer, m, n)
    BY DEF ToString
<1>5. Len(ToString(k)) = k.write_idx - k.read_idx
    BY <1>1, <1>3, <1>4
<1>6. ASSUME NEW i \in 1..(k.write_idx - k.read_idx)
      PROVE  ToString(k)[i] = k.buffer[k.read_idx + i]
    <2>1. i \in 1..(n - m + 1) /\ m + i - 1 = k.read_idx + i
        BY <1>1
    <2> QED
        BY <1>3, <1>4, <2>1
<1> QED
    BY <1>3, <1>4, <1>5, <1>6

\* Two buffers with the same readable bytes, offset by offset, read the same.
LEMMA SameReadable ==
    ASSUME NEW k, NEW j, InRange(k), InRange(j),
           j.write_idx - j.read_idx = k.write_idx - k.read_idx,
           \A i \in 1..(k.write_idx - k.read_idx) :
                j.buffer[j.read_idx + i] = k.buffer[k.read_idx + i]
    PROVE  ToString(j) = ToString(k)
<1>1. ToString(k) \in Seq(Bytes) /\ ToString(j) \in Seq(Bytes)
    BY Readable
<1>2. Len(ToString(j)) = Len(ToString(k))
    BY Readable
<1>3. \A i \in 1..Len(ToString(j)) : ToString(j)[i] = ToString(k)[i]
    BY Readable
<1> QED
    BY <1>1, <1>2, <1>3, SeqEqual

\* Making space keeps the readable bytes, whether they are moved or copied.
LEMMA SpaceKeepsBytes ==
    ASSUME NEW k, InRange(k), NEW len \in Nat
    PROVE  LET e == EnsureWritableSpace(k, len)
           IN  /\ InRange(e)
               /\ ToString(e) = ToString(k)
               /\ WritableBytes(e) >= len
<1> DEFINE e == EnsureWritableSpace(k, len)
<1>1. /\ k.buffer \in Seq(Bytes) /\ k.read_idx \in Nat /\ k.write_idx \in Nat
      /\ k.read_idx <= k.write_idx /\ k.write_idx <= Len(k.buffer)
      /\ Len(k.buffer) \in Nat
    BY DEF InRange
<1>2. CASE WritableBytes(k) >= len
    BY <1>2 DEF EnsureWritableSpace
<1>3. CASE ~(WritableBytes(k) >= len) /\ k.read_idx + WritableBytes(k) >= len
    <2>1. e = MovedToFront(k)
        BY <1>3 DEF EnsureWritableSpace
    <2>2. /\ ToString(k) \in Seq(Bytes)
          /\ Len(ToString(k)) = k.write_idx - k.read_idx
          /\ \A i \in 1..(k.write_idx - k.read_idx) :
                ToString(k)[i] = k.buffer[k.read_idx + i]
        BY Readable
    <2>3. /\ Store(k.buffer, 0, ToString(k)) \in Seq(Bytes)
          /\ Len(Store(k.buffer, 0, ToString(k))) = Len(k.buffer)
          /\ \A i \in 1..Len(k.buffer) :
                Store(k.buffer, 0, ToString(k))[i] =
                    IF 0 < i /\ i <= 0 + Len(ToString(k)) THEN ToString(k)[i - 0]
                    ELSE k.buffer[i]
        <3>1. 0 \in Nat /\ 0 + Len(ToString(k)) <= Len(k.buffer)
            BY <1>1, <2>2
        <3> HIDE DEF e
        <3> QED
            BY <1>1, <2>2, <3>1, StoreData
    <2>4. /\ e.buffer = Store(k.buffer, 0, ToString(k))
          /\ e.read_idx = 0 /\ e.write_idx = k.write_idx - k.read_idx
          /\ e \in [buffer : Seq(Bytes), read_idx : Nat, write_idx : Nat]
        BY <1>1, <2>1, <2>3 DEF MovedToFront, ReadableBytes
    <2> HIDE DEF e
    <2>5. InRange(e)
        BY <1>1, <2>3, <2>4 DEF InRange
    <2>6. \A i \in 1..(k.write_idx - k.read_idx) :
            e.buffer[e.read_idx + i] = k.buffer[k.read_idx + i]
        BY <1>1, <2>2, <2>3, <2>4
    <2>7. ToString(e) = ToString(k)
        <3>1. e.write_idx - e.read_idx = k.write_idx - k.read_idx
            BY <1>1, <2>4
        <3> QED
            BY <2>5, <2>6, <3>1, SameReadable
    <2>8. WritableBytes(e) >= len
        BY <1>1, <1>3, <2>3, <2>4 DEF WritableBytes
    <2> QED
        BY <2>5, <2>7, <2>8 DEF e
<1>4. CASE ~(WritableBytes(k) >= len) /\ ~(k.read_idx + WritableBytes(k) >= len)
    <2>1. e = Reallocated(k, len)
        BY <1>4 DEF EnsureWritableSpace
    <2> DEFINE size == Len(k.buffer)
               more == NewSize(size, len) - size
    <2>2. NewSize(size, len) \in Nat /\ NewSize(size, len) >= size + len
        <3>1. size \in Nat
            BY <1>1
        <3>2. \A x \in Nat : (x * 3) \div 2 \in Nat
            OBVIOUS
        <3> HIDE DEF size
        <3> QED
            BY <3>1, <3>2 DEF NewSize
    <2>3. more \in Nat /\ more >= len
        BY <1>1, <2>2
    <2> HIDE DEF more
    <2>4. Zeros(more) \in [1..more -> Bytes]
        BY ByteAssumption DEF Zeros
    <2>5. Zeros(more) \in Seq(Bytes) /\ Len(Zeros(more)) = more
        BY <2>3, <2>4, SeqDef
    <2>6. /\ k.buffer \o Zeros(more) \in Seq(Bytes)
          /\ Len(k.buffer \o Zeros(more)) = size + more
          /\ \A i \in 1..(size + more) : (k.buffer \o Zeros(more))[i] =
                IF i <= size THEN k.buffer[i] ELSE Zeros(more)[i - size]
        <3>1. /\ k.buffer \o Zeros(more) \in Seq(Bytes)
              /\ Len(k.buffer \o Zeros(more)) = Len(k.buffer) + Len(Zeros(more))
              /\ \A i \in 1..(Len(k.buffer) + Len(Zeros(more))) :
                    (k.buffer \o Zeros(more))[i] =
                        IF i <= Len(k.buffer) THEN k.buffer[i]
                        ELSE Zeros(more)[i - Len(k.buffer)]
            BY <1>1, <2>5, ConcatProperties
        <3> QED
            BY <2>5, <3>1
    <2>7. /\ e.buffer = k.buffer \o Zeros(more)
          /\ e.read_idx = k.read_idx /\ e.write_idx = k.write_idx
          /\ e \in [buffer : Seq(Bytes), read_idx : Nat, write_idx : Nat]
        BY <2>1, <2>6 DEF Reallocated, InRange, more
    <2> HIDE DEF e
    <2>8. InRange(e)
        BY <1>1, <2>3, <2>6, <2>7 DEF InRange
    <2>9. \A i \in 1..(k.write_idx - k.read_idx) :
            e.buffer[e.read_idx + i] = k.buffer[k.read_idx + i]
        <3> SUFFICES ASSUME NEW i \in 1..(k.write_idx - k.read_idx)
                     PROVE  e.buffer[e.read_idx + i] = k.buffer[k.read_idx + i]
            OBVIOUS
        <3>1. k.read_idx + i \in 1..(size + more) /\ k.read_idx + i <= size
            BY <1>1, <2>3
        <3> QED
            BY <2>6, <2>7, <3>1
    <2>10. ToString(e) = ToString(k)
        BY <2>7, <2>8, <2>9, SameReadable
    <2>11. WritableBytes(e) >= len
        BY <1>1, <2>3, <2>6, <2>7 DEF WritableBytes
    <2> QED
        BY <2>8, <2>10, <2>11 DEF e
<1> QED
    BY <1>2, <1>3, <1>4

\* Data stored at write_idx, where there is room for it, is readable behind the rest.
LEMMA StoredBehind ==
    ASSUME NEW k, InRange(k), NEW data \in Seq(Bytes), Len(data) <= WritableBytes(k)
    PROVE  LET j == [k EXCEPT !.buffer = Store(@, k.write_idx, data),
                              !.write_idx = @ + Len(data)]
           IN  InRange(j) /\ ToString(j) = ToString(k) \o data
<1> DEFINE j == [k EXCEPT !.buffer = Store(@, k.write_idx, data),
                          !.write_idx = @ + Len(data)]
           old == k.write_idx - k.read_idx
<1>1. /\ k.buffer \in Seq(Bytes) /\ k.read_idx \in Nat /\ k.write_idx \in Nat
      /\ k.read_idx <= k.write_idx /\ k.write_idx <= Len(k.buffer)
      /\ Len(k.buffer) \in Nat /\ Len(data) \in Nat
      /\ k.write_idx + Len(data) <= Len(k.buffer)
    BY DEF InRange, WritableBytes
<1>2. /\ Store(k.buffer, k.write_idx, data) \in Seq(Bytes)
      /\ Len(Store(k.buffer, k.write_idx, data)) = Len(k.buffer)
      /\ \A i \in 1..Len(k.buffer) :
            Store(k.buffer, k.write_idx, data)[i] =
                IF k.write_idx < i /\ i <= k.write_idx + Len(data)
                THEN data[i - k.write_idx] ELSE k.buffer[i]
    BY <1>1, StoreData
<1>3. /\ j.buffer = Store(k.buffer, k.write_idx, data)
      /\ j.read_idx = k.read_idx /\ j.write_idx = k.write_idx + Len(data)
      /\ j \in [buffer : Seq(Bytes), read_idx : Nat, write_idx : Nat]
    <2>1. k \in [buffer : Seq(Bytes), read_idx : Nat, write_idx : Nat]
        BY DEF InRange
    <2>2. /\ j.buffer = Store(k.buffer, k.write_idx, data)
          /\ j.read_idx = k.read_idx /\ j.write_idx = k.write_idx + Len(data)
        BY <2>1
    <2>3. k.write_idx + Len(data) \in Nat
        BY <1>1
    <2> QED
        BY <1>2, <2>1, <2>2, <2>3
<1> HIDE DEF j
<1>4. InRange(j)
    BY <1>1, <1>2, <1>3 DEF InRange
<1>5. /\ ToString(k) \in Seq(Bytes) /\ Len(ToString(k)) = old
      /\ \A i \in 1..old : ToString(k)[i] = k.buffer[k.read_idx + i]
    BY Readable
<1>6. /\ ToString(j) \in Seq(Bytes) /\ Len(ToString(j)) = old + Len(data)
      /\ \A i \in 1..(old + Len(data)) : ToString(j)[i] = j.buffer[j.read_idx + i]
    <2>1. j.write_idx - j.read_idx = old + Len(data)
        BY <1>1, <1>3
    <2> QED
        BY <1>4, <2>1, Readable
<1>7. /\ ToString(k) \o data \in Seq(Bytes)
      /\ Len(ToString(k) \o data) = old + Len(data)
      /\ \A i \in 1..(old + Len(data)) : (ToString(k) \o data)[i] =
            IF i <= old THEN ToString(k)[i] ELSE data[i - old]
    <2> DEFINE s == ToString(k)
    <2>1. s \in Seq(Bytes) /\ Len(s) = old
        BY <1>5
    <2> HIDE DEF s, old
    <2>2. /\ s \o data \in Seq(Bytes)
          /\ Len(s \o data) = Len(s) + Len(data)
          /\ \A i \in 1..(Len(s) + Len(data)) : (s \o data)[i] =
                IF i <= Len(s) THEN s[i] ELSE data[i - Len(s)]
        BY <2>1, ConcatProperties
    <2> QED
        BY <2>1, <2>2, Zenon DEF s
<1>8. \A i \in 1..(old + Len(data)) : ToString(j)[i] = (ToString(k) \o data)[i]
    <2> SUFFICES ASSUME NEW i \in 1..(old + Len(data))
                 PROVE  ToString(j)[i] = (ToString(k) \o data)[i]
        OBVIOUS
    <2>1. ToString(j)[i] = Store(k.buffer, k.write_idx, data)[k.read_idx + i]
        BY <1>3, <1>6
    <2>2. k.read_idx + i \in 1..Len(k.buffer) /\ k.read_idx + i <= k.write_idx + Len(data)
        BY <1>1
    <2> HIDE DEF old
    <2>3. CASE i <= old
        <3>1. ~(k.write_idx < k.read_idx + i) /\ i \in 1..old
            BY <1>1, <2>3 DEF old
        <3>2. Store(k.buffer, k.write_idx, data)[k.read_idx + i] = k.buffer[k.read_idx + i]
            BY <1>2, <2>2, <3>1
        <3> QED
            BY <1>5, <1>7, <2>1, <2>3, <3>1, <3>2
    <2>4. CASE i > old
        <3>1. Store(k.buffer, k.write_idx, data)[k.read_idx + i] = data[i - old]
            <4> DEFINE x == k.read_idx + i
            <4>1. /\ x \in 1..Len(k.buffer) /\ k.write_idx < x /\ x <= k.write_idx + Len(data)
                  /\ x - k.write_idx = i - old
                BY <1>1, <2>2, <2>4 DEF old
            <4> HIDE DEF x
            <4>2. Store(k.buffer, k.write_idx, data)[x] = data[x - k.write_idx]
                BY <1>2, <4>1
            <4> QED
                BY <4>1, <4>2 DEF x
        <3>2. ~(i <= old)
            BY <1>1, <2>4 DEF old
        <3> QED
            BY <1>7, <2>1, <3>1, <3>2
    <2>5. i <= old \/ i > old
        BY <1>1 DEF old
    <2> QED
        BY <2>3, <2>4, <2>5
<1>9. ToString(j) = ToString(k) \o data
    BY <1>6, <1>7, <1>8, SeqEqual
<1> QED
    BY <1>4, <1>9 DEF j

\* BaseBuffer::Append puts exactly its data behind what was readable.
THEOREM AppendIsConcatenation ==
    ASSUME NEW k, InRange(k), NEW data \in Seq(Bytes)
    PROVE  /\ InRange(AppendData(k, data))
           /\ ToString(AppendData(k, data)) = ToString(k) \o data
<1>1. CASE data = <<>>
    <2>1. ToString(k) \o <<>> = ToString(k)
        BY Readable, ConcatEmptySeq
    <2> QED
        BY <1>1, <2>1 DEF AppendData
<1>2. CASE data # <<>>
    <2> DEFINE e == EnsureWritableSpace(k, Len(data))
    <2>1. Len(data) \in Nat
        OBVIOUS
    <2>2. InRange(e) /\ ToString(e) = ToString(k) /\ WritableBytes(e) >= Len(data)
        BY <2>1, SpaceKeepsBytes
    <2>3. AppendData(k, data) = [e EXCEPT !.buffer = Store(@, e.write_idx, data),
                                          !.write_idx = @ + Len(data)]
        BY <1>2 DEF AppendData
    <2> HIDE DEF e
    <2>4. Len(data) <= WritableBytes(e)
        BY <2>1, <2>2 DEF WritableBytes, InRange
    <2> QED
        BY <2>2, <2>3, <2>4, StoredBehind
<1> QED
    BY <1>1, <1>2

\* ReadBytesFromFd puts exactly the bytes read behind what was readable, also when
\* some of them come by way of extra_buffer.
THEOREM ReadIsConcatenation ==
    ASSUME NEW k, InRange(k), NEW data \in Seq(Bytes)
    PROVE  /\ InRange(ReadBytesFromFd(k, data))
           /\ ToString(ReadBytesFromFd(k, data)) = ToString(k) \o data
<1> DEFINE room == WritableBytes(k)
           first == SubSeq(data, 1, room)
           second == SubSeq(data, room + 1, Len(data))
           full == [k EXCEPT !.buffer = Store(@, k.write_idx, first),
                             !.write_idx = Len(k.buffer)]
<1>1. room \in Nat /\ Len(data) \in Nat /\ Len(k.buffer) \in Nat
      /\ k.write_idx + room = Len(k.buffer)
    BY DEF WritableBytes, InRange
<1>2. CASE Len(data) <= room
    BY <1>2, StoredBehind DEF ReadBytesFromFd
<1>3. CASE ~(Len(data) <= room)
    <2>1. ReadBytesFromFd(k, data) = AppendData(full, second)
        BY <1>3 DEF ReadBytesFromFd
    <2>2. first \in Seq(Bytes) /\ Len(first) = room /\ second \in Seq(Bytes)
        <3>1. /\ \A i \in 1..room : data[i] \in Bytes
              /\ \A i \in (room + 1)..Len(data) : data[i] \in Bytes
            BY <1>1, <1>3, ElementOfSeq
        <3> HIDE DEF room
        <3> QED
            BY <1>1, <3>1, SubSeqProperties
    <2>3. full = [k EXCEPT !.buffer = Store(@, k.write_idx, first),
                           !.write_idx = @ + Len(first)]
        BY <1>1, <2>2 DEF InRange
    <2>4. InRange(full) /\ ToString(full) = ToString(k) \o first
        <3>1. Len(first) <= WritableBytes(k)
            BY <1>1, <2>2
        <3> HIDE DEF full, first
        <3> QED
            BY <2>2, <2>3, <3>1, StoredBehind
    <2>5. first \o second = data
        <3>1. 1 \in 1..(Len(data) + 1) /\ room \in (1 - 1)..Len(data) /\ Len(data) \in room..Len(data)
            BY <1>1, <1>3
        <3>2. first \o second = SubSeq(data, 1, Len(data))
            BY <3>1, ConcatAdjacentSubSeq
        <3> QED
            BY <3>2, SubSeqFull
    <2> HIDE DEF full, first, second
    <2>6. (ToString(k) \o first) \o second = ToString(k) \o data
        <3>1. ToString(k) \in Seq(Bytes)
            BY Readable
        <3>2. (ToString(k) \o first) \o second = ToString(k) \o (first \o second)
            BY <2>2, <3>1, ConcatAssociative
        <3> QED
            BY <2>5, <3>2
    <2> QED
        BY <2>1, <2>2, <2>4, <2>6, AppendIsConcatenation
<1> QED
    BY <1>2, <1>3

-----------------------------------------------------------------------------
(* The operations, as steps of the byte queue.                             *)

\* Bytes leave at the front: a larger read_idx, everything else unchanged.
LEMMA SkipIsTake ==
    ASSUME IndexesInRange, NEW n \in 0..ReadableBytes(b),
           b' = [b EXCEPT !.read_idx = @ + n], call' = Out(n)
    PROVE  IndexesInRange' /\ Queue!Next
<1> DEFINE old == ToString(b)
           len == b.write_idx - b.read_idx
<1>1. /\ b.buffer \in Seq(Bytes) /\ b.read_idx \in Nat /\ b.write_idx \in Nat
      /\ b.read_idx <= b.write_idx /\ b.write_idx <= Len(b.buffer)
      /\ b \in [buffer : Seq(Bytes), read_idx : Nat, write_idx : Nat]
      /\ n \in Nat /\ n <= len /\ len \in Nat
    BY DEF IndexesInRange, InRange, ReadableBytes
<1>2. /\ b'.buffer = b.buffer /\ b'.read_idx = b.read_idx + n /\ b'.write_idx = b.write_idx
      /\ b' \in [buffer : Seq(Bytes), read_idx : Nat, write_idx : Nat]
    BY <1>1
<1>3. IndexesInRange'
    BY <1>1, <1>2 DEF IndexesInRange, InRange
<1>4. old \in Seq(Bytes) /\ Len(old) = len /\ \A i \in 1..len : old[i] = b.buffer[b.read_idx + i]
    BY Readable DEF IndexesInRange
<1>5. /\ ToString(b)' \in Seq(Bytes) /\ Len(ToString(b)') = len - n
      /\ \A i \in 1..(len - n) : ToString(b)'[i] = b.buffer[b.read_idx + n + i]
    <2>1. /\ ToString(b') \in Seq(Bytes)
          /\ Len(ToString(b')) = b'.write_idx - b'.read_idx
          /\ \A i \in 1..(b'.write_idx - b'.read_idx) : ToString(b')[i] = b'.buffer[b'.read_idx + i]
        BY <1>3, Readable DEF IndexesInRange
    <2>2. b'.write_idx - b'.read_idx = len - n
        BY <1>1, <1>2
    <2> QED
        BY <1>2, <2>1, <2>2
<1>6. ToString(b)' = SubSeq(old, n + 1, Len(old))
    <2> DEFINE new == ToString(b)'
    <2> HIDE DEF old, new, len
    <2>1. \A i \in (n + 1)..len : old[i] \in Bytes
        BY <1>1, <1>4, ElementOfSeq
    <2>2. /\ SubSeq(old, n + 1, len) \in Seq(Bytes)
          /\ Len(SubSeq(old, n + 1, len)) = IF n + 1 <= len THEN len - (n + 1) + 1 ELSE 0
          /\ \A i \in 1..(len - (n + 1) + 1) : SubSeq(old, n + 1, len)[i] = old[n + 1 + i - 1]
        BY <1>1, <2>1, SubSeqProperties
    <2>3. Len(new) = Len(SubSeq(old, n + 1, len))
        BY <1>1, <1>5, <2>2 DEF new
    <2>4. \A i \in 1..Len(new) : new[i] = SubSeq(old, n + 1, len)[i]
        <3> SUFFICES ASSUME NEW i \in 1..Len(new)
                     PROVE  new[i] = SubSeq(old, n + 1, len)[i]
            OBVIOUS
        <3>0. Len(new) = len - n
            BY <1>5 DEF new
        <3>1. /\ i \in 1..(len - n) /\ i \in 1..(len - (n + 1) + 1) /\ n + i \in 1..len
              /\ n + 1 + i - 1 = n + i /\ b.read_idx + n + i = b.read_idx + (n + i)
            BY <1>1, <3>0
        <3>2. new[i] = b.buffer[b.read_idx + n + i]
            BY <1>5, <3>1 DEF new
        <3>3. SubSeq(old, n + 1, len)[i] = old[n + i]
            BY <2>2, <3>1
        <3> QED
            BY <1>4, <3>1, <3>2, <3>3
    <2>5. new \in Seq(Bytes)
        BY <1>5 DEF new
    <2>6. new = SubSeq(old, n + 1, len)
        BY <2>2, <2>3, <2>4, <2>5, SeqEqual
    <2> QED
        BY <1>4, <2>6 DEF new
<1>7. call'.out = n /\ call' = [in |-> <<>>, out |-> n]
    BY DEF Out
<1> QED
    BY <1>1, <1>3, <1>6, <1>7 DEF Queue!Next, Queue!Take

\* Dropping as many bytes as there are, or more, is taking everything.
LEMMA EmptyIsTake ==
    ASSUME IndexesInRange, IndexesInRange', b'.write_idx = b'.read_idx,
           NEW n \in Nat, n >= ReadableBytes(b), call' = Out(n)
    PROVE  Queue!Next
<1>1. /\ ToString(b) \in Seq(Bytes) /\ Len(ToString(b)) \in Nat
      /\ n >= Len(ToString(b))
    BY Readable DEF IndexesInRange, ReadableBytes
<1>2. ToString(b)' = <<>>
    <2>1. b'.read_idx + 1 \in Int /\ b'.write_idx \in Int /\ b'.write_idx < b'.read_idx + 1
        BY DEF IndexesInRange, InRange
    <2>2. SubSeq(b'.buffer, b'.read_idx + 1, b'.write_idx) = <<>>
        BY <2>1, SubSeqEmpty
    <2> QED
        BY <2>2 DEF ToString
<1>3. SubSeq(ToString(b), n + 1, Len(ToString(b))) = <<>>
    <2> DEFINE len == Len(ToString(b))
    <2>1. n + 1 \in Int /\ len \in Int /\ len < n + 1
        BY <1>1
    <2> HIDE DEF len
    <2>2. SubSeq(ToString(b), n + 1, len) = <<>>
        BY <2>1, SubSeqEmpty
    <2> QED
        BY <2>2 DEF len
<1>4. call'.out = n /\ call' = [in |-> <<>>, out |-> n]
    BY DEF Out
<1> QED
    BY <1>2, <1>3, <1>4 DEF Queue!Next, Queue!Take

\* The data the operations are called with.
LEMMA DataIsSeq == ASSUME NEW n \in Nat, NEW data \in DataUpTo(n) PROVE data \in Seq(Bytes)
<1>1. PICK m \in 0..n : data \in [1..m -> Bytes]
    BY DEF DataUpTo
<1> QED
    BY <1>1, SeqDef

\* DropBytes takes bytes from the front, however many it is asked to drop.
LEMMA DropStep ==
    ASSUME IndexesInRange, NEW n \in Nat, b' = DropBytes(b, n), call' = Out(n)
    PROVE  IndexesInRange' /\ Queue!Next
<1>1. CASE n >= ReadableBytes(b)
    <2>1. b' = [b EXCEPT !.read_idx = 0, !.write_idx = 0]
        BY <1>1 DEF DropBytes, DropAllBytes
    <2>2. /\ b'.read_idx = 0 /\ b'.write_idx = 0 /\ b'.buffer = b.buffer
          /\ b' \in [buffer : Seq(Bytes), read_idx : Nat, write_idx : Nat]
        <3>1. b \in [buffer : Seq(Bytes), read_idx : Nat, write_idx : Nat]
            BY DEF IndexesInRange, InRange
        <3>2. b' = [buffer |-> b.buffer, read_idx |-> 0, write_idx |-> 0]
            BY <2>1, <3>1
        <3> QED
            BY <3>1, <3>2
    <2>3. IndexesInRange'
        BY <2>2 DEF IndexesInRange, InRange
    <2> QED
        BY <1>1, <2>2, <2>3, EmptyIsTake
<1>2. CASE ~(n >= ReadableBytes(b))
    <2>1. b' = [b EXCEPT !.read_idx = @ + n]
        BY <1>2 DEF DropBytes
    <2>2. n \in 0..ReadableBytes(b)
        BY <1>2 DEF ReadableBytes, IndexesInRange, InRange
    <2> QED
        BY <2>1, <2>2, SkipIsTake
<1> QED
    BY <1>1, <1>2

\* An operation that adds its data to what is readable.
LEMMA PutStep ==
    ASSUME IndexesInRange, NEW k, b' = k, InRange(k), NEW data \in Seq(Bytes),
           ToString(k) = ToString(b) \o data, call' = In(data)
    PROVE  IndexesInRange' /\ Queue!Next
<1>1. IndexesInRange'
    BY DEF IndexesInRange
<1>2. ToString(b)' = ToString(b) \o data
    OBVIOUS
<1>3. call'.in = data /\ call' = [in |-> data, out |-> 0]
    BY DEF In
<1> QED
    BY <1>1, <1>2, <1>3 DEF Queue!Next, Queue!Put

\* Every operation keeps the indexes in range and is a step of the byte queue.
LEMMA BufferStep == ASSUME IndexesInRange, Next PROVE IndexesInRange' /\ Queue!Next
<1>0. /\ InRange(b) /\ WritableBytes(b) \in Nat /\ ReadableBytes(b) \in Nat
      /\ ReadLimit(b) \in Nat
    BY SizesAssumption DEF IndexesInRange, InRange, WritableBytes, ReadableBytes, ReadLimit
<1>1. CASE AppendBytes
    <2>1. PICK data \in DataUpTo(MaxData) : b' = AppendData(b, data) /\ call' = In(data)
        BY <1>1 DEF AppendBytes, Becomes
    <2>2. data \in Seq(Bytes)
        BY SizesAssumption, DataIsSeq
    <2> QED
        BY <1>0, <2>1, <2>2, AppendIsConcatenation, PutStep
<1>2. CASE Drop \/ WriteFd
    <2>1. PICK n \in Nat : b' = DropBytes(b, n) /\ call' = Out(n)
        BY <1>0, <1>2 DEF Drop, WriteFd, Becomes
    <2> QED
        BY <2>1, DropStep
<1>3. CASE DropAll
    <2>1. b' = [b EXCEPT !.read_idx = 0, !.write_idx = 0] /\ call' = Out(ReadableBytes(b))
        BY <1>3 DEF DropAll, Becomes, DropAllBytes
    <2>2. b' = DropBytes(b, ReadableBytes(b))
        BY <1>0, <2>1 DEF DropBytes, DropAllBytes
    <2> QED
        BY <1>0, <2>1, <2>2, DropStep
<1>4. CASE DropUntil
    <2>1. PICK pos \in b.read_idx..b.write_idx :
              b' = [b EXCEPT !.read_idx = pos] /\ call' = Out(pos - b.read_idx)
        BY <1>4 DEF DropUntil, Becomes, DropBytesUntil
    <2> DEFINE n == pos - b.read_idx
    <2>2. n \in 0..ReadableBytes(b) /\ b.read_idx + n = pos
        BY <1>0 DEF InRange, ReadableBytes
    <2>3. b' = [b EXCEPT !.read_idx = @ + n] /\ call' = Out(n)
        BY <2>1, <2>2
    <2> HIDE DEF n
    <2> QED
        BY <2>2, <2>3, SkipIsTake
<1>5. CASE ReleaseAll
    <2>1. /\ b' = [buffer |-> <<>>, read_idx |-> 0, write_idx |-> 0]
          /\ call' = Out(ReadableBytes(b))
        BY <1>5 DEF ReleaseAll, Becomes, Release
    <2>2. <<>> \in Seq(Bytes) /\ Len(<<>>) = 0
        BY EmptySeq
    <2>3. IndexesInRange' /\ b'.write_idx = b'.read_idx
        BY <2>1, <2>2 DEF IndexesInRange, InRange
    <2> QED
        BY <1>0, <2>1, <2>3, EmptyIsTake
<1>6. CASE ReadFd
    <2>1. PICK data \in DataUpTo(ReadLimit(b)) :
              b' = ReadBytesFromFd(b, data) /\ call' = In(data)
        BY <1>6 DEF ReadFd, Becomes
    <2>2. data \in Seq(Bytes)
        BY <1>0, DataIsSeq
    <2> QED
        BY <1>0, <2>1, <2>2, ReadIsConcatenation, PutStep
<1>7. CASE ReadSsl
    <2> DEFINE e == EnsureWritableSpace(b, SslSpace)
    <2>1. InRange(e) /\ ToString(e) = ToString(b)
        BY <1>0, SizesAssumption, SpaceKeepsBytes
    <2>2. PICK data \in DataUpTo(WritableBytes(e)) :
              b' = ReadBytesFromFd(e, data) /\ call' = In(data)
        BY <1>7 DEF ReadSsl, Becomes
    <2> HIDE DEF e
    <2>3. WritableBytes(e) \in Nat
        BY <2>1 DEF InRange, WritableBytes
    <2>4. data \in Seq(Bytes)
        BY <2>3, DataIsSeq
    <2> QED
        BY <2>1, <2>2, <2>4, ReadIsConcatenation, PutStep
<1> QED
    BY <1>1, <1>2, <1>3, <1>4, <1>5, <1>6, <1>7 DEF Next

\* The new buffer is empty and in range.
LEMMA BufferInit == Init => IndexesInRange /\ Queue!Init
<1> SUFFICES ASSUME Init PROVE IndexesInRange /\ Queue!Init
    OBVIOUS
<1>1. Zeros(InitSize) \in [1..InitSize -> Bytes]
    BY ByteAssumption DEF Zeros
<1>2. Zeros(InitSize) \in Seq(Bytes)
    BY <1>1, SizesAssumption, SeqDef
<1>3. Len(Zeros(InitSize)) \in Nat
    BY <1>2
<1>4. IndexesInRange
    BY <1>2, <1>3 DEF Init, IndexesInRange, InRange
<1>5. SubSeq(b.buffer, 1, 0) = <<>>
    BY SubSeqEmpty
<1> QED
    BY <1>4, <1>5 DEF Init, Queue!Init, ToString, Out

\* The iterators stay in the vector and in order, whatever is appended, read,
\* dropped, released or written.
THEOREM BufferInRange == Spec => []IndexesInRange
<1>1. IndexesInRange /\ UNCHANGED vars => IndexesInRange'
    BY DEF IndexesInRange, vars
<1> QED
    BY <1>1, BufferInit, BufferStep, PTL DEF Spec

\* BaseBuffer implements the FIFO byte queue: every call puts exactly its bytes at
\* the back or takes exactly as many as it asks for from the front.
THEOREM BufferIsByteQueue == Spec => IsByteQueue
<1>1. IndexesInRange /\ [Next]_vars => [Queue!Next]_<<ToString(b), call>>
    BY BufferStep DEF vars
<1> QED
    BY <1>1, BufferInit, BufferInRange, PTL DEF Spec, IsByteQueue, Queue!Spec

=============================================================================
