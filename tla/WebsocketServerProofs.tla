------------------------ MODULE WebsocketServerProofs ------------------------
(***************************************************************************)
(* WebsocketServer: on a connection whose handshake and whose frame heads  *)
(* arrive whole, OnRequest is called with the frames that were sent, the   *)
(* connection is closed only on request, and what was not handed out is in *)
(* the receive buffer.  A handshake that is a request is answered.  Each   *)
(* reply is framed when the bytes of its head are not zero.                *)
(*                                                                         *)
(* It rests on what WebsocketCodec makes of the bytes of a frame: the head *)
(* a client sends is the head DecodeFrameHead finds, and what              *)
(* DecodePayload unmasks is the payload.  The bytes of a connection are    *)
(* one sequence, st, of which the first are read, the next are in the      *)
(* receive buffer and the rest is on the wire; every step of the client    *)
(* and of the codec is a step along it.                                    *)
(*                                                                         *)
(* That HandShake ends is a fact about HttpReqDecoder, which               *)
(* HttpServerProofs shows of every request it knows.                       *)
(***************************************************************************)
EXTENDS WebsocketServer, SequenceTheorems, TLAPS

\* BaseBufferProofs, of the buffers of HttpReqDecoder.
BP == INSTANCE BaseBufferProofs
      WITH b <- <<>>, call <- <<>>, Bytes <- 0..255, SslSpace <- 0, MaxData <- 0, MaxSize <- 0

-----------------------------------------------------------------------------
(* The receive buffer.                                                     *)

\* What BaseBufferProofs shows of reading and of the readable bytes.
LEMMA ReadAppends ==
    ASSUME NEW k, B!InRange(k), NEW data \in Seq(Byte)
    PROVE  /\ B!InRange(B!ReadBytesFromFd(k, data))
           /\ B!ToString(B!ReadBytesFromFd(k, data)) = B!ToString(k) \o data
<1>1. BP!InRange(k)
  BY DEF B!InRange, BP!InRange
<1>2. /\ BP!InRange(BP!ReadBytesFromFd(k, data))
      /\ BP!ToString(BP!ReadBytesFromFd(k, data)) = BP!ToString(k) \o data
  BY <1>1, BufferAssumption, BP!ReadIsConcatenation DEF Byte
<1>3. BP!ReadBytesFromFd(k, data) = B!ReadBytesFromFd(k, data)
  BY DEF BP!ReadBytesFromFd, B!ReadBytesFromFd, BP!AppendData, B!AppendData,
         BP!EnsureWritableSpace, B!EnsureWritableSpace, BP!Store, B!Store,
         BP!WritableBytes, B!WritableBytes, BP!ReadableBytes, B!ReadableBytes,
         BP!MovedToFront, B!MovedToFront, BP!Reallocated, B!Reallocated,
         BP!Zeros, B!Zeros, BP!NewSize, B!NewSize, BP!ToString, B!ToString
<1> QED
  BY <1>2, <1>3 DEF B!InRange, BP!InRange, B!ToString, BP!ToString

\* ToString is the readable bytes, in their order.
LEMMA Readable ==
    ASSUME NEW k, B!InRange(k)
    PROVE  /\ B!ToString(k) \in Seq(Byte)
           /\ Len(B!ToString(k)) = B!ReadableBytes(k)
           /\ B!ReadableBytes(k) \in Nat
           /\ \A i \in 1..B!ReadableBytes(k) : B!ToString(k)[i] = k.buffer[k.read_idx + i]
<1>1. BP!InRange(k)
  BY DEF B!InRange, BP!InRange
<1>2. /\ BP!ToString(k) \in Seq(0..255)
      /\ Len(BP!ToString(k)) = k.write_idx - k.read_idx
      /\ \A i \in 1..(k.write_idx - k.read_idx) :
            BP!ToString(k)[i] = k.buffer[k.read_idx + i]
  BY <1>1, BufferAssumption, BP!Readable
<1>3. BP!ToString(k) = B!ToString(k)
  BY DEF BP!ToString, B!ToString
<1> QED
  BY <1>2, <1>3 DEF B!ReadableBytes, B!InRange, Byte

\* j is k without its first n readable bytes.
Advanced(k, j, n) ==
    /\ B!InRange(j)
    /\ Len(B!ToString(j)) = Len(B!ToString(k)) - n
    /\ \A i \in 1..Len(B!ToString(j)) : B!ToString(j)[i] = B!ToString(k)[n + i]

\* DropBytes takes the first n readable bytes, also when they are all.
LEMMA DropAdvances ==
    ASSUME NEW k, B!InRange(k), NEW n \in 0..Len(B!ToString(k))
    PROVE  Advanced(k, B!DropBytes(k, n), n)
<1> DEFINE j == B!DropBytes(k, n)
<1>1. /\ Len(B!ToString(k)) = B!ReadableBytes(k) /\ B!ReadableBytes(k) \in Nat
      /\ \A i \in 1..B!ReadableBytes(k) : B!ToString(k)[i] = k.buffer[k.read_idx + i]
  BY Readable
<1>2. CASE n = B!ReadableBytes(k)
  <2>1. j = [k EXCEPT !.read_idx = 0, !.write_idx = 0]
    BY <1>1, <1>2 DEF B!DropBytes, B!DropAllBytes
  <2>2. B!InRange(j) /\ B!ReadableBytes(j) = 0
    <3>1. k.buffer \in Seq(0..255) /\ 0 <= Len(k.buffer)
      BY DEF B!InRange
    <3>2. /\ j \in [buffer : Seq(0..255), read_idx : Nat, write_idx : Nat]
          /\ j.buffer = k.buffer /\ j.read_idx = 0 /\ j.write_idx = 0
      <4> HIDE DEF j
      <4>1. k \in [buffer : Seq(0..255), read_idx : Nat, write_idx : Nat]
        BY DEF B!InRange
      <4> QED BY <4>1, <2>1
    <3> HIDE DEF j
    <3> QED BY <3>1, <3>2 DEF B!InRange, B!ReadableBytes
  <2>3. Len(B!ToString(j)) = 0
    BY <2>2, Readable
  <2> QED
    BY <2>2, <2>3, <1>1, <1>2 DEF Advanced
<1>3. CASE n # B!ReadableBytes(k)
  <2>1. j = [k EXCEPT !.read_idx = @ + n]
    BY <1>1, <1>3 DEF B!DropBytes
  <2>2. /\ B!InRange(j) /\ B!ReadableBytes(j) = B!ReadableBytes(k) - n
        /\ j.buffer = k.buffer /\ j.read_idx = k.read_idx + n
        /\ k.read_idx \in Nat
    BY <2>1, <1>1, <1>3 DEF B!InRange, B!ReadableBytes
  <2>3. /\ Len(B!ToString(j)) = B!ReadableBytes(j)
        /\ \A i \in 1..B!ReadableBytes(j) : B!ToString(j)[i] = j.buffer[j.read_idx + i]
    BY <2>2, Readable
  <2>4. ASSUME NEW i \in 1..B!ReadableBytes(j)
        PROVE  B!ToString(j)[i] = B!ToString(k)[n + i]
    <3>1. n + i \in 1..B!ReadableBytes(k) /\ j.read_idx + i = k.read_idx + (n + i)
      BY <2>2, <1>1
    <3> QED BY <3>1, <2>2, <2>3, <1>1
  <2> QED
    BY <2>2, <2>3, <2>4, <1>1 DEF Advanced
<1> QED BY <1>2, <1>3

\* Unmasking writes over the bytes that are dropped, and over no others.
LEMMA TakeAdvances ==
    ASSUME NEW k, B!InRange(k), NEW data \in Seq(Byte), Len(data) <= Len(B!ToString(k))
    PROVE  Advanced(k, TakePayload(k, data), Len(data))
<1> DEFINE v == B!Store(k.buffer, k.read_idx, data)
           s == [k EXCEPT !.buffer = v]
<1>1. /\ Len(B!ToString(k)) = B!ReadableBytes(k) /\ B!ReadableBytes(k) \in Nat
      /\ \A i \in 1..B!ReadableBytes(k) : B!ToString(k)[i] = k.buffer[k.read_idx + i]
      /\ Len(data) \in Nat
  BY Readable
<1>2. /\ k.buffer \in Seq(Byte) /\ k.read_idx \in Nat /\ k.write_idx \in Nat
      /\ k.read_idx + Len(data) <= Len(k.buffer) /\ k.write_idx <= Len(k.buffer)
      /\ k.write_idx = k.read_idx + B!ReadableBytes(k)
  BY <1>1 DEF B!InRange, B!ReadableBytes, Byte
<1>3. ASSUME NEW buf \in Seq(0..255), NEW at \in Nat, NEW bytes \in Seq(0..255),
             at + Len(bytes) <= Len(buf)
      PROVE  /\ BP!Store(buf, at, bytes) \in Seq(0..255)
             /\ Len(BP!Store(buf, at, bytes)) = Len(buf)
             /\ \A i \in 1..Len(buf) :
                  BP!Store(buf, at, bytes)[i] =
                    IF at < i /\ i <= at + Len(bytes) THEN bytes[i - at] ELSE buf[i]
  BY <1>3, BufferAssumption, BP!StoreData
<1>4. BP!Store(k.buffer, k.read_idx, data) = v
  BY DEF BP!Store, B!Store
<1>5. /\ v \in Seq(Byte) /\ Len(v) = Len(k.buffer)
      /\ \A i \in 1..Len(v) : i > k.read_idx + Len(data) => v[i] = k.buffer[i]
  <2>1. k.buffer \in Seq(0..255) /\ data \in Seq(0..255)
    BY <1>2 DEF Byte
  <2>2. /\ v \in Seq(0..255) /\ Len(v) = Len(k.buffer)
        /\ \A i \in 1..Len(k.buffer) :
              v[i] = IF k.read_idx < i /\ i <= k.read_idx + Len(data)
                     THEN data[i - k.read_idx] ELSE k.buffer[i]
    <3> HIDE DEF v
    <3> QED BY <2>1, <1>2, <1>3, <1>4
  <2> HIDE DEF v
  <2> QED BY <2>2, <1>1, <1>2 DEF Byte
<1> HIDE DEF v
<1>6. /\ B!InRange(s) /\ B!ReadableBytes(s) = B!ReadableBytes(k)
      /\ s.buffer = v /\ s.read_idx = k.read_idx
  BY <1>5 DEF B!InRange, B!ReadableBytes, Byte
<1>7. /\ Len(B!ToString(s)) = B!ReadableBytes(k)
      /\ \A i \in 1..B!ReadableBytes(k) : B!ToString(s)[i] = v[k.read_idx + i]
  BY <1>6, Readable
<1>8. ASSUME NEW i \in 1..(B!ReadableBytes(k) - Len(data))
      PROVE  B!ToString(s)[Len(data) + i] = B!ToString(k)[Len(data) + i]
  <2>1. /\ Len(data) + i \in 1..B!ReadableBytes(k)
        /\ k.read_idx + (Len(data) + i) \in 1..Len(v)
        /\ k.read_idx + (Len(data) + i) > k.read_idx + Len(data)
    BY <1>1, <1>2, <1>5
  <2> QED BY <2>1, <1>1, <1>5, <1>7
<1>9. Advanced(s, B!DropBytes(s, Len(data)), Len(data))
  BY <1>1, <1>6, <1>7, DropAdvances
<1>10. TakePayload(k, data) = B!DropBytes(s, Len(data))
  BY DEF TakePayload, v
<1> QED
  BY <1>1, <1>7, <1>8, <1>9, <1>10 DEF Advanced

-----------------------------------------------------------------------------
(* Frames.                                                                 *)

\* A function on 1..n is a sequence of length n.
LEMMA FcnIsSeq ==
    ASSUME NEW S, NEW n \in Nat, NEW s \in [1..n -> S]
    PROVE  s \in Seq(S) /\ Len(s) = n
BY SeqDef

\* The length of the head of f.
HeadLen(f) == 2 + f.width + IF f.mask = 1 THEN 4 ELSE 0

\* Where the elements of a concatenation come from.
LEMMA Concat2 ==
    ASSUME NEW S, NEW x \in Seq(S), NEW y \in Seq(S)
    PROVE  /\ x \o y \in Seq(S) /\ Len(x \o y) = Len(x) + Len(y)
           /\ \A i \in 1..Len(x) : (x \o y)[i] = x[i]
           /\ \A i \in 1..Len(y) : (x \o y)[Len(x) + i] = y[i]
<1>1. Len(x) \in Nat /\ Len(y) \in Nat
  OBVIOUS
<1> QED BY <1>1

\* s is x, y and z, one after the other.
Parts3(S, x, y, z, s) ==
    /\ s \in Seq(S) /\ Len(s) = Len(x) + Len(y) + Len(z)
    /\ \A i \in 1..Len(x) : s[i] = x[i]
    /\ \A i \in 1..Len(y) : s[Len(x) + i] = y[i]
    /\ \A i \in 1..Len(z) : s[Len(x) + Len(y) + i] = z[i]

\* The same of three sequences.
LEMMA Concat3 ==
    ASSUME NEW S, NEW x \in Seq(S), NEW y \in Seq(S), NEW z \in Seq(S)
    PROVE  Parts3(S, x, y, z, x \o y \o z)
<1>1. Len(x) \in Nat /\ Len(y) \in Nat /\ Len(z) \in Nat
  OBVIOUS
<1> DEFINE xy == x \o y
<1>2. /\ xy \in Seq(S) /\ Len(xy) = Len(x) + Len(y)
      /\ \A i \in 1..Len(x) : xy[i] = x[i]
      /\ \A i \in 1..Len(y) : xy[Len(x) + i] = y[i]
  BY Concat2
<1> HIDE DEF xy
<1>3. /\ xy \o z \in Seq(S) /\ Len(xy \o z) = Len(xy) + Len(z)
      /\ \A i \in 1..Len(xy) : (xy \o z)[i] = xy[i]
      /\ \A i \in 1..Len(z) : (xy \o z)[Len(xy) + i] = z[i]
  <2>1. xy \in Seq(S)
    BY <1>2
  <2> QED BY <2>1, Concat2
<1>4. \A i \in 1..Len(x) : (xy \o z)[i] = x[i]
  BY <1>1, <1>2, <1>3
<1>5. \A i \in 1..Len(y) : (xy \o z)[Len(x) + i] = y[i]
  <2> TAKE i \in 1..Len(y)
  <2>1. Len(x) + i \in 1..Len(xy)
    BY <1>1, <1>2
  <2> QED BY <2>1, <1>2, <1>3
<1> QED BY <1>1, <1>2, <1>3, <1>4, <1>5 DEF xy, Parts3

\* A length of two bytes, most significant first.
High(n) == n \div 256
Low(n) == n % 256

\* Two bytes hold every length a client may send.
LEMMA TwoBytes ==
    ASSUME NEW w \in {0, 2, 8}, NEW n \in Nat, n < LengthLimit(w)
    PROVE  Low(n) \in Byte /\ High(n) \in Byte /\ Join(High(n), Low(n)) = n
<1>0. n < 65536
  BY DEF LengthLimit
<1>1. Low(n) = n - 256 * High(n)
  BY DEF Low, High
<1>2. Low(n) \in 0..255
  BY DEF Low
<1>3. High(n) \in 0..255
  BY <1>0 DEF High
<1>4. 256 * High(n) + Low(n) = n
  BY <1>1, <1>3
<1> QED BY <1>2, <1>3, <1>4 DEF Byte, Join

\* The parts of FrameHead, of the members of a frame.
Extended(w, n) ==
    [i \in 1..w |-> CASE i = w -> Low(n) [] i = w - 1 -> High(n) [] OTHER -> 0]

ExtendedByte(w, n, i) == IF i = w THEN Low(n) ELSE IF i = w - 1 THEN High(n) ELSE 0

Length(w, n) == IF w = 0 THEN n ELSE IF w = 2 THEN 126 ELSE 127

Key(mask, key) == IF mask = 1 THEN key ELSE <<>>

\* s is the length n in w bytes.
IsExtended(w, n, s) ==
    /\ s \in Seq(Byte) /\ Len(s) = w
    /\ \A i \in 1..w : s[i] = ExtendedByte(w, n, i)

\* What FrameHead writes behind the first two bytes is the length.
LEMMA ExtendedShape ==
    ASSUME NEW w \in {0, 2, 8}, NEW n \in Nat, n < LengthLimit(w)
    PROVE  IsExtended(w, n, Extended(w, n))
<1> DEFINE ext == Extended(w, n)
<1>1. Low(n) \in Byte /\ High(n) \in Byte /\ 0 \in Byte
  BY TwoBytes DEF Byte
<1>2. ext = [i \in 1..w |-> CASE i = w -> Low(n) [] i = w - 1 -> High(n) [] OTHER -> 0]
  BY DEF Extended
<1> HIDE DEF ext
<1>3. ASSUME NEW i \in 1..w
      PROVE  ext[i] = IF i = w THEN Low(n) ELSE IF i = w - 1 THEN High(n) ELSE 0
  <2>1. i # w \/ i # w - 1
    OBVIOUS
  <2>2. ext[i] = CASE i = w -> Low(n) [] i = w - 1 -> High(n) [] OTHER -> 0
    BY <1>2
  <2> QED BY <2>1, <2>2
<1>4. DOMAIN ext = 1..w /\ w \in Nat
  BY <1>2
<1>5. ext = [i \in 1..w |-> ext[i]]
  BY <1>2
<1>6. ext \in [1..w -> Byte]
  BY <1>1, <1>3, <1>5
<1>7. ext \in Seq(Byte) /\ Len(ext) = w
  BY <1>4, <1>6, FcnIsSeq
<1> QED BY <1>3, <1>7 DEF ext, ExtendedByte, IsExtended

\* The second byte of a head is a byte.
LEMMA LengthIsByte ==
    ASSUME NEW w \in {0, 2, 8}, NEW n \in Nat, n < LengthLimit(w), NEW mask \in {0, 1}
    PROVE  Length(w, n) \in 0..127 /\ 128 * mask + Length(w, n) \in Byte
<1>1. Length(w, n) \in 0..127
  BY DEF Length, LengthLimit
<1>2. CASE mask = 0
  BY <1>1, <1>2 DEF Byte
<1>3. CASE mask = 1
  BY <1>1, <1>3 DEF Byte
<1> QED BY <1>1, <1>2, <1>3

\* The key is sent when there is a mask.
LEMMA KeyShape ==
    ASSUME NEW mask \in {0, 1}, NEW key \in [1..4 -> Byte]
    PROVE  Key(mask, key) \in Seq(Byte) /\ Len(Key(mask, key)) = IF mask = 1 THEN 4 ELSE 0
<1>1. key \in Seq(Byte) /\ Len(key) = 4
  <2>1. 4 \in Nat
    OBVIOUS
  <2> QED BY <2>1, FcnIsSeq, Zenon
<1>2. <<>> \in Seq(Byte) /\ Len(<<>>) = 0
  OBVIOUS
<1> QED BY <1>1, <1>2 DEF Key

\* A pair is a sequence of length 2.
LEMMA TwoIsSeq ==
    ASSUME NEW S, NEW x \in S, NEW y \in S
    PROVE  <<x, y>> \in Seq(S) /\ Len(<<x, y>>) = 2 /\ <<x, y>>[1] = x /\ <<x, y>>[2] = y
OBVIOUS

\* Where the parts of a head are.
IsHead(S, x, y, ext, key, head) ==
    /\ head \in Seq(S) /\ Len(head) = 2 + Len(ext) + Len(key)
    /\ head[1] = x /\ head[2] = y
    /\ \A i \in 1..Len(ext) : head[2 + i] = ext[i]
    /\ \A i \in 1..Len(key) : head[2 + Len(ext) + i] = key[i]

\* The parts of a head follow each other.
LEMMA HeadConcat ==
    ASSUME NEW S, NEW x \in S, NEW y \in S, NEW ext \in Seq(S), NEW key \in Seq(S),
           NEW head, Parts3(S, <<x, y>>, ext, key, head)
    PROVE  IsHead(S, x, y, ext, key, head)
<1> DEFINE base == <<x, y>>
<1>1. base \in Seq(S) /\ Len(base) = 2 /\ base[1] = x /\ base[2] = y
  BY TwoIsSeq
<1>2. Parts3(S, base, ext, key, head)
  OBVIOUS
<1> HIDE DEF base
<1> QED BY <1>1, <1>2 DEF Parts3, IsHead

\* The members of a frame.
LEMMA FrameFields ==
    ASSUME NEW f \in Frame
    PROVE  /\ f.type \in 0..15 /\ f.mask \in {0, 1} /\ f.key \in [1..4 -> Byte]
           /\ f.width \in {0, 2, 8} /\ f.payload \in Seq(Byte) /\ Len(f.payload) \in Nat
           /\ Len(f.payload) < LengthLimit(f.width)
BY DEF Frame

\* The bytes of a head, by their places.
LEMMA HeadShape ==
    ASSUME NEW f \in Frame
    PROVE  /\ FrameHead(f) \in Seq(Byte) /\ Len(FrameHead(f)) = HeadLen(f)
           /\ FrameHead(f)[1] = 128 + f.type
           /\ FrameHead(f)[2] = 128 * f.mask + Length(f.width, Len(f.payload))
           /\ \A i \in 1..f.width : FrameHead(f)[2 + i] =
                ExtendedByte(f.width, Len(f.payload), i)
           /\ f.mask = 1 => \A i \in 1..4 : FrameHead(f)[2 + f.width + i] = f.key[i]
<1> DEFINE n == Len(f.payload)
           x == 128 + f.type
           y == 128 * f.mask + Length(f.width, n)
           ext == Extended(f.width, n)
           key == Key(f.mask, f.key)
           head == <<x, y>> \o ext \o key
           m == IF f.mask = 1 THEN 4 ELSE 0
<1>1. FrameHead(f) = head
  BY Zenon DEF FrameHead, Length, Extended, Key, Low, High
<1>2. /\ f.type \in 0..15 /\ f.mask \in {0, 1} /\ f.key \in [1..4 -> Byte]
      /\ f.width \in {0, 2, 8} /\ n \in Nat /\ n < LengthLimit(f.width)
  BY FrameFields
<1>3. x \in Byte
  <2>1. ASSUME NEW t \in 0..15 PROVE 128 + t \in Byte
    BY DEF Byte
  <2>2. f.type \in 0..15
    BY <1>2
  <2> QED BY <2>1, <2>2, Zenon
<1>4. y \in Byte
  BY <1>2, LengthIsByte
<1>5. /\ ext \in Seq(Byte) /\ Len(ext) = f.width
      /\ \A i \in 1..f.width : ext[i] = ExtendedByte(f.width, n, i)
  <2>4. IsExtended(f.width, n, ext)
    <3> HIDE DEF n
    <3> QED BY <1>2, ExtendedShape
  <2> HIDE DEF n, ext
  <2> QED BY <2>4, Zenon DEF IsExtended
<1>6. key \in Seq(Byte) /\ Len(key) = m
  <2>1. f.mask \in {0, 1} /\ f.key \in [1..4 -> Byte]
    BY <1>2
  <2> QED BY <2>1, KeyShape, Zenon
<1>7. f.mask = 1 => m = 4 /\ key = f.key
  BY Zenon DEF Key
<1>8. HeadLen(f) = 2 + f.width + m
  BY Zenon DEF HeadLen
<1> HIDE DEF x, y, ext, key, m, n
<1>9. /\ head \in Seq(Byte) /\ Len(head) = 2 + f.width + m
      /\ head[1] = x /\ head[2] = y
      /\ \A i \in 1..f.width : head[2 + i] = ext[i]
      /\ \A i \in 1..m : head[2 + f.width + i] = key[i]
  <2>1. Parts3(Byte, <<x, y>>, ext, key, head)
    <3>1. <<x, y>> \in Seq(Byte)
      BY <1>3, <1>4, TwoIsSeq, Zenon
    <3> QED BY <3>1, <1>5, <1>6, Concat3, Zenon
  <2> HIDE DEF head
  <2>2. IsHead(Byte, x, y, ext, key, head)
    BY <2>1, <1>3, <1>4, <1>5, <1>6, HeadConcat, Zenon
  <2> QED BY <2>2, <1>5, <1>6 DEF IsHead
<1> HIDE DEF head
<1>10. \A i \in 1..f.width : head[2 + i] = ExtendedByte(f.width, n, i)
  BY <1>5, <1>9, Zenon
<1>11. f.mask = 1 => \A i \in 1..4 : head[2 + f.width + i] = f.key[i]
  BY <1>7, <1>9, Zenon
<1> QED
  BY <1>1, <1>8, <1>9, <1>10, <1>11, Zenon DEF x, y, n

\* s is x and then y.
Parts2(S, x, y, s) ==
    /\ s \in Seq(S) /\ Len(s) = Len(x) + Len(y)
    /\ \A i \in 1..Len(x) : s[i] = x[i]
    /\ \A i \in 1..Len(y) : s[Len(x) + i] = y[i]

\* A concatenation is its two parts.
LEMMA Parts2Of == ASSUME NEW S, NEW x \in Seq(S), NEW y \in Seq(S) PROVE Parts2(S, x, y, x \o y)
<1>1. Len(x) \in Nat /\ Len(y) \in Nat
  OBVIOUS
<1> QED BY <1>1 DEF Parts2

\* The bytes of a frame, by their places: the head and the masked payload.
LEMMA PayloadShape ==
    ASSUME NEW f \in Frame
    PROVE  /\ FramePayload(f) \in Seq(Byte) /\ Len(FramePayload(f)) = Len(f.payload)
           /\ FrameBytes(f) \in Seq(Byte)
           /\ Len(FrameBytes(f)) = HeadLen(f) + Len(f.payload)
           /\ HeadLen(f) \in Nat \ {0, 1} /\ Len(f.payload) \in Nat
           /\ \A i \in 1..HeadLen(f) : FrameBytes(f)[i] = FrameHead(f)[i]
           /\ \A i \in 1..Len(f.payload) : FrameBytes(f)[HeadLen(f) + i] = FramePayload(f)[i]
           /\ f.mask = 1 => \A i \in 1..Len(f.payload) :
                FramePayload(f)[i] = XorByte(f.payload[i], f.key[((i - 1) % 4) + 1])
<1>1. /\ f.mask \in {0, 1} /\ f.key \in [1..4 -> Byte] /\ f.payload \in Seq(Byte)
      /\ f.width \in {0, 2, 8} /\ Len(f.payload) \in Nat /\ DOMAIN f.payload = 1..Len(f.payload)
  BY DEF Frame
<1>2. ASSUME NEW i \in 1..Len(f.payload) PROVE f.payload[i] \in Byte /\ f.key[((i - 1) % 4) + 1] \in Byte
  <2>1. ((i - 1) % 4) + 1 \in 1..4
    BY <1>1
  <2> QED BY <1>1, <2>1, ElementOfSeq
<1>3. FramePayload(f) \in [1..Len(f.payload) -> Byte]
  BY <1>1, <1>2, XorAssumption DEF FramePayload
<1>4. FramePayload(f) \in Seq(Byte) /\ Len(FramePayload(f)) = Len(f.payload)
  BY <1>1, <1>3, SeqDef
<1>5. HeadLen(f) \in Nat \ {0, 1}
  BY <1>1 DEF HeadLen
<1>6. FrameHead(f) \in Seq(Byte) /\ Len(FrameHead(f)) = HeadLen(f)
  BY HeadShape
<1>7. f.mask = 1 => \A i \in 1..Len(f.payload) :
                FramePayload(f)[i] = XorByte(f.payload[i], f.key[((i - 1) % 4) + 1])
  BY <1>1 DEF FramePayload
<1>8. Parts2(Byte, FrameHead(f), FramePayload(f), FrameBytes(f))
  BY <1>4, <1>6, Parts2Of, Zenon DEF FrameBytes
<1>9. /\ FrameBytes(f) \in Seq(Byte)
      /\ Len(FrameBytes(f)) = HeadLen(f) + Len(f.payload)
      /\ \A i \in 1..HeadLen(f) : FrameBytes(f)[i] = FrameHead(f)[i]
      /\ \A i \in 1..Len(f.payload) : FrameBytes(f)[HeadLen(f) + i] = FramePayload(f)[i]
  BY <1>4, <1>6, <1>8, Zenon DEF Parts2
<1> QED
  BY <1>1, <1>4, <1>5, <1>7, <1>9, Zenon

-----------------------------------------------------------------------------
(* The bytes of a connection.                                              *)

\* What is on the wire.
Item == [byte : Byte, cut : BOOLEAN]

\* The number of bytes of f.
FrameLen(f) == HeadLen(f) + Len(f.payload)

\* It is the length of FrameBytes.
LEMMA FrameLenNat ==
    ASSUME NEW f \in Frame
    PROVE  FrameLen(f) \in Nat /\ Len(FrameBytes(f)) = FrameLen(f)
<1>1. /\ HeadLen(f) \in Nat \ {0, 1} /\ Len(f.payload) \in Nat
      /\ Len(FrameBytes(f)) = HeadLen(f) + Len(f.payload)
  BY PayloadShape, Zenon
<1> QED BY <1>1 DEF FrameLen

\* st is what the client has sent after the handshake: the frames as, which begin at
\* the places be, and no read may end inside a head.
Layout(as, be, st) ==
    /\ as \in Seq(Frame) /\ st \in Seq(Item) /\ be \in Seq(Nat)
    /\ Len(be) = Len(as) + 1 /\ be[Len(as) + 1] = Len(st)
    /\ \A i, j \in 1..Len(be) : i <= j => be[i] <= be[j]
    /\ \A i \in 1..Len(as) : be[i + 1] = be[i] + FrameLen(as[i])
    /\ \A i \in 1..Len(as) : \A j \in 1..FrameLen(as[i]) :
          /\ st[be[i] + j].byte = FrameBytes(as[i])[j]
          /\ st[be[i] + j].cut => j >= HeadLen(as[i])

\* Behind the first base bytes of st come the buffered bytes s and then the wire w.
View(st, base, s, w) ==
    /\ base \in Nat /\ s \in Seq(Byte) /\ w \in Seq(Item)
    /\ base + Len(s) + Len(w) = Len(st)
    /\ \A i \in 1..Len(s) : s[i] = st[base + i].byte
    /\ \A i \in 1..Len(w) : w[i] = st[base + Len(s) + i]

\* A read may end behind the first p bytes.
Boundary(st, p) == p = 0 \/ st[p].cut

\* The parts of View, for the steps that need no definition.
LEMMA ViewType ==
    ASSUME NEW st, NEW base, NEW s, NEW w, View(st, base, s, w)
    PROVE  /\ s \in Seq(Byte) /\ Len(s) \in Nat /\ w \in Seq(Item) /\ Len(w) \in Nat
           /\ base \in Nat /\ base + Len(s) + Len(w) = Len(st)
           /\ \A i \in 1..Len(s) : s[i] = st[base + i].byte
           /\ \A i \in 1..Len(w) : w[i] = st[base + Len(s) + i]
BY DEF View

\* A length is a natural number.
LEMMA LenNat == ASSUME NEW S, NEW s \in Seq(S) PROVE Len(s) \in Nat
OBVIOUS

\* The types of Layout.
LEMMA LayoutType ==
    ASSUME NEW as, NEW be, NEW st, Layout(as, be, st)
    PROVE  /\ as \in Seq(Frame) /\ Len(as) \in Nat /\ st \in Seq(Item) /\ Len(st) \in Nat
           /\ be \in Seq(Nat) /\ Len(be) = Len(as) + 1 /\ be[Len(as) + 1] = Len(st)
           /\ \A i \in 1..Len(as) + 1 : be[i] \in Nat
           /\ \A i \in 1..Len(as) : as[i] \in Frame
<1>1. /\ as \in Seq(Frame) /\ st \in Seq(Item) /\ be \in Seq(Nat)
      /\ Len(be) = Len(as) + 1 /\ be[Len(as) + 1] = Len(st)
  BY DEF Layout
<1>2. Len(as) \in Nat /\ Len(st) \in Nat
  BY <1>1, LenNat, Zenon
<1>3. \A i \in 1..Len(be) : be[i] \in Nat
  BY <1>1, ElementOfSeq, Zenon
<1>4. \A i \in 1..Len(as) : as[i] \in Frame
  BY <1>1, ElementOfSeq, Zenon
<1> QED BY <1>1, <1>2, <1>3, <1>4, Zenon

\* A read moves the first n bytes of the wire w to the buffered bytes s.
IsRead(s, w, n, r, v) ==
    /\ r \in Seq(Byte) /\ Len(r) = Len(s) + n
    /\ \A i \in 1..Len(s) : r[i] = s[i]
    /\ \A i \in 1..n : r[Len(s) + i] = w[i].byte
    /\ v \in Seq(Item) /\ Len(v) = Len(w) - n
    /\ \A i \in 1..Len(v) : v[i] = w[n + i]

\* A read leaves the stream as it is, and ends where a read may end.
LEMMA ReadMoves ==
    ASSUME NEW st, NEW base, NEW s, NEW w, View(st, base, s, w), NEW n \in 1..Len(w),
           NEW r, NEW v, IsRead(s, w, n, r, v)
    PROVE  /\ View(st, base, r, v)
           /\ w[n].cut => Boundary(st, base + Len(r))
<1> DEFINE ls == Len(s)  lw == Len(w)  lr == Len(r)  lv == Len(v)
<1>1. ls \in Nat /\ lw \in Nat /\ base \in Nat /\ base + ls + lw = Len(st)
  BY ViewType
<1>2. /\ \A i \in 1..ls : s[i] = st[base + i].byte
      /\ \A i \in 1..lw : w[i] = st[base + ls + i]
  BY Zenon DEF View
<1>3. r \in Seq(Byte) /\ v \in Seq(Item) /\ lr = ls + n /\ lv = lw - n
  BY Zenon DEF IsRead
<1>4. /\ \A i \in 1..ls : r[i] = s[i]
      /\ \A i \in 1..n : r[ls + i] = w[i].byte
      /\ \A i \in 1..lv : v[i] = w[n + i]
  BY Zenon DEF IsRead
<1>5. n \in 1..lw
  OBVIOUS
<1> HIDE DEF ls, lw, lr, lv
<1>6. base + lr = base + ls + n /\ base + lr + lv = Len(st)
  BY <1>1, <1>3, <1>5
<1>7. ASSUME NEW i \in 1..lr PROVE r[i] = st[base + i].byte
  <2>1. CASE i <= ls
    <3>1. i \in 1..ls
      BY <1>1, <1>3, <2>1
    <3> QED BY <3>1, <1>2, <1>4
  <2>2. CASE i > ls
    <3> DEFINE j == i - ls
    <3>1. j \in 1..n /\ j \in 1..lw /\ ls + j = i /\ base + ls + j = base + i
      BY <1>1, <1>3, <1>5, <2>2
    <3> HIDE DEF j
    <3>2. w[j] = st[base + i] /\ r[i] = w[j].byte
      BY <3>1, <1>2, <1>4, Zenon
    <3> QED BY <3>2, Zenon
  <2> QED BY <2>1, <2>2, <1>1, <1>3
<1>8. ASSUME NEW i \in 1..lv PROVE v[i] = st[base + lr + i]
  <2>1. n + i \in 1..lw /\ base + ls + (n + i) = base + lr + i
    BY <1>1, <1>3, <1>5
  <2>2. w[n + i] = st[base + ls + (n + i)] /\ v[i] = w[n + i]
    BY <2>1, <1>2, <1>4, Zenon
  <2> QED BY <2>1, <2>2, Zenon
<1>9. w[n] = st[base + lr]
  BY <1>2, <1>5, <1>6, Zenon
<1>10. View(st, base, r, v)
  BY <1>1, <1>3, <1>6, <1>7, <1>8, Zenon DEF View, lr, lv
<1>11. w[n].cut => Boundary(st, base + Len(r))
  BY <1>9, Zenon DEF Boundary, lr
<1> QED
  BY <1>10, <1>11, Zenon

\* Taking bytes from the front of the buffer moves the place where it begins.
LEMMA DropMoves ==
    ASSUME NEW st, NEW base, NEW s, NEW w, View(st, base, s, w), NEW d \in 0..Len(s),
           NEW r \in Seq(Byte), Len(r) = Len(s) - d, \A i \in 1..Len(r) : r[i] = s[d + i]
    PROVE  View(st, base + d, r, w) /\ base + d + Len(r) = base + Len(s)
<1>1. /\ s \in Seq(Byte) /\ Len(s) \in Nat /\ w \in Seq(Item) /\ Len(w) \in Nat
      /\ d \in Nat /\ d <= Len(s) /\ base \in Nat /\ Len(r) \in Nat
      /\ base + Len(s) + Len(w) = Len(st)
  BY DEF View
<1>2. /\ \A i \in 1..Len(s) : s[i] = st[base + i].byte
      /\ \A i \in 1..Len(w) : w[i] = st[base + Len(s) + i]
  BY DEF View
<1>3. base + d + Len(r) = base + Len(s) /\ base + d \in Nat
  BY <1>1
<1>4. ASSUME NEW i \in 1..Len(r) PROVE r[i] = st[base + d + i].byte
  <2>1. d + i \in 1..Len(s) /\ base + (d + i) = base + d + i
    BY <1>1
  <2> QED BY <2>1, <1>2
<1>5. ASSUME NEW i \in 1..Len(w) PROVE w[i] = st[base + d + Len(r) + i]
  BY <1>2, <1>3
<1> QED BY <1>1, <1>3, <1>4, <1>5 DEF View

\* The bytes s begin with the head of f.
BeginsWith(s, f) ==
    /\ HeadLen(f) <= Len(s)
    /\ \A j \in 1..HeadLen(f) : s[j] = FrameHead(f)[j]

\* The bytes s begin with the head of the frame behind the first n.
HeadIsAt(as, n, s) ==
    /\ n + 1 \in 1..Len(as) /\ as[n + 1] \in Frame
    /\ BeginsWith(s, as[n + 1])

\* A buffer that begins with a frame holds all of its head.
LEMMA HeadAt ==
    ASSUME NEW as, NEW be, NEW st, Layout(as, be, st), NEW n \in 0..Len(as), NEW s, NEW w,
           View(st, be[n + 1], s, w), Boundary(st, be[n + 1] + Len(s)), Len(s) # 0
    PROVE  HeadIsAt(as, n, s)
<1> DEFINE base == be[n + 1]
           f == as[n + 1]
<1>a. /\ Len(as) \in Nat /\ be[Len(as) + 1] = Len(st)
      /\ \A i \in 1..Len(as) : as[i] \in Frame
  BY LayoutType, Zenon
<1>b. /\ Len(s) \in Nat /\ Len(w) \in Nat /\ base \in Nat
      /\ base + Len(s) + Len(w) = Len(st)
  BY ViewType
<1> DEFINE ls == Len(s)  lw == Len(w)  la == Len(as)
<1>1. la \in Nat /\ n \in 0..la /\ ls \in Nat /\ lw \in Nat /\ ls # 0
  BY <1>a, <1>b, Zenon
<1>2. n + 1 \in 1..Len(as)
  <2>1. CASE n = Len(as)
    <3>1. base = Len(st)
      BY <1>a, <2>1, Zenon
    <3> HIDE DEF base
    <3> QED BY <3>1, <1>1, <1>b
  <2>2. CASE n # Len(as)
    <3> HIDE DEF la
    <3>1. n # la
      BY <2>2, Zenon DEF la
    <3>2. n + 1 \in 1..la
      BY <1>1, <3>1
    <3> QED BY <3>2, Zenon DEF la
  <2> QED BY <2>1, <2>2
<1>3. f \in Frame
  BY <1>a, <1>2, Zenon
<1>4. /\ HeadLen(f) \in Nat \ {0, 1} /\ Len(f.payload) \in Nat
      /\ \A i \in 1..HeadLen(f) : FrameBytes(f)[i] = FrameHead(f)[i]
  BY <1>3, PayloadShape
<1>5. \A j \in 1..FrameLen(f) :
          st[base + j].byte = FrameBytes(f)[j] /\ (st[base + j].cut => j >= HeadLen(f))
  BY <1>2 DEF Layout
<1>6. FrameLen(f) = HeadLen(f) + Len(f.payload)
  BY DEF FrameLen
<1>7. \A i \in 1..Len(s) : s[i] = st[base + i].byte
  BY DEF View
<1>8. base + Len(s) = 0 \/ st[base + Len(s)].cut
  BY DEF Boundary
<1> HIDE DEF base, f
<1>9. HeadLen(f) <= Len(s)
  <2> SUFFICES ASSUME Len(s) < HeadLen(f) PROVE FALSE
    BY <1>1, <1>4
  <2>1. Len(s) \in 1..FrameLen(f)
    BY <1>1, <1>4, <1>6
  <2> QED BY <2>1, <1>b, <1>1, <1>4, <1>5, <1>8
<1>10. ASSUME NEW j \in 1..HeadLen(f) PROVE s[j] = FrameHead(f)[j]
  <2>1. j \in 1..Len(s) /\ j \in 1..FrameLen(f)
    BY <1>1, <1>4, <1>6, <1>9
  <2> QED BY <2>1, <1>4, <1>5, <1>7
<1> QED BY <1>2, <1>3, <1>9, <1>10, Zenon DEF HeadIsAt, BeginsWith, f

\* The bytes s go on with the payload of f, of which l bytes were read.
GoesOn(f, l, s) ==
    \A i \in 1..Len(s) : i <= Len(f.payload) - l => s[i] = FramePayload(f)[l + i]

\* What follows the head, and what was read of the payload, is the rest of it.
LEMMA PayloadAt ==
    ASSUME NEW as, NEW be, NEW st, Layout(as, be, st), NEW n \in 1..Len(as),
           NEW last \in 0..Len(as[n].payload), NEW s, NEW w,
           View(st, be[n] + (HeadLen(as[n]) + last), s, w)
    PROVE  GoesOn(as[n], last, s)
<1> DEFINE f == as[n]
           h == HeadLen(f)
           l == Len(f.payload)
           base == be[n] + (h + last)
           ls == Len(s)
<1>1. f \in Frame /\ be[n] \in Nat
  <2> DEFINE la == Len(as)
  <2>1. /\ \A i \in 1..la + 1 : be[i] \in Nat
        /\ \A i \in 1..la : as[i] \in Frame
        /\ la \in Nat /\ n \in 1..la
    BY LayoutType
  <2> HIDE DEF la
  <2>2. n \in 1..la + 1
    BY <2>1
  <2> QED BY <2>1, <2>2, Zenon
<1>2. h \in Nat /\ l \in Nat /\ last \in 0..l
  <2>1. h \in Nat \ {0, 1} /\ l \in Nat /\ last \in 0..l
    BY <1>1, PayloadShape, Zenon
  <2> QED BY <2>1, Zenon
<1>3. \A i \in 1..l : FrameBytes(f)[h + i] = FramePayload(f)[i]
  BY <1>1, PayloadShape, Zenon
<1>4. \A j \in 1..FrameLen(f) : st[be[n] + j].byte = FrameBytes(f)[j]
  BY Zenon DEF Layout
<1>5. FrameLen(f) = h + l
  BY Zenon DEF FrameLen
<1>6. ls \in Nat
  BY ViewType
<1>7. \A i \in 1..ls : s[i] = st[base + i].byte
  BY Zenon DEF View
<1> HIDE DEF ls, base, l, h, f
<1> SUFFICES ASSUME NEW i \in 1..ls, i <= l - last
             PROVE  s[i] = FramePayload(f)[last + i]
  BY Zenon DEF GoesOn, f, l, ls
<1>8. /\ last + i \in 1..l /\ h + (last + i) \in 1..FrameLen(f)
      /\ base + i = be[n] + (h + (last + i))
  BY <1>1, <1>2, <1>5, <1>6 DEF base
<1> QED BY <1>3, <1>4, <1>7, <1>8, Zenon

-----------------------------------------------------------------------------
(* Sending a frame.                                                        *)

\* The items of Marked.
LEMMA MarkedShape ==
    ASSUME NEW bytes \in Seq(Byte), NEW cut \in BOOLEAN
    PROVE  /\ Marked(bytes, cut) \in Seq(Item) /\ Len(Marked(bytes, cut)) = Len(bytes)
           /\ \A i \in 1..Len(bytes) :
                Marked(bytes, cut)[i] = [byte |-> bytes[i], cut |-> cut \/ i = Len(bytes)]
<1>1. DOMAIN bytes = 1..Len(bytes) /\ Len(bytes) \in Nat
  OBVIOUS
<1>2. \A i \in 1..Len(bytes) : bytes[i] \in Byte
  BY ElementOfSeq
<1>3. \A i \in 1..Len(bytes) : [byte |-> bytes[i], cut |-> cut \/ i = Len(bytes)] \in Item
  BY <1>2 DEF Item
<1>4. Marked(bytes, cut) =
        [i \in 1..Len(bytes) |-> [byte |-> bytes[i], cut |-> cut \/ i = Len(bytes)]]
  BY <1>1, Zenon DEF Marked
<1>5. Marked(bytes, cut) \in [1..Len(bytes) -> Item]
  BY <1>3, <1>4, Zenon
<1>6. Marked(bytes, cut) \in Seq(Item) /\ Len(Marked(bytes, cut)) = Len(bytes)
  BY <1>1, <1>5, FcnIsSeq, Zenon
<1> QED BY <1>4, <1>6, Zenon

\* The j-th item of the frame f on the wire.
SentItem(f, j) == [byte |-> FrameBytes(f)[j], cut |-> j >= HeadLen(f)]

\* y is x and then the bytes of the frame f, of which a read may end behind the last of
\* the head and behind those of the payload.
IsSent(f, x, y) ==
    /\ y \in Seq(Item) /\ Len(y) = Len(x) + FrameLen(f)
    /\ \A i \in 1..Len(x) : y[i] = x[i]
    /\ \A j \in 1..FrameLen(f) : y[Len(x) + j] = SentItem(f, j)

\* ClientSendsFrame sends the bytes of a frame, and marks no byte inside its head.
LEMMA Sending ==
    ASSUME NEW f \in Frame, NEW x \in Seq(Item)
    PROVE  IsSent(f, x, x \o Marked(FrameHead(f), FALSE) \o Marked(FramePayload(f), TRUE))
<1> DEFINE m1 == Marked(FrameHead(f), FALSE)
           m2 == Marked(FramePayload(f), TRUE)
           y == x \o m1 \o m2
           h == HeadLen(f)
           l == Len(f.payload)
           lx == Len(x)
<1>1. FrameHead(f) \in Seq(Byte) /\ Len(FrameHead(f)) = h
  BY HeadShape, Zenon
<1>2. FramePayload(f) \in Seq(Byte) /\ Len(FramePayload(f)) = l /\ l \in Nat
  BY PayloadShape, Zenon
<1>3. /\ \A i \in 1..h : FrameBytes(f)[i] = FrameHead(f)[i]
      /\ \A i \in 1..l : FrameBytes(f)[h + i] = FramePayload(f)[i]
  BY PayloadShape, Zenon
<1>4. h \in Nat
  BY <1>1, LenNat, Zenon
<1>5. /\ m1 \in Seq(Item) /\ Len(m1) = h
      /\ \A i \in 1..h : m1[i] = [byte |-> FrameHead(f)[i], cut |-> FALSE \/ i = h]
  <2>1. FALSE \in BOOLEAN
    OBVIOUS
  <2>2. /\ m1 \in Seq(Item) /\ Len(m1) = Len(FrameHead(f))
        /\ \A i \in 1..Len(FrameHead(f)) :
             m1[i] = [byte |-> FrameHead(f)[i], cut |-> FALSE \/ i = Len(FrameHead(f))]
    BY <1>1, <2>1, MarkedShape, Zenon
  <2> QED BY <2>2, <1>1, Zenon
<1>6. /\ m2 \in Seq(Item) /\ Len(m2) = l
      /\ \A i \in 1..l : m2[i] = [byte |-> FramePayload(f)[i], cut |-> TRUE \/ i = l]
  <2>1. TRUE \in BOOLEAN
    OBVIOUS
  <2>2. /\ m2 \in Seq(Item) /\ Len(m2) = Len(FramePayload(f))
        /\ \A i \in 1..Len(FramePayload(f)) :
             m2[i] = [byte |-> FramePayload(f)[i], cut |-> TRUE \/ i = Len(FramePayload(f))]
    BY <1>2, <2>1, MarkedShape, Zenon
  <2> QED BY <2>2, <1>2, Zenon
<1>7. Parts3(Item, x, m1, m2, y)
  BY <1>5, <1>6, Concat3, Zenon
<1>8. lx \in Nat
  BY LenNat, Zenon
<1>9. FrameLen(f) = h + l
  BY Zenon DEF FrameLen
<1> HIDE DEF m1, m2, y, h, l, lx
<1>10. /\ y \in Seq(Item) /\ Len(y) = lx + h + l
       /\ \A i \in 1..lx : y[i] = x[i]
       /\ \A i \in 1..h : y[lx + i] = m1[i]
       /\ \A i \in 1..l : y[lx + h + i] = m2[i]
  BY <1>5, <1>6, <1>7, Zenon DEF Parts3, lx
<1>11. Len(y) = lx + FrameLen(f)
  BY <1>4, <1>2, <1>8, <1>9, <1>10
<1>12. ASSUME NEW j \in 1..FrameLen(f) PROVE y[lx + j] = SentItem(f, j)
  <2>1. CASE j <= h
    <3>1. j \in 1..h
      BY <1>2, <1>4, <1>9, <2>1
    <3>2. (FALSE \/ j = h) = (j >= h)
      BY <3>1, <1>4
    <3>3. y[lx + j] = [byte |-> FrameHead(f)[j], cut |-> (FALSE \/ j = h)]
      BY <3>1, <1>5, <1>10, Zenon
    <3>4. FrameHead(f)[j] = FrameBytes(f)[j]
      BY <3>1, <1>3, Zenon
    <3>5. SentItem(f, j) = [byte |-> FrameBytes(f)[j], cut |-> j >= h]
      BY Zenon DEF SentItem, h
    <3> QED BY <3>2, <3>3, <3>4, <3>5
  <2>2. CASE j > h
    <3> DEFINE i == j - h
    <3>1. i \in 1..l /\ lx + h + i = lx + j /\ h + i = j
      BY <1>2, <1>4, <1>8, <1>9, <2>2
    <3> HIDE DEF i
    <3>2. (TRUE \/ i = l) = (j >= h)
      BY <1>2, <1>4, <2>2, <1>9
    <3>3. y[lx + j] = [byte |-> FramePayload(f)[i], cut |-> (TRUE \/ i = l)]
      BY <3>1, <1>6, <1>10, Zenon
    <3>4. FramePayload(f)[i] = FrameBytes(f)[j]
      BY <3>1, <1>3, Zenon
    <3>5. SentItem(f, j) = [byte |-> FrameBytes(f)[j], cut |-> j >= h]
      BY Zenon DEF SentItem, h
    <3> QED BY <3>2, <3>3, <3>4, <3>5
  <2> QED BY <2>1, <2>2, <1>2, <1>4, <1>9
<1>13. IsSent(f, x, y)
  BY <1>10, <1>11, <1>12, Zenon DEF IsSent, lx
<1> QED BY <1>13, Zenon DEF y, m1, m2

\* Sending a frame extends the stream and the wire alike.
LEMMA ViewExtends ==
    ASSUME NEW st \in Seq(Item), NEW base, NEW s, NEW w, View(st, base, s, w),
           NEW f \in Frame, NEW st2, IsSent(f, st, st2), NEW w2, IsSent(f, w, w2)
    PROVE  View(st2, base, s, w2)
<1> DEFINE ls == Len(s)  lw == Len(w)  lt == Len(st)  n == FrameLen(f)
<1>1. ls \in Nat /\ lw \in Nat /\ base \in Nat /\ base + ls + lw = lt /\ s \in Seq(Byte)
  BY ViewType
<1>2. /\ \A i \in 1..ls : s[i] = st[base + i].byte
      /\ \A i \in 1..lw : w[i] = st[base + ls + i]
  BY Zenon DEF View
<1>3. n \in Nat
  BY FrameLenNat, Zenon
<1>4. /\ w2 \in Seq(Item) /\ Len(w2) = lw + n /\ Len(st2) = lt + n
      /\ \A i \in 1..lw : w2[i] = w[i]
      /\ \A i \in 1..lt : st2[i] = st[i]
      /\ \A j \in 1..n : w2[lw + j] = SentItem(f, j)
      /\ \A j \in 1..n : st2[lt + j] = SentItem(f, j)
  BY Zenon DEF IsSent
<1> HIDE DEF ls, lw, lt, n
<1>5. ASSUME NEW i \in 1..ls PROVE s[i] = st2[base + i].byte
  <2>1. base + i \in 1..lt
    BY <1>1
  <2>2. st2[base + i] = st[base + i] /\ s[i] = st[base + i].byte
    BY <2>1, <1>2, <1>4, Zenon
  <2> QED BY <2>2, Zenon
<1>6. ASSUME NEW i \in 1..lw + n PROVE w2[i] = st2[base + ls + i]
  <2>1. CASE i <= lw
    <3>1. i \in 1..lw /\ base + ls + i \in 1..lt
      BY <1>1, <1>3, <2>1
    <3>2. w2[i] = w[i] /\ w[i] = st[base + ls + i] /\ st2[base + ls + i] = st[base + ls + i]
      BY <3>1, <1>2, <1>4, Zenon
    <3> QED BY <3>2, Zenon
  <2>2. CASE i > lw
    <3> DEFINE j == i - lw
    <3>1. j \in 1..n /\ lw + j = i /\ lt + j = base + ls + i
      BY <1>1, <1>3, <2>2
    <3> HIDE DEF j
    <3>2. w2[lw + j] = SentItem(f, j) /\ st2[lt + j] = SentItem(f, j)
      BY <3>1, <1>4, Zenon
    <3> QED BY <3>1, <3>2, Zenon
  <2> QED BY <2>1, <2>2, <1>1, <1>3
<1>7. base + ls + (lw + n) = lt + n
  BY <1>1, <1>3
<1> QED BY <1>1, <1>4, <1>5, <1>6, <1>7, Zenon DEF View, ls

\* A place where a read may end stays one.
LEMMA BoundaryExtends ==
    ASSUME NEW st \in Seq(Item), NEW f, NEW st2, IsSent(f, st, st2), NEW p \in 0..Len(st),
           Boundary(st, p)
    PROVE  Boundary(st2, p)
<1>1. CASE p = 0
  BY <1>1, Zenon DEF Boundary
<1>2. CASE p # 0
  <2>1. p \in 1..Len(st)
    <3>1. Len(st) \in Nat
      BY LenNat, Zenon
    <3> QED BY <3>1, <1>2
  <2>2. st2[p] = st[p]
    BY <2>1, Zenon DEF IsSent
  <2> QED BY <2>2, <1>2, Zenon DEF Boundary
<1> QED BY <1>1, <1>2

\* t is s and then e.
IsAppend(S, s, e, t) ==
    /\ t \in Seq(S) /\ Len(t) = Len(s) + 1 /\ t[Len(s) + 1] = e
    /\ \A i \in 1..Len(s) : t[i] = s[i]

\* Append appends.
LEMMA Appending == ASSUME NEW S, NEW s \in Seq(S), NEW e \in S PROVE IsAppend(S, s, e, Append(s, e))
BY DEF IsAppend

\* The frame that is sent begins where the last one ends.
LEMMA LayoutExtends ==
    ASSUME NEW as, NEW be, NEW st, Layout(as, be, st), NEW f \in Frame,
           NEW st2, IsSent(f, st, st2)
    PROVE  Layout(Append(as, f), Append(be, be[Len(be)] + Len(FrameBytes(f))), st2)
<1> DEFINE as2 == Append(as, f)
           n == FrameLen(f)
           be2 == Append(be, be[Len(be)] + Len(FrameBytes(f)))
           la == Len(as)  lt == Len(st)  lb == Len(be)
<1>1. n \in Nat /\ Len(FrameBytes(f)) = n
  BY FrameLenNat, Zenon
<1>2. /\ as \in Seq(Frame) /\ la \in Nat /\ lt \in Nat /\ be \in Seq(Nat)
      /\ lb = la + 1 /\ be[la + 1] = lt
      /\ \A i \in 1..la + 1 : be[i] \in Nat
  BY LayoutType, Zenon
<1>3. /\ \A i, j \in 1..lb : i <= j => be[i] <= be[j]
      /\ \A i \in 1..la : be[i + 1] = be[i] + FrameLen(as[i])
      /\ \A i \in 1..la : \A j \in 1..FrameLen(as[i]) :
            /\ st[be[i] + j].byte = FrameBytes(as[i])[j]
            /\ st[be[i] + j].cut => j >= HeadLen(as[i])
  BY Zenon DEF Layout
<1>4. /\ st2 \in Seq(Item) /\ Len(st2) = lt + n
      /\ \A i \in 1..lt : st2[i] = st[i]
      /\ \A j \in 1..n : st2[lt + j] = SentItem(f, j)
  BY Zenon DEF IsSent
<1>5. be[lb] = lt /\ be[lb] + Len(FrameBytes(f)) = lt + n
  BY <1>1, <1>2, Zenon
<1>6. lt + n \in Nat
  <2> HIDE DEF lt, n
  <2> QED BY <1>1, <1>2
<1>7. IsAppend(Frame, as, f, as2)
  BY <1>2, Appending, Zenon
<1>8. IsAppend(Nat, be, lt + n, be2)
  BY <1>2, <1>5, <1>6, Appending, Zenon
<1> HIDE DEF as2, be2, la, lt, lb, n
<1>9. /\ as2 \in Seq(Frame) /\ Len(as2) = la + 1 /\ as2[la + 1] = f
      /\ \A i \in 1..la : as2[i] = as[i]
  BY <1>7, Zenon DEF IsAppend, la
<1>10. /\ be2 \in Seq(Nat) /\ Len(be2) = lb + 1 /\ be2[lb + 1] = lt + n
       /\ \A i \in 1..lb : be2[i] = be[i]
  BY <1>8, Zenon DEF IsAppend, lb
<1>11. Len(be2) = Len(as2) + 1 /\ be2[Len(as2) + 1] = Len(st2)
  BY <1>2, <1>4, <1>9, <1>10, Zenon
<1>12. ASSUME NEW i \in 1..Len(be2), NEW j \in 1..Len(be2), i <= j PROVE be2[i] <= be2[j]
  <2>1. i \in 1..lb + 1 /\ j \in 1..lb + 1
    BY <1>10, Zenon
  <2>2. CASE j = lb + 1
    <3>1. be2[j] = lt + n
      BY <2>2, <1>10, Zenon
    <3>2. CASE i = lb + 1
      BY <3>1, <3>2, <2>2, <1>6
    <3>3. CASE i # lb + 1
      <4>1. i \in 1..lb /\ lb \in 1..lb /\ i <= lb /\ i \in 1..la + 1
        BY <2>1, <3>3, <1>2
      <4>2. be2[i] = be[i] /\ be[i] <= be[lb] /\ be[i] \in Nat /\ be[lb] = lt
        BY <4>1, <1>2, <1>3, <1>10, Zenon
      <4> QED BY <4>2, <3>1, <1>1, <1>2
    <3> QED BY <3>2, <3>3
  <2>3. CASE j # lb + 1
    <3>1. i \in 1..lb /\ j \in 1..lb
      BY <2>1, <2>3, <1>2, <1>12
    <3> QED BY <3>1, <1>3, <1>10, <1>12, Zenon
  <2> QED BY <2>2, <2>3
<1>13. ASSUME NEW i \in 1..Len(as2) PROVE be2[i + 1] = be2[i] + FrameLen(as2[i])
  <2>1. i \in 1..la + 1
    BY <1>9, Zenon
  <2>2. CASE i = la + 1
    <3>1. be2[i + 1] = lt + n /\ i \in 1..lb
      BY <2>2, <1>2, <1>10
    <3>2. be2[i] = lt /\ as2[i] = f
      BY <3>1, <2>2, <1>2, <1>9, <1>10, Zenon
    <3> QED BY <3>1, <3>2, Zenon DEF n
  <2>3. CASE i # la + 1
    <3>1. i \in 1..la /\ i \in 1..lb /\ i + 1 \in 1..lb
      BY <2>1, <2>3, <1>2
    <3>2. /\ be2[i + 1] = be[i + 1] /\ be2[i] = be[i] /\ as2[i] = as[i]
          /\ be[i + 1] = be[i] + FrameLen(as[i])
      BY <3>1, <1>3, <1>9, <1>10, Zenon
    <3> QED BY <3>2, Zenon
  <2> QED BY <2>2, <2>3
<1>14. ASSUME NEW i \in 1..Len(as2), NEW j \in 1..FrameLen(as2[i])
       PROVE  /\ st2[be2[i] + j].byte = FrameBytes(as2[i])[j]
              /\ st2[be2[i] + j].cut => j >= HeadLen(as2[i])
  <2>1. i \in 1..la + 1
    BY <1>9, Zenon
  <2>2. CASE i = la + 1
    <3>1. i \in 1..lb
      BY <2>2, <1>2
    <3>2. be2[i] = lt /\ as2[i] = f
      BY <3>1, <2>2, <1>2, <1>9, <1>10, Zenon
    <3>3. st2[lt + j] = SentItem(f, j)
      BY <3>2, <1>4, <1>14, Zenon DEF n
    <3>4. st2[be2[i] + j] = SentItem(as2[i], j)
      BY <3>2, <3>3, Zenon
    <3>5. /\ SentItem(as2[i], j).byte = FrameBytes(as2[i])[j]
          /\ SentItem(as2[i], j).cut = (j >= HeadLen(as2[i]))
      BY Zenon DEF SentItem
    <3> QED BY <3>4, <3>5, Zenon
  <2>3. CASE i # la + 1
    <3>1. i \in 1..la /\ i \in 1..lb /\ i + 1 \in 1..lb /\ lb \in 1..lb /\ i + 1 <= lb
          /\ i \in 1..la + 1
      BY <2>1, <2>3, <1>2
    <3>2. /\ be2[i] = be[i] /\ as2[i] = as[i] /\ be[i] \in Nat
          /\ be[i + 1] = be[i] + FrameLen(as[i]) /\ be[i + 1] <= be[lb] /\ be[lb] = lt
          /\ j \in 1..FrameLen(as[i])
      BY <3>1, <1>2, <1>3, <1>9, <1>10, Zenon
    <3>3. FrameLen(as[i]) \in Nat
      <4>1. as[i] \in Frame
        BY <3>1, <1>2, ElementOfSeq, Zenon DEF la
      <4> QED BY <4>1, FrameLenNat, Zenon
    <3> DEFINE b == be[i]  g == FrameLen(as[i])  e == be[i + 1]
    <3>4. b \in Nat /\ g \in Nat /\ e = b + g /\ e <= lt /\ j \in 1..g
      BY <3>2, <3>3, Zenon
    <3> HIDE DEF b, g, e
    <3>5. b + j \in 1..lt
      BY <3>4, <1>2
    <3>6. st2[be[i] + j] = st[be[i] + j]
      BY <3>5, <1>4, Zenon DEF b
    <3>7. /\ st[be[i] + j].byte = FrameBytes(as[i])[j]
          /\ st[be[i] + j].cut => j >= HeadLen(as[i])
      BY <3>1, <3>2, <1>3, Zenon
    <3> QED BY <3>2, <3>6, <3>7, Zenon
  <2> QED BY <2>2, <2>3
<1>15. Layout(as2, be2, st2)
  BY <1>4, <1>9, <1>10, <1>11, <1>12, <1>13, <1>14, Zenon DEF Layout
<1> QED BY <1>15, Zenon DEF as2, be2

-----------------------------------------------------------------------------
(* Decoding one frame.                                                     *)

\* The n bytes of s behind the first i.
IsPart(s, i, n, t) ==
    /\ t \in Seq(Byte) /\ Len(t) = n
    /\ \A j \in 1..n : t[j] = s[i + j]

\* SubSeq is a part.
LEMMA SubSeqPart ==
    ASSUME NEW s \in Seq(Byte), NEW i \in Nat, NEW n \in Nat, i + n <= Len(s)
    PROVE  IsPart(s, i, n, SubSeq(s, i + 1, i + n))
<1>1. /\ SubSeq(s, i + 1, i + n) \in Seq(Byte)
      /\ Len(SubSeq(s, i + 1, i + n)) = IF i + 1 <= i + n THEN i + n - (i + 1) + 1 ELSE 0
  BY SubSeqProperties
<1>2. Len(SubSeq(s, i + 1, i + n)) = n
  BY <1>1
<1>3. ASSUME NEW j \in 1..n PROVE SubSeq(s, i + 1, i + n)[j] = s[i + j]
  OBVIOUS
<1> QED BY <1>1, <1>2, <1>3, Zenon DEF IsPart

\* A sequence is a function on 1..Len(s).
LEMMA SeqIsFcn == ASSUME NEW S, NEW s \in Seq(S) PROVE s \in [1..Len(s) -> S]
OBVIOUS

\* x and y agree everywhere.
Same(x, y) == Len(x) = Len(y) /\ \A i \in 1..Len(y) : x[i] = y[i]

\* Sequences that agree are equal.
LEMMA SameSeq ==
    ASSUME NEW S, NEW x \in Seq(S), NEW y \in Seq(S), Same(x, y)
    PROVE  x = y
<1>1. x \in [1..Len(y) -> S] /\ y \in [1..Len(y) -> S]
  BY SeqIsFcn, Zenon DEF Same
<1>2. \A i \in 1..Len(y) : x[i] = y[i]
  BY Zenon DEF Same
<1> DEFINE D == 1..Len(y)
<1> HIDE DEF D
<1>3. x \in [D -> S] /\ y \in [D -> S] /\ \A i \in D : x[i] = y[i]
  BY <1>1, <1>2, Zenon DEF D
<1> QED BY <1>3

\* s is x and then y.
LEMMA HeadBytesRead ==
    ASSUME NEW k, B!InRange(k), NEW beyond \in Seq(Byte), NEW i \in Nat, NEW n \in Nat,
           i + n <= Len(B!ToString(k))
    PROVE  IsPart(B!ToString(k), i, n, HeadBytes(k, beyond, i, n))
<1> DEFINE s == B!ToString(k)
           m == Memory(k, beyond)
           r == k.read_idx
           t == HeadBytes(k, beyond, i, n)
<1>1. /\ s \in Seq(Byte) /\ Len(s) = B!ReadableBytes(k) /\ B!ReadableBytes(k) \in Nat
      /\ \A j \in 1..Len(s) : s[j] = k.buffer[r + j]
  BY Readable
<1>2. /\ k.buffer \in Seq(Byte) /\ r \in Nat /\ k.write_idx \in Nat
      /\ k.write_idx <= Len(k.buffer) /\ B!ReadableBytes(k) = k.write_idx - r
  BY DEF B!InRange, B!ReadableBytes, Byte
<1>3. Len(k.buffer) \in Nat /\ Len(s) \in Nat
  BY <1>1, <1>2, LenNat, Zenon
<1>4. r + Len(s) <= Len(k.buffer)
  BY <1>1, <1>2, <1>3
<1>5. /\ m \in Seq(Byte) /\ Len(m) = Len(k.buffer) + Len(beyond)
      /\ \A j \in 1..Len(k.buffer) : m[j] = k.buffer[j]
  BY <1>2, Concat2, ZenonT(40) DEF Memory
<1>6. Len(beyond) \in Nat
  BY LenNat, Zenon
<1> DEFINE ri == r + i  ls == Len(s)  lk == Len(k.buffer)  lm == Len(m)
<1>7. i + n <= ls
  OBVIOUS
<1>8. t = SubSeq(m, ri + 1, ri + n)
  BY Zenon DEF HeadBytes
<1>9. ls \in Nat /\ lk \in Nat /\ r + ls <= lk /\ lm = lk + Len(beyond) /\ r \in Nat
  BY <1>2, <1>3, <1>4, <1>5, Zenon
<1> HIDE DEF ls, lk, lm, s, r
<1>10. ri \in Nat /\ ri + n <= lm
  BY <1>6, <1>7, <1>9
<1>11. IsPart(m, ri, n, t)
  <2> HIDE DEF ri, t, m
  <2> QED BY <1>5, <1>8, <1>10, SubSeqPart, Zenon DEF lm
<1>12. ASSUME NEW j \in 1..n PROVE t[j] = s[i + j]
  <2>1. ri + j \in 1..lk /\ i + j \in 1..ls /\ r + (i + j) = ri + j
    BY <1>7, <1>9
  <2>2. t[j] = m[ri + j]
    BY <1>11, Zenon DEF IsPart
  <2>3. m[ri + j] = k.buffer[ri + j] /\ s[i + j] = k.buffer[r + (i + j)]
    BY <2>1, <1>1, <1>5, Zenon DEF lk, ls
  <2> QED BY <2>1, <2>2, <2>3, Zenon
<1>13. IsPart(s, i, n, t)
  BY <1>11, <1>12, Zenon DEF IsPart
<1> QED BY <1>13, Zenon DEF s, t

\* The memory behind the vector holds bytes.
LEMMA BeyondIsSeq == ASSUME NEW beyond \in Beyond PROVE beyond \in Seq(Byte)
<1>1. ASSUME NEW n \in Nat PROVE [i \in 1..n |-> 0] \in Seq(Byte)
  <2>1. [i \in 1..n |-> 0] \in [1..n -> Byte]
    BY DEF Byte
  <2> QED BY <2>1, FcnIsSeq, Zenon
<1>2. 13 \in Byte /\ 10 \in Byte
  BY DEF Byte
<1>3. CRLF \in Seq(Byte)
  BY <1>2, TwoIsSeq, ZenonT(40) DEF CRLF, CR, LF
<1>4. CRLF \o [i \in 1..12 |-> 0] \in Seq(Byte)
  <2>1. [i \in 1..12 |-> 0] \in Seq(Byte)
    BY <1>1
  <2> QED BY <2>1, <1>3, Concat2, Zenon
<1>5. [i \in 1..14 |-> 0] \in Seq(Byte)
  BY <1>1
<1> QED BY <1>4, <1>5, Zenon DEF Beyond

-----------------------------------------------------------------------------
(* The fields of a head.                                                   *)

Opcode(byte) == byte % 16
MaskBit(byte) == byte \div 128
LengthBits(byte) == byte % 128

\* The opcode of the first byte.
LEMMA FirstByte == ASSUME NEW type \in 0..15 PROVE Opcode(128 + type) = type
BY DEF Opcode

\* The mask and the length of the second byte.
LEMMA SecondByte ==
    ASSUME NEW mask \in {0, 1}, NEW length \in 0..127
    PROVE  MaskBit(128 * mask + length) = mask /\ LengthBits(128 * mask + length) = length
<1>1. CASE mask = 0
  BY <1>1 DEF MaskBit, LengthBits
<1>2. CASE mask = 1
  BY <1>2 DEF MaskBit, LengthBits
<1> QED BY <1>1, <1>2

\* The length of 7 bits tells how many bytes follow it.
LEMMA WidthOfLength ==
    ASSUME NEW w \in {0, 2, 8}, NEW n \in Nat, n < LengthLimit(w)
    PROVE  WidthOf(Length(w, n)) = w
BY DEF WidthOf, Length, LengthLimit

\* Leading zeros add nothing.
LEMMA JoinZero == Join(0, 0) = 0 /\ \A x \in Byte : Join(0, x) = x
BY DEF Join, Byte

\* What be16toh and be64toh make of the extended length.
LEMMA ExtendedLength ==
    ASSUME NEW w \in {0, 2, 8}, w # 0, NEW n \in Nat, n < LengthLimit(w),
           NEW t, IsExtended(w, n, t)
    PROVE  BigEndian(t) = n
<1>1. Join(High(n), Low(n)) = n /\ Low(n) \in Byte /\ High(n) \in Byte
  BY TwoBytes
<1>2. Len(t) = w /\ \A i \in 1..w : t[i] = ExtendedByte(w, n, i)
  BY Zenon DEF IsExtended
<1>3. CASE w = 2
  <2>1. 1 \in 1..2 /\ 2 \in 1..2 /\ 1 # 2 /\ 1 = 2 - 1
    OBVIOUS
  <2>2. t[1] = High(n) /\ t[2] = Low(n)
    BY <1>2, <1>3, <2>1, Zenon DEF ExtendedByte
  <2>3. BigEndian(t) = Join(t[1], t[2])
    BY <1>2, <1>3, Zenon DEF BigEndian, be16toh
  <2> QED BY <2>2, <2>3, <1>1, Zenon
<1>4. CASE w = 8
  <2> DEFINE E(i) == t[i] = ExtendedByte(8, n, i)
  <2>1. E(1) /\ E(2) /\ E(3) /\ E(4) /\ E(5) /\ E(6) /\ E(7) /\ E(8)
    <3>1. ASSUME NEW i \in 1..8 PROVE E(i)
      BY <1>2, <1>4, Zenon
    <3> HIDE DEF E
    <3> QED BY <3>1
  <2>2. /\ ExtendedByte(8, n, 8) = Low(n) /\ ExtendedByte(8, n, 7) = High(n)
        /\ ExtendedByte(8, n, 1) = 0 /\ ExtendedByte(8, n, 2) = 0
        /\ ExtendedByte(8, n, 3) = 0 /\ ExtendedByte(8, n, 4) = 0
        /\ ExtendedByte(8, n, 5) = 0 /\ ExtendedByte(8, n, 6) = 0
    BY DEF ExtendedByte
  <2>3. /\ t[1] = 0 /\ t[2] = 0 /\ t[3] = 0 /\ t[4] = 0 /\ t[5] = 0 /\ t[6] = 0
        /\ t[7] = High(n) /\ t[8] = Low(n)
    BY <2>1, <2>2, Zenon
  <2>4. Len(t) # 2
    BY <1>2, <1>4
  <2>5. BigEndian(t) = be64toh(t)
    BY <2>4, Zenon DEF BigEndian
  <2>6. be32toh(t) = 0
    BY <2>3, JoinZero, Zenon DEF be32toh, be16toh
  <2>7. Join(0, High(n)) = High(n)
    BY <1>1, JoinZero, Zenon
  <2>8. be64toh(t) = Join(High(n), Low(n))
    <3>1. be64toh(t) = Join(Join(Join(Join(be32toh(t), t[5]), t[6]), t[7]), t[8])
      BY Zenon DEF be64toh
    <3>2. Join(Join(be32toh(t), t[5]), t[6]) = 0
      BY <2>3, <2>6, JoinZero, Zenon
    <3>3. Join(Join(Join(be32toh(t), t[5]), t[6]), t[7]) = High(n)
      BY <2>3, <2>7, <3>2, Zenon
    <3> QED BY <2>3, <3>1, <3>3, Zenon
  <2> QED BY <2>5, <2>8, <1>1, Zenon
<1> QED BY <1>3, <1>4

-----------------------------------------------------------------------------
(* DecodeFrameHead and DecodePayload.                                      *)

\* The members of the codec w.
IsCodec(w, buf, open, state, type, payload, key, remains, last) ==
    /\ DOMAIN w = {"buf", "open", "state", "req", "mask_key", "payload_remains",
                   "last_read_idx", "close_frame"}
    /\ w.buf = buf /\ w.open = open /\ w.state = state
    /\ w.req = [type |-> type, payload |-> payload]
    /\ w.mask_key = key /\ w.payload_remains = remains /\ w.last_read_idx = last

\* DecodeFrameHead, of the fields of the head.
HeadDone(w, opcode, mask, remains, key, size) ==
    IF MustClose(mask, opcode)
    THEN [w EXCEPT !.buf = B!DropAllBytes(w.buf), !.open = FALSE,
                   !.close_frame = EncodeFrameHead(0, kClose)]
    ELSE [w EXCEPT !.payload_remains = remains, !.mask_key = key,
                   !.buf = B!DropBytes(w.buf, size), !.req.type = opcode,
                   !.state = "ExceptPayload"]

\* payload_remains after DecodeFrameHead.
Remains(k, beyond, length) ==
    IF WidthOf(length) = 0 THEN length ELSE BigEndian(HeadBytes(k, beyond, 2, WidthOf(length)))

\* DecodeFrameHead is HeadDone of the fields it reads.
LEMMA HeadDoneIsDecode ==
    ASSUME NEW w, NEW beyond
    PROVE  DecodeFrameHead(w, beyond) =
             LET x == HeadBytes(w.buf, beyond, 0, 1)[1]
                 y == HeadBytes(w.buf, beyond, 1, 1)[1]
                 width == WidthOf(LengthBits(y))
             IN  HeadDone(w, Opcode(x), MaskBit(y), Remains(w.buf, beyond, LengthBits(y)),
                          HeadBytes(w.buf, beyond, 2 + width, 4), 2 + width + 4)
BY Zenon DEF DecodeFrameHead, HeadDone, Opcode, MaskBit, Remains, LengthBits

\* DecodeFrameHead finds in a buffer that begins with the head of f what was sent.
LEMMA HeadDecoded ==
    ASSUME NEW w, B!InRange(w.buf), NEW beyond \in Seq(Byte), NEW f \in Frame,
           BeginsWith(B!ToString(w.buf), f)
    PROVE  DecodeFrameHead(w, beyond) =
             HeadDone(w, f.type, f.mask, Len(f.payload), f.key, HeadLen(f))
<1> DEFINE k == w.buf
           s == B!ToString(k)
           n == Len(f.payload)
           x == HeadBytes(k, beyond, 0, 1)[1]
           y == HeadBytes(k, beyond, 1, 1)[1]
           h == HeadLen(f)
           fw == f.width
           length == Length(fw, n)
<1>1. /\ f.type \in 0..15 /\ f.mask \in {0, 1} /\ f.key \in [1..4 -> Byte]
      /\ fw \in {0, 2, 8} /\ n \in Nat /\ n < LengthLimit(fw)
  BY FrameFields
<1>2. /\ Len(FrameHead(f)) = h /\ FrameHead(f)[1] = 128 + f.type
      /\ FrameHead(f)[2] = 128 * f.mask + length
      /\ \A i \in 1..fw : FrameHead(f)[2 + i] = ExtendedByte(fw, n, i)
      /\ f.mask = 1 => \A i \in 1..4 : FrameHead(f)[2 + fw + i] = f.key[i]
  BY HeadShape, Zenon
<1>3. h = 2 + fw + (IF f.mask = 1 THEN 4 ELSE 0)
  BY Zenon DEF HeadLen
<1>4. /\ h <= Len(s) /\ \A j \in 1..h : s[j] = FrameHead(f)[j]
  BY Zenon DEF BeginsWith
<1>5. s \in Seq(Byte) /\ Len(s) \in Nat
  BY Readable, LenNat
<1> DEFINE ls == Len(s)
           m == IF f.mask = 1 THEN 4 ELSE 0
<1>6. m \in Nat /\ fw \in Nat
  BY <1>1
<1>7. ls \in Nat /\ h <= ls /\ h = 2 + fw + m
  BY <1>3, <1>4, <1>5, Zenon
<1>8. f.mask = 1 => m = 4
  BY Zenon
<1>9. length \in 0..127
  BY <1>1, LengthIsByte
<1> HIDE DEF k, s, n, x, y, h, fw, length, ls, m
<1>10. s[1] = 128 + f.type /\ s[2] = 128 * f.mask + length
  <2>1. 1 \in 1..h /\ 2 \in 1..h
    BY <1>6, <1>7
  <2> QED BY <2>1, <1>2, <1>4, Zenon
<1>11. x = s[1] /\ y = s[2]
  <2>1. 0 + 1 <= ls /\ 1 + 1 <= ls /\ 0 \in Nat /\ 1 \in Nat
    BY <1>6, <1>7
  <2>2. /\ IsPart(s, 0, 1, HeadBytes(k, beyond, 0, 1))
        /\ IsPart(s, 1, 1, HeadBytes(k, beyond, 1, 1))
    BY <2>1, HeadBytesRead, Zenon DEF ls, s, k
  <2>3. 1 \in 1..1 /\ 0 + 1 = 1 /\ 1 + 1 = 2
    OBVIOUS
  <2>4. x = s[0 + 1]
    BY <2>2, <2>3, Zenon DEF IsPart, x
  <2>5. y = s[1 + 1]
    BY <2>2, <2>3, Zenon DEF IsPart, y
  <2> QED BY <2>3, <2>4, <2>5
<1>12. Opcode(x) = f.type
  BY <1>1, <1>10, <1>11, FirstByte, Zenon
<1>13. MaskBit(y) = f.mask /\ LengthBits(y) = length
  <2>1. y = 128 * f.mask + length
    BY <1>10, <1>11, Zenon
  <2>2. MaskBit(128 * f.mask + length) = f.mask /\ LengthBits(128 * f.mask + length) = length
    BY <1>1, <1>9, SecondByte, ZenonT(40)
  <2> QED BY <2>1, <2>2, Zenon
<1>14. WidthOf(length) = fw
  BY <1>1, WidthOfLength DEF length
<1> DEFINE remains == Remains(k, beyond, length)
           key == HeadBytes(k, beyond, 2 + fw, 4)
<1>15. DecodeFrameHead(w, beyond) = HeadDone(w, f.type, f.mask, remains, key, 2 + fw + 4)
  BY <1>12, <1>13, <1>14, HeadDoneIsDecode, Zenon DEF k, x, y
<1>16. CASE MustClose(f.mask, f.type)
  BY <1>15, <1>16, Zenon DEF HeadDone
<1>17. CASE ~MustClose(f.mask, f.type)
  <2>1. f.mask = 1
    BY <1>1, <1>17 DEF MustClose
  <2>2. h = 2 + fw + 4 /\ 2 + fw \in Nat /\ 4 \in Nat /\ 2 + fw + 4 <= ls /\ 2 + fw <= ls
        /\ 2 \in Nat /\ fw \in Nat
    BY <2>1, <1>6, <1>7, <1>8
  <2>3. key = f.key
    <3>1. IsPart(s, 2 + fw, 4, key)
      BY <2>2, HeadBytesRead, Zenon DEF ls, s, k
    <3>2. \A i \in 1..4 : s[2 + fw + i] = f.key[i]
      <4> TAKE i \in 1..4
      <4>1. 2 + fw + i \in 1..h
        BY <2>2
      <4> QED BY <4>1, <2>1, <1>2, <1>4, Zenon
    <3>3. \A i \in 1..4 : key[i] = f.key[i]
      BY <3>1, <3>2, Zenon DEF IsPart
    <3>4. key \in Seq(Byte) /\ Len(key) = 4
      BY <3>1, Zenon DEF IsPart
    <3>5. key \in [1..4 -> Byte]
      <4> HIDE DEF key
      <4> QED BY <3>4, SeqIsFcn, Zenon
    <3>6. f.key \in [1..4 -> Byte]
      BY <1>1
    <3> HIDE DEF key
    <3> QED BY <3>3, <3>5, <3>6, SMTT(40)
  <2>4. remains = n
    <3>1. CASE fw = 0
      <4>1. length = n
        BY <3>1, Zenon DEF length, Length
      <4> QED BY <4>1, <3>1, <1>14, Zenon DEF Remains
    <3>2. CASE fw # 0
      <4> DEFINE t == HeadBytes(k, beyond, 2, fw)
      <4>1. IsPart(s, 2, fw, t)
        BY <2>2, HeadBytesRead, Zenon DEF ls, s, k
      <4>2. \A i \in 1..fw : s[2 + i] = ExtendedByte(fw, n, i)
        <5> TAKE i \in 1..fw
        <5>1. 2 + i \in 1..h
          BY <2>2
        <5> QED BY <5>1, <1>2, <1>4, Zenon
      <4>3. IsExtended(fw, n, t)
        BY <4>1, <4>2, Zenon DEF IsExtended, IsPart
      <4>4. BigEndian(t) = n
        <5> HIDE DEF t
        <5> QED BY <4>3, <3>2, <1>1, ExtendedLength
      <4>5. Remains(k, beyond, length) = BigEndian(t)
        BY <3>2, <1>14, Zenon DEF Remains
      <4> QED BY <4>4, <4>5, Zenon
    <3> QED BY <3>1, <3>2
  <2>5. DecodeFrameHead(w, beyond) = HeadDone(w, f.type, f.mask, n, f.key, h)
    BY <2>2, <2>3, <2>4, <1>15, Zenon
  <2> QED BY <2>5, Zenon DEF n, h
<1> QED BY <1>16, <1>17

\* The smaller of two numbers.
LEMMA MinPair ==
    ASSUME NEW x \in Nat, NEW y \in Nat
    PROVE  Min({x, y}) = IF x <= y THEN x ELSE y
<1> DEFINE m == IF x <= y THEN x ELSE y
<1>1. m \in {x, y} /\ \A z \in {x, y} : m <= z
  OBVIOUS
<1>2. ASSUME NEW q \in {x, y}, \A z \in {x, y} : q <= z PROVE q = m
  BY <1>2
<1> HIDE DEF m
<1>3. Min({x, y}) \in {x, y} /\ \A z \in {x, y} : Min({x, y}) <= z
  BY <1>1, Zenon DEF Min
<1>4. Min({x, y}) = m
  BY <1>2, <1>3, Zenon
<1> QED BY <1>4, Zenon DEF m

\* p is what has been read of the payload of f, l bytes, and r bytes remain.
ReadSoFar(f, p, l, r) ==
    /\ p \in Seq(Byte) /\ Len(p) = l /\ l \in 0..Len(f.payload) /\ r = Len(f.payload) - l
    /\ \A i \in 1..l : p[i] = f.payload[i]

\* The bytes DecodePayload unmasks.
Unmasked(w, size) ==
    [i \in 1..size |-> XorByte(w.buf.buffer[w.buf.read_idx + i],
                              w.mask_key[MaskIndex(i - 1, w.last_read_idx) + 1])]

\* DecodePayload, of the number of bytes it takes and what they are.
PayloadDone(w, size, data) ==
    LET done == PayloadComplete(w.payload_remains, size)
    IN  [w EXCEPT !.payload_remains = @ - size,
                  !.last_read_idx = IF done THEN 0 ELSE @ + size,
                  !.req.payload = @ \o data,
                  !.buf = TakePayload(w.buf, data),
                  !.state = IF done THEN "ParseFinished" ELSE @]

\* DecodePayload is PayloadDone of the bytes it unmasks.
LEMMA PayloadDoneIsDecode ==
    ASSUME NEW w
    PROVE  DecodePayload(w) =
             LET size == Min({B!ReadableBytes(w.buf), w.payload_remains})
             IN  PayloadDone(w, size, Unmasked(w, size))
BY Zenon DEF DecodePayload, PayloadDone, Unmasked

\* Unmasking with the key from where the last read ended gives back the payload.
LEMMA UnmaskedPayload ==
    ASSUME NEW w, B!InRange(w.buf), NEW f \in Frame, f.mask = 1, w.mask_key = f.key,
           NEW l \in 0..Len(f.payload), w.last_read_idx = l,
           GoesOn(f, l, B!ToString(w.buf)),
           NEW size \in Nat, size <= Len(B!ToString(w.buf)), size <= Len(f.payload) - l
    PROVE  /\ Unmasked(w, size) \in Seq(Byte) /\ Len(Unmasked(w, size)) = size
           /\ \A i \in 1..size : Unmasked(w, size)[i] = f.payload[l + i]
<1> DEFINE s == B!ToString(w.buf)  n == Len(f.payload)  data == Unmasked(w, size)
           ls == Len(s)
<1>1. f.key \in [1..4 -> Byte] /\ f.payload \in Seq(Byte) /\ n \in Nat
  BY FrameFields
<1>2. /\ ls \in Nat /\ \A i \in 1..ls : s[i] = w.buf.buffer[w.buf.read_idx + i]
  BY Readable
<1>3. /\ size <= ls /\ size <= n - l /\ l \in 0..n
  OBVIOUS
<1>4. \A i \in 1..ls : i <= n - l => s[i] = FramePayload(f)[l + i]
  BY Zenon DEF GoesOn
<1>5. \A i \in 1..n : FramePayload(f)[i] = XorByte(f.payload[i], f.key[((i - 1) % 4) + 1])
  BY PayloadShape, Zenon
<1>6. data = [i \in 1..size |-> XorByte(w.buf.buffer[w.buf.read_idx + i],
                                       f.key[MaskIndex(i - 1, l) + 1])]
  BY Zenon DEF Unmasked
<1>7. \A i \in 1..n : f.payload[i] \in Byte
  BY <1>1, ElementOfSeq, Zenon
<1> HIDE DEF s, n, data, ls
<1>8. ASSUME NEW i \in 1..size PROVE data[i] = f.payload[l + i] /\ f.payload[l + i] \in Byte
  <2> DEFINE q == l + i
             x == ((q - 1) % 4) + 1
             p == f.payload[q]
             y == f.key[x]
  <2>1. q \in 1..n /\ i \in 1..ls /\ i <= n - l
    BY <1>1, <1>2, <1>3
  <2>2. x \in 1..4
    BY <2>1, <1>1
  <2>3. MaskIndex(i - 1, l) + 1 = x
    <3>1. i - 1 + l = q - 1
      BY <1>1, <1>3
    <3> QED BY <3>1, Zenon DEF MaskIndex
  <2>4. p \in Byte /\ y \in Byte
    <3>1. p \in Byte
      BY <2>1, <1>7, Zenon
    <3> HIDE DEF x
    <3>2. y \in Byte
      BY <2>2, <1>1
    <3> QED BY <3>1, <3>2
  <2>5. w.buf.buffer[w.buf.read_idx + i] = XorByte(p, y)
    <3>1. s[i] = w.buf.buffer[w.buf.read_idx + i] /\ s[i] = FramePayload(f)[q]
      BY <2>1, <1>2, <1>4, Zenon
    <3>2. FramePayload(f)[q] = XorByte(p, y)
      BY <2>1, <1>5, Zenon
    <3> QED BY <3>1, <3>2, Zenon
  <2>6. data[i] = XorByte(w.buf.buffer[w.buf.read_idx + i], f.key[MaskIndex(i - 1, l) + 1])
    BY <1>6, Zenon
  <2>7. data[i] = XorByte(XorByte(p, y), y)
    BY <2>3, <2>5, <2>6, Zenon
  <2> HIDE DEF p, y
  <2>8. XorByte(XorByte(p, y), y) = p
    BY <2>4, XorAssumption, Zenon
  <2> QED BY <2>4, <2>7, <2>8, Zenon DEF p
<1>9. data \in [1..size -> Byte]
  <2>1. data = [i \in 1..size |-> data[i]]
    BY <1>6, Zenon
  <2>2. \A i \in 1..size : data[i] \in Byte
    BY <1>8, Zenon
  <2> QED BY <2>1, <2>2, Zenon
<1>10. data \in Seq(Byte) /\ Len(data) = size
  BY <1>9, FcnIsSeq, Zenon
<1> QED BY <1>8, <1>10, Zenon DEF data

\* The members DecodePayload changes.
LEMMA CodecPayload ==
    ASSUME NEW k, NEW o, NEW st, NEW t, NEW p, NEW key, NEW r, NEW l,
           NEW w, IsCodec(w, k, o, st, t, p, key, r, l),
           NEW r2, NEW l2, NEW p2, NEW k2, NEW st2
    PROVE  IsCodec([w EXCEPT !.payload_remains = r2, !.last_read_idx = l2, !.req.payload = p2,
                             !.buf = k2, !.state = st2],
                   k2, o, st2, t, p2, key, r2, l2)
BY DEF IsCodec

\* The members DecodeFrameHead changes.
LEMMA CodecHead ==
    ASSUME NEW k, NEW o, NEW st, NEW t, NEW p, NEW key, NEW r, NEW l,
           NEW w, IsCodec(w, k, o, st, t, p, key, r, l),
           NEW r2, NEW key2, NEW k2, NEW t2
    PROVE  IsCodec([w EXCEPT !.payload_remains = r2, !.mask_key = key2, !.buf = k2,
                             !.req.type = t2, !.state = "ExceptPayload"],
                   k2, o, "ExceptPayload", t2, p, key2, r2, l)
BY DEF IsCodec

\* The members a close frame changes.
LEMMA CodecClosed ==
    ASSUME NEW k, NEW o, NEW st, NEW t, NEW p, NEW key, NEW r, NEW l,
           NEW w, IsCodec(w, k, o, st, t, p, key, r, l),
           NEW k2, NEW cf
    PROVE  IsCodec([w EXCEPT !.buf = k2, !.open = FALSE, !.close_frame = cf],
                   k2, FALSE, st, t, p, key, r, l)
BY DEF IsCodec

\* The codec after DecodePayload.
LEMMA CodecPayloadDone ==
    ASSUME NEW k, NEW o, NEW st, NEW t, NEW p, NEW key, NEW r, NEW l,
           NEW w, IsCodec(w, k, o, st, t, p, key, r, l),
           NEW size, NEW data
    PROVE  IsCodec(PayloadDone(w, size, data), TakePayload(k, data), o,
                   IF r = size THEN "ParseFinished" ELSE st, t, p \o data,
                   key, r - size, IF r = size THEN 0 ELSE l + size)
<1> DEFINE r2 == w.payload_remains - size
           l2 == IF w.payload_remains = size THEN 0 ELSE w.last_read_idx + size
           p2 == w.req.payload \o data
           k2 == TakePayload(w.buf, data)
           st2 == IF w.payload_remains = size THEN "ParseFinished" ELSE w.state
<1>1. PayloadDone(w, size, data) =
        [w EXCEPT !.payload_remains = r2, !.last_read_idx = l2, !.req.payload = p2,
                  !.buf = k2, !.state = st2]
  BY Zenon DEF PayloadDone, PayloadComplete
<1>2. /\ k2 = TakePayload(k, data) /\ st2 = (IF r = size THEN "ParseFinished" ELSE st)
      /\ p2 = p \o data /\ r2 = r - size /\ l2 = (IF r = size THEN 0 ELSE l + size)
  <2>1. /\ w.buf = k /\ w.state = st /\ w.req.payload = p /\ w.payload_remains = r
        /\ w.last_read_idx = l
    BY DEF IsCodec
  <2> QED BY <2>1, Zenon
<1> HIDE DEF r2, l2, p2, k2, st2
<1>3. IsCodec(PayloadDone(w, size, data), k2, o, st2, t, p2, key, r2, l2)
  <2> DEFINE v == [w EXCEPT !.payload_remains = r2, !.last_read_idx = l2, !.req.payload = p2,
                            !.buf = k2, !.state = st2]
  <2>1. IsCodec(v, k2, o, st2, t, p2, key, r2, l2)
    BY CodecPayload, Zenon
  <2>2. PayloadDone(w, size, data) = v
    BY <1>1, Zenon
  <2> HIDE DEF v
  <2> QED BY <2>1, <2>2, Zenon
<1> QED BY <1>2, <1>3, Zenon

\* The codec v has read the last r bytes of the payload of f from the buffer k.
AllRead(v, k, f, r) ==
    \E j : /\ Advanced(k, j, r)
           /\ IsCodec(v, j, TRUE, "ParseFinished", f.type, f.payload, f.key, 0, 0)

\* It has read all of the buffer k, m bytes, and the payload goes on.
PartRead(v, k, f, l, r, m) ==
    \E j, q : /\ Advanced(k, j, m) /\ ReadSoFar(f, q, l + m, r - m)
              /\ IsCodec(v, j, TRUE, "ExceptPayload", f.type, q, f.key, r - m, l + m)

\* DecodePayload ends the payload, or takes all of the buffer and goes on.
LEMMA PayloadDecoded ==
    ASSUME NEW k, B!InRange(k), NEW p, NEW r, NEW l, NEW f \in Frame, f.mask = 1,
           NEW w, IsCodec(w, k, TRUE, "ExceptPayload", f.type, p, f.key, r, l),
           ReadSoFar(f, p, l, r), GoesOn(f, l, B!ToString(k))
    PROVE  \/ r <= Len(B!ToString(k)) /\ AllRead(DecodePayload(w), k, f, r)
           \/ PartRead(DecodePayload(w), k, f, l, r, Len(B!ToString(k)))
<1> DEFINE s == B!ToString(k)  ls == Len(s)  n == Len(f.payload)
           size == IF ls <= r THEN ls ELSE r
           data == Unmasked(w, size)
           j == TakePayload(k, data)
           q == p \o data
<1>1. /\ p \in Seq(Byte) /\ Len(p) = l /\ l \in 0..n /\ r = n - l
      /\ \A i \in 1..l : p[i] = f.payload[i]
  BY Zenon DEF ReadSoFar
<1>2. f.payload \in Seq(Byte) /\ n \in Nat
  BY FrameFields
<1>3. ls \in Nat /\ ls = B!ReadableBytes(k)
  BY Readable
<1>4. w.buf = k /\ w.mask_key = f.key /\ w.last_read_idx = l /\ w.payload_remains = r
  BY DEF IsCodec
<1>5. DecodePayload(w) = PayloadDone(w, size, data)
  <2>1. r \in Nat
    <3> HIDE DEF n
    <3> QED BY <1>1, <1>2
  <2>2. Min({ls, r}) = size
    <3> HIDE DEF ls
    <3> QED BY <2>1, <1>3, MinPair, Zenon
  <2> HIDE DEF data, size
  <2>3. Min({B!ReadableBytes(w.buf), w.payload_remains}) = size
    BY <2>2, <1>3, <1>4, Zenon
  <2> QED BY <2>3, PayloadDoneIsDecode, Zenon DEF data
<1> HIDE DEF n, ls, s
<1>6. r \in Nat /\ l \in Nat /\ l + r = n
  BY <1>1, <1>2
<1>7. size \in Nat /\ size <= ls /\ size <= n - l /\ size <= r
  BY <1>1, <1>3, <1>6
<1> HIDE DEF size
<1>8. /\ data \in Seq(Byte) /\ Len(data) = size
      /\ \A i \in 1..size : data[i] = f.payload[l + i]
  <2> HIDE DEF data
  <2>1. B!InRange(w.buf) /\ GoesOn(f, l, B!ToString(w.buf))
    BY <1>4, Zenon
  <2>2. size <= Len(B!ToString(w.buf)) /\ size <= Len(f.payload) - l /\ l \in 0..Len(f.payload)
    BY <1>1, <1>4, <1>7, Zenon DEF n, ls, s
  <2> QED BY <2>1, <2>2, <1>4, <1>7, UnmaskedPayload, Zenon DEF data
<1> HIDE DEF data
<1>9. Advanced(k, j, size)
  <2>1. Len(data) <= Len(B!ToString(k))
    BY <1>7, <1>8, Zenon DEF ls, s
  <2> QED BY <2>1, <1>8, TakeAdvances, Zenon
<1>10. /\ q \in Seq(Byte) /\ Len(q) = l + size
       /\ \A i \in 1..l : q[i] = p[i]
       /\ \A i \in 1..size : q[l + i] = data[i]
  <2>1. p \in Seq(Byte) /\ data \in Seq(Byte)
    BY <1>1, <1>8, Zenon
  <2>2. Parts2(Byte, p, data, q)
    BY <2>1, Parts2Of, Zenon
  <2> HIDE DEF q
  <2> QED BY <2>2, <1>1, <1>8, Zenon DEF Parts2
<1> HIDE DEF q, j
<1>11. ASSUME NEW i \in 1..l + size PROVE q[i] = f.payload[i]
  <2>1. CASE i <= l
    <3>1. i \in 1..l
      BY <1>6, <1>7, <2>1
    <3> QED BY <3>1, <1>1, <1>10, Zenon
  <2>2. CASE i > l
    <3> DEFINE m == i - l
    <3>1. m \in 1..size /\ l + m = i
      BY <1>6, <1>7, <2>2
    <3> HIDE DEF m
    <3>2. q[l + m] = data[m] /\ data[m] = f.payload[l + m]
      BY <3>1, <1>8, <1>10, Zenon
    <3> QED BY <3>1, <3>2, Zenon
  <2> QED BY <2>1, <2>2, <1>6, <1>7
<1>12. IsCodec(DecodePayload(w), j, TRUE, IF r = size THEN "ParseFinished" ELSE "ExceptPayload",
               f.type, q, f.key, r - size, IF r = size THEN 0 ELSE l + size)
  <2>1. IsCodec(PayloadDone(w, size, data), TakePayload(k, data), TRUE,
                IF r = size THEN "ParseFinished" ELSE "ExceptPayload", f.type, p \o data,
                f.key, r - size, IF r = size THEN 0 ELSE l + size)
    BY CodecPayloadDone
  <2> QED BY <2>1, <1>5, Zenon DEF j, q
<1>13. CASE r <= ls
  <2>1. size = r /\ r - size = 0 /\ l + size = n
    BY <1>13, <1>3, <1>6 DEF size
  <2>2. q = f.payload
    <3>1. Len(q) = n /\ \A i \in 1..n : q[i] = f.payload[i]
      BY <2>1, <1>10, <1>11, Zenon
    <3>2. Same(q, f.payload)
      BY <3>1, Zenon DEF Same, n
    <3> QED BY <3>2, <1>2, <1>10, SameSeq, Zenon
  <2>3. IsCodec(DecodePayload(w), j, TRUE, "ParseFinished", f.type, f.payload, f.key, 0, 0)
    BY <2>1, <2>2, <1>12, Zenon
  <2>4. AllRead(DecodePayload(w), k, f, r)
    BY <2>1, <2>3, <1>9, Zenon DEF AllRead
  <2> QED BY <2>4, <1>13, Zenon DEF ls, s
<1>14. CASE r > ls
  <2>1. size = ls /\ r # ls /\ ~(r <= ls)
    BY <1>14, <1>3, <1>6 DEF size
  <2>2. IsCodec(DecodePayload(w), j, TRUE, "ExceptPayload", f.type, q, f.key, r - ls, l + ls)
    BY <2>1, <1>12, Zenon
  <2>3. ReadSoFar(f, q, l + ls, r - ls)
    <3>1. l + ls \in 0..n /\ r - ls = n - (l + ls)
      BY <1>3, <1>6, <1>14
    <3> QED BY <3>1, <2>1, <1>10, <1>11, Zenon DEF ReadSoFar, n
  <2>4. PartRead(DecodePayload(w), k, f, l, r, ls)
    BY <2>1, <2>2, <2>3, <1>9, Zenon DEF PartRead
  <2> QED BY <2>4, Zenon DEF ls, s
<1>15. r <= ls \/ r > ls
  BY <1>3, <1>6
<1> QED BY <1>13, <1>14, <1>15, Zenon

-----------------------------------------------------------------------------
(* The handshake.                                                          *)

\* A buffer of the same vector as k.
SameVector(j, k) ==
    /\ DOMAIN j = {"buffer", "read_idx", "write_idx"}
    /\ j.buffer = k.buffer

\* A decoder that has not finished the headers, or has not finished the request.
Parsing(dec, k, states) ==
    /\ DOMAIN dec = {"buf", "state", "req", "body_max_bytes"}
    /\ SameVector(dec.buf, k) /\ dec.state \in states

\* Dropping bytes keeps the vector.
LEMMA BufferKept ==
    ASSUME NEW j, NEW k, SameVector(j, k), NEW n
    PROVE  /\ SameVector(B!DropAllBytes(j), k) /\ SameVector(B!DropBytesUntil(j, n), k)
           /\ SameVector(B!DropBytes(j, n), k)
<1>1. SameVector(B!DropAllBytes(j), k)
  BY DEF SameVector, B!DropAllBytes
<1>2. SameVector(B!DropBytesUntil(j, n), k)
  BY DEF SameVector, B!DropBytesUntil
<1>3. SameVector([j EXCEPT !.read_idx = j.read_idx + n], k)
  BY DEF SameVector
<1>4. SameVector(B!DropBytes(j, n), k)
  BY <1>1, <1>3, Zenon DEF B!DropBytes
<1> QED BY <1>1, <1>2, <1>4

\* A change of the request keeps the buffer and the state.
LEMMA ReqKept ==
    ASSUME NEW dec, NEW k, NEW states, Parsing(dec, k, states), NEW r
    PROVE  /\ Parsing([dec EXCEPT !.req.method = r], k, states)
           /\ Parsing([dec EXCEPT !.req.request_uri = r], k, states)
           /\ Parsing([dec EXCEPT !.req.version = r], k, states)
           /\ Parsing([dec EXCEPT !.req.headers = r], k, states)
BY DEF Parsing

\* A change of the buffer keeps the state.
LEMMA BufReplaced ==
    ASSUME NEW dec, NEW k, NEW states, Parsing(dec, k, states), NEW j, SameVector(j, k)
    PROVE  Parsing([dec EXCEPT !.buf = j], k, states)
BY DEF Parsing

\* A change of the state keeps the buffer.
LEMMA StateReplaced ==
    ASSUME NEW dec, NEW k, NEW states, Parsing(dec, k, states), NEW st, NEW more, st \in more
    PROVE  Parsing([dec EXCEPT !.state = st], k, more)
BY DEF Parsing

\* The changes at the end of the request line and of the headers.
LEMMA LineDone ==
    ASSUME NEW dec, NEW k, NEW states, Parsing(dec, k, states), NEW r, NEW j, SameVector(j, k),
           NEW st, NEW more, st \in more
    PROVE  /\ Parsing([dec EXCEPT !.req.version = r, !.buf = j, !.state = st], k, more)
           /\ Parsing([dec EXCEPT !.buf = j, !.state = st], k, more)
           /\ Parsing([dec EXCEPT !.buf = j, !.req.headers = r], k, states)
BY DEF Parsing

\* The states before the headers end, and before the body is read.
LineStates == {"ExpectRequestLine", "ExpectHeaders", "Thrown"}
HeaderStates == {"ExpectRequestLine", "ExpectHeaders", "Thrown", "ExpectBody"}

\* The request line does not end a request.
LEMMA RequestLineParsed ==
    ASSUME NEW dec, NEW k, Parsing(dec, k, LineStates)
    PROVE  Parsing(AtRequestLine(dec), k, LineStates)
<1> DEFINE j       == dec.buf
           end     == j.write_idx
           sp1     == Find(j, j.read_idx, <<SP>>)
           sp2     == Find(j, sp1 + 1, <<SP>>)
           crlf    == Find(j, sp2 + 1, CRLF)
           method  == Word(j, j.read_idx, sp1)
           version == Word(j, sp2 + 1, crlf)
           dropped == [dec EXCEPT !.buf = B!DropAllBytes(j)]
           atUri   == [dec EXCEPT !.req.method = method]
           atVersion == [atUri EXCEPT !.req.request_uri = Word(j, sp1 + 1, sp2)]
           done    == [atVersion EXCEPT !.req.version = version,
                                        !.buf = B!DropBytesUntil(j, crlf + 2),
                                        !.state = "ExpectHeaders"]
           thrown  == [atVersion EXCEPT !.state = "Thrown"]
<1>1. ParseRequestLine(dec) =
        CASE sp1 = end -> IF B!ReadableBytes(j) >= MethodLimit THEN dropped ELSE dec
          [] sp1 # end /\ method \notin Methods -> dropped
          [] sp1 # end /\ method \in Methods /\ sp2 = end -> atUri
          [] sp1 # end /\ method \in Methods /\ sp2 # end /\ crlf = end -> atVersion
          [] OTHER -> IF version \in Versions THEN done ELSE thrown
  BY DEF ParseRequestLine
<1>2. SameVector(j, k)
  BY Zenon DEF Parsing
<1>3. Parsing(dropped, k, LineStates)
  BY <1>2, BufferKept, BufReplaced, Zenon
<1>4. Parsing(atUri, k, LineStates)
  BY ReqKept, Zenon
<1>5. Parsing(atVersion, k, LineStates)
  <2> HIDE DEF atUri
  <2> QED BY <1>4, ReqKept, Zenon
<1>6. Parsing(done, k, LineStates)
  <2> DEFINE i == B!DropBytesUntil(j, crlf + 2)
  <2>1. SameVector(i, k)
    BY <1>2, BufferKept, Zenon
  <2>2. "ExpectHeaders" \in LineStates
    BY DEF LineStates
  <2> HIDE DEF i, atVersion
  <2>3. Parsing([atVersion EXCEPT !.req.version = version, !.buf = i, !.state = "ExpectHeaders"],
                k, LineStates)
    BY <1>5, <2>1, <2>2, LineDone, Zenon
  <2> QED BY <2>3, Zenon DEF i
<1>7. Parsing(thrown, k, LineStates)
  <2>1. "Thrown" \in LineStates
    BY DEF LineStates
  <2> HIDE DEF atVersion
  <2> QED BY <2>1, <1>5, StateReplaced, Zenon
<1> HIDE DEF end, sp1, sp2, crlf, method, version, dropped, atUri, atVersion, done, thrown, j
<1>8. ParseRequestLine(dec) \in {dropped, dec, atUri, atVersion, done, thrown}
  BY <1>1
<1>9. Parsing(ParseRequestLine(dec), k, LineStates)
  BY <1>3, <1>4, <1>5, <1>6, <1>7, <1>8, Zenon
<1> QED BY <1>9, Zenon DEF AtRequestLine

\* Nor do the headers.
LEMMA HeadersParsed ==
    ASSUME NEW dec, NEW k, Parsing(dec, k, LineStates), NEW beyond
    PROVE  Parsing(AtHeaders(dec, beyond), k, HeaderStates)
<1> DEFINE lines == HeaderLines(dec, beyond)
           j == B!DropBytesUntil(dec.buf, lines.read_idx)
           read == [dec EXCEPT !.buf = j, !.req.headers = lines.headers]
           i == B!DropBytes(read.buf, 2)
           done == [read EXCEPT !.buf = i, !.state = "ExpectBody"]
<1>1. ParseHeaders(dec, beyond) = IF EndOfHeaders(read.buf, beyond) THEN done ELSE read
  BY Zenon DEF ParseHeaders
<1>2. Parsing(dec, k, HeaderStates)
  BY DEF Parsing, LineStates, HeaderStates
<1>3. SameVector(j, k)
  BY BufferKept, Zenon DEF Parsing
<1>4. Parsing(read, k, HeaderStates)
  <2> HIDE DEF j, lines
  <2> QED BY <1>2, <1>3, LineDone
<1>5. Parsing(done, k, HeaderStates)
  <2> HIDE DEF read
  <2>1. SameVector(i, k)
    BY <1>4, BufferKept, Zenon DEF Parsing
  <2>2. "ExpectBody" \in HeaderStates
    BY DEF HeaderStates
  <2> HIDE DEF i
  <2> QED BY <1>4, <2>1, <2>2, LineDone
<1> HIDE DEF done, read
<1>6. Parsing(ParseHeaders(dec, beyond), k, HeaderStates)
  BY <1>1, <1>4, <1>5, Zenon
<1> QED BY <1>2, <1>6, Zenon DEF AtHeaders

\* A request that has been parsed leaves an empty buffer.
LEMMA BodyParsed ==
    ASSUME NEW dec, NEW k, B!InRange(k), Parsing(dec, k, HeaderStates),
           AtBody(dec).state = "ParseFinished"
    PROVE  B!InRange(AtBody(dec).buf) /\ Len(B!ToString(AtBody(dec).buf)) = 0
<1> DEFINE j == B!DropAllBytes(dec.buf)
<1>1. dec.state # "ParseFinished" /\ SameVector(dec.buf, k)
  BY DEF Parsing, HeaderStates
<1>2. dec.state = "ExpectBody"
  BY <1>1, Zenon DEF AtBody
<1>3. AtBody(dec) = ParseBody(dec)
  BY <1>2, Zenon DEF AtBody
<1>4. ParseBody(dec).buf = j
  <2>1. DOMAIN dec = {"buf", "state", "req", "body_max_bytes"}
    BY Zenon DEF Parsing
  <2> DEFINE size == B!ReadableBytes(dec.buf)
             max_size == IF size < dec.body_max_bytes THEN size ELSE dec.body_max_bytes
             x == dec.req.is_body_truncated \/ max_size > dec.body_max_bytes
             y == SubSeq(B!ToString(dec.buf), 1, max_size)
             body == [dec EXCEPT !.req.is_body_truncated = x, !.req.body = y,
                                 !.state = "ParseFinished", !.buf = j]
  <2>2. ParseBody(dec) = body
    BY DEF ParseBody
  <2> HIDE DEF x, y
  <2>3. body.buf = j
    BY <2>1
  <2> QED BY <2>2, <2>3, Zenon
<1>5. SameVector(j, k) /\ j.read_idx = 0 /\ j.write_idx = 0
  <2>1. SameVector(j, k)
    BY <1>1, BufferKept, Zenon
  <2>2. j.read_idx = 0 /\ j.write_idx = 0
    BY <1>1 DEF SameVector, B!DropAllBytes
  <2> QED BY <2>1, <2>2
<1>6. k.buffer \in Seq(0..255)
  BY DEF B!InRange
<1>7. j = [x \in {"buffer", "read_idx", "write_idx"} |-> j[x]]
  BY <1>1 DEF SameVector, B!DropAllBytes
<1> HIDE DEF j
<1>8. j.buffer \in Seq(0..255) /\ j.read_idx = 0 /\ j.write_idx = 0
  BY <1>5, <1>6, Zenon DEF SameVector
<1>9. j \in [buffer : Seq(0..255), read_idx : Nat, write_idx : Nat]
  BY <1>7, <1>8
<1>10. 0 <= Len(j.buffer)
  BY <1>8
<1>11. B!InRange(j) /\ B!ReadableBytes(j) = 0
  BY <1>8, <1>9, <1>10 DEF B!InRange, B!ReadableBytes
<1>12. Len(B!ToString(j)) = 0
  BY <1>11, Readable
<1> QED BY <1>3, <1>4, <1>11, <1>12, Zenon

\* A request that HttpReqDecoder has parsed leaves an empty buffer.
LEMMA RequestParsed ==
    ASSUME NEW k, B!InRange(k), NEW max, NEW beyond,
           DecodeLoop(NewDecoder(k, max), beyond).state = "ParseFinished"
    PROVE  LET j == DecodeLoop(NewDecoder(k, max), beyond).buf
           IN  B!InRange(j) /\ Len(B!ToString(j)) = 0
<1> DEFINE dec == NewDecoder(k, max)
           dec1 == AtRequestLine(dec)
           dec2 == AtHeaders(dec1, beyond)
<1>1. Parsing(dec, k, LineStates)
  <2>1. SameVector(k, k)
    BY DEF B!InRange, SameVector
  <2> QED BY <2>1 DEF Parsing, NewDecoder, LineStates
<1> HIDE DEF dec
<1>2. Parsing(dec1, k, LineStates)
  BY <1>1, RequestLineParsed, Zenon
<1> HIDE DEF dec1
<1>3. Parsing(dec2, k, HeaderStates)
  BY <1>2, HeadersParsed, Zenon
<1> HIDE DEF dec2
<1>4. DecodeLoop(NewDecoder(k, max), beyond) = AtBody(dec2)
  BY Zenon DEF DecodeLoop, dec, dec1, dec2
<1> QED BY <1>3, <1>4, BodyParsed, Zenon

\* The members HandShake changes.
LEMMA CodecShaken ==
    ASSUME NEW k, NEW o, NEW st, NEW t, NEW p, NEW key, NEW r, NEW l,
           NEW w, IsCodec(w, k, o, st, t, p, key, r, l), NEW j
    PROVE  /\ IsCodec([w EXCEPT !.state = "Thrown"], k, o, "Thrown", t, p, key, r, l)
           /\ IsCodec([w EXCEPT !.buf = j], j, o, st, t, p, key, r, l)
           /\ IsCodec([w EXCEPT !.buf = j, !.open = FALSE], j, FALSE, st, t, p, key, r, l)
           /\ IsCodec([w EXCEPT !.buf = j, !.state = "ExceptFrameHead"], j, o, "ExceptFrameHead",
                      t, p, key, r, l)
BY DEF IsCodec

\* What HandShake leaves of a codec: a websocket begins with an empty buffer.
AfterHandshake(v, j, o, st, t, p, key, r, l) ==
    /\ IsCodec(v, j, o, st, t, p, key, r, l)
    /\ o \in BOOLEAN /\ st \in {"ExceptHandshake", "Thrown", "ExceptFrameHead"}
    /\ st = "ExceptFrameHead" => o = TRUE /\ B!InRange(j) /\ Len(B!ToString(j)) = 0

\* HandShake refuses, throws, waits or begins a websocket.
LEMMA HandshakeDecoded ==
    ASSUME NEW k, B!InRange(k), NEW t, NEW p, NEW key, NEW r, NEW l, NEW beyond,
           NEW w, IsCodec(w, k, TRUE, "ExceptHandshake", t, p, key, r, l)
    PROVE  \E j, o, st : AfterHandshake(HandShake(w, beyond), j, o, st, t, p, key, r, l)
<1> DEFINE http == DecodeLoop(NewDecoder(k, 2 * 1024 * 1024), beyond)
           j == http.buf
           v == HandShake(w, beyond)
           Left(i, o, st) == AfterHandshake(v, i, o, st, t, p, key, r, l)
<1>1. http.state = "ParseFinished" => B!InRange(j) /\ Len(B!ToString(j)) = 0
  BY RequestParsed
<1>2. v = Shaken(w, http)
  <2>1. w.buf = k
    BY DEF IsCodec
  <2> QED BY <2>1 DEF HandShake
<1> HIDE DEF http, v
<1>3. CASE http.state = "Thrown"
  <2>1. v = [w EXCEPT !.state = "Thrown"]
    BY <1>2, <1>3 DEF Shaken
  <2>2. IsCodec(v, k, TRUE, "Thrown", t, p, key, r, l)
    BY <2>1, CodecShaken
  <2>3. Left(k, TRUE, "Thrown")
    BY <2>2 DEF AfterHandshake
  <2> QED BY <2>3, Zenon DEF v
<1>4. CASE http.state \notin {"Thrown", "ParseFinished"}
  <2>1. v = [w EXCEPT !.buf = j]
    BY <1>2, <1>4 DEF Shaken
  <2> HIDE DEF j
  <2>2. IsCodec(v, j, TRUE, "ExceptHandshake", t, p, key, r, l)
    BY <2>1, CodecShaken
  <2>3. Left(j, TRUE, "ExceptHandshake")
    BY <2>2 DEF AfterHandshake
  <2> QED BY <2>3, Zenon DEF v
<1>5. CASE http.state = "ParseFinished" /\ ~ValidHandshake(http.req)
  <2>1. v = [w EXCEPT !.buf = j, !.open = FALSE]
    BY <1>2, <1>5 DEF Shaken
  <2> HIDE DEF j
  <2>2. IsCodec(v, j, FALSE, "ExceptHandshake", t, p, key, r, l)
    BY <2>1, CodecShaken
  <2>3. Left(j, FALSE, "ExceptHandshake")
    BY <2>2 DEF AfterHandshake
  <2> QED BY <2>3, Zenon DEF v
<1>6. CASE http.state = "ParseFinished" /\ ValidHandshake(http.req)
  <2>1. v = [w EXCEPT !.buf = j, !.state = "ExceptFrameHead"]
    BY <1>2, <1>6 DEF Shaken
  <2>2. B!InRange(j) /\ Len(B!ToString(j)) = 0
    BY <1>1, <1>6, Zenon
  <2> HIDE DEF j
  <2>3. IsCodec(v, j, TRUE, "ExceptFrameHead", t, p, key, r, l)
    BY <2>1, CodecShaken
  <2>4. Left(j, TRUE, "ExceptFrameHead")
    BY <2>2, <2>3 DEF AfterHandshake
  <2> QED BY <2>4, Zenon DEF v
<1> QED BY <1>3, <1>4, <1>5, <1>6

-----------------------------------------------------------------------------
(* One read and one call of Decode.                                        *)

\* OnRequest was called with the first frames of as.
Answered(as, rc) ==
    /\ rc \in Seq([type : 0..15, payload : Seq(Byte)]) /\ Len(rc) <= Len(as)
    /\ \A i \in 1..Len(rc) : rc[i] = [type |-> as[i].type, payload |-> as[i].payload]

\* From base on, st is in the buffer k and on the wire w; the buffer ends where a read
\* may end.
Holds(st, base, k, w) ==
    /\ B!InRange(k) /\ View(st, base, B!ToString(k), w)
    /\ Boundary(st, base + Len(B!ToString(k)))

\* The codec v waits for the head of the frame behind the first n.
AtFrameHead(v, be, st, n, w) ==
    \E k, t, key, r :
        /\ IsCodec(v, k, TRUE, "ExceptFrameHead", t, <<>>, key, r, 0)
        /\ Holds(st, be[n + 1], k, w)

\* The codec v has read the head of that frame and l bytes of its payload, p.
InPayload(v, as, be, st, n, w, k, p, r, l) ==
    /\ n + 1 \in 1..Len(as) /\ ~MustClose(as[n + 1].mask, as[n + 1].type)
    /\ IsCodec(v, k, TRUE, "ExceptPayload", as[n + 1].type, p, as[n + 1].key, r, l)
    /\ ReadSoFar(as[n + 1], p, l, r)
    /\ Holds(st, be[n + 1] + (HeadLen(as[n + 1]) + l), k, w)

\* It waits for the rest of that payload.
AtFramePayload(v, as, be, st, n, w) == \E k, p, r, l : InPayload(v, as, be, st, n, w, k, p, r, l)

\* The codec v has read all of that frame.
Finished(v, as, be, st, n, w) ==
    /\ n + 1 \in 1..Len(as)
    /\ \E k, key : /\ IsCodec(v, k, TRUE, "ParseFinished", as[n + 1].type, as[n + 1].payload, key, 0, 0)
                   /\ Holds(st, be[n + 2], k, w)

\* That frame asked for the end of the connection.
ClosedBy(v, as, n) ==
    /\ n + 1 \in 1..Len(as) /\ MustClose(as[n + 1].mask, as[n + 1].type)
    /\ v.open = FALSE /\ v.state = "ExceptFrameHead"

\* Bytes dropped from the buffer move the place where it begins.
LEMMA HoldsAfterDrop ==
    ASSUME NEW st, NEW base, NEW k, NEW w, Holds(st, base, k, w),
           NEW d \in 0..Len(B!ToString(k)), NEW j, Advanced(k, j, d)
    PROVE  Holds(st, base + d, j, w)
<1> DEFINE s == B!ToString(k)  r == B!ToString(j)
<1>1. View(st, base, s, w) /\ Boundary(st, base + Len(s))
  BY Zenon DEF Holds
<1>2. B!InRange(j) /\ Len(r) = Len(s) - d /\ \A i \in 1..Len(r) : r[i] = s[d + i]
  BY Zenon DEF Advanced
<1>3. r \in Seq(Byte)
  BY <1>2, Readable, Zenon
<1>4. d \in 0..Len(s)
  OBVIOUS
<1> HIDE DEF s, r
<1>5. View(st, base + d, r, w) /\ base + d + Len(r) = base + Len(s)
  BY <1>1, <1>2, <1>3, <1>4, DropMoves
<1>6. Boundary(st, base + d + Len(r))
  BY <1>1, <1>5, Zenon
<1> QED BY <1>2, <1>5, <1>6, Zenon DEF Holds, s, r

\* DecodeFrameHead, at the head of a frame.
LEMMA HeadStep ==
    ASSUME NEW as, NEW be, NEW st, Layout(as, be, st), NEW n \in 0..Len(as), NEW w, NEW v,
           NEW k, NEW t, NEW key, NEW r, NEW beyond \in Seq(Byte),
           IsCodec(v, k, TRUE, "ExceptFrameHead", t, <<>>, key, r, 0),
           Holds(st, be[n + 1], k, w), Len(B!ToString(k)) # 0
    PROVE  \/ AtFramePayload(DecodeFrameHead(v, beyond), as, be, st, n, w)
           \/ ClosedBy(DecodeFrameHead(v, beyond), as, n)
<1> DEFINE s == B!ToString(k)  f == as[n + 1]  base == be[n + 1]  h == HeadLen(f)
           l == Len(f.payload)
           u == DecodeFrameHead(v, beyond)
<1>1. B!InRange(k) /\ View(st, base, s, w) /\ Boundary(st, base + Len(s))
  BY Zenon DEF Holds
<1>2. n + 1 \in 1..Len(as) /\ f \in Frame /\ h <= Len(s) /\ BeginsWith(s, f)
  <2> HIDE DEF s
  <2>1. Len(s) # 0
    BY Zenon DEF s
  <2>2. HeadIsAt(as, n, s)
    BY <1>1, <2>1, HeadAt, Zenon
  <2> QED BY <2>2, Zenon DEF HeadIsAt, BeginsWith
<1>4. v.buf = k
  BY DEF IsCodec
<1>5. u = HeadDone(v, f.type, f.mask, l, f.key, h)
  BY <1>1, <1>2, <1>4, HeadDecoded, Zenon
<1> HIDE DEF u
<1>6. CASE MustClose(f.mask, f.type)
  <2> DEFINE k2 == B!DropAllBytes(v.buf)
             cf == EncodeFrameHead(0, kClose)
  <2>1. u = [v EXCEPT !.buf = k2, !.open = FALSE, !.close_frame = cf]
    BY <1>5, <1>6, Zenon DEF HeadDone
  <2> HIDE DEF k2, cf
  <2>2. IsCodec(u, k2, FALSE, "ExceptFrameHead", t, <<>>, key, r, 0)
    <3>1. IsCodec([v EXCEPT !.buf = k2, !.open = FALSE, !.close_frame = cf],
                  k2, FALSE, "ExceptFrameHead", t, <<>>, key, r, 0)
      BY CodecClosed
    <3> QED BY <3>1, <2>1
  <2>3. u.open = FALSE /\ u.state = "ExceptFrameHead"
    BY <2>2 DEF IsCodec
  <2> QED BY <2>3, <1>2, <1>6, Zenon DEF ClosedBy, u
<1>7. CASE ~MustClose(f.mask, f.type)
  <2> DEFINE k2 == B!DropBytes(k, h)
  <2>1. u = [v EXCEPT !.payload_remains = l, !.mask_key = f.key, !.buf = k2, !.req.type = f.type,
                      !.state = "ExceptPayload"]
    BY <1>4, <1>5, <1>7, Zenon DEF HeadDone
  <2>2. h \in Nat /\ l \in Nat /\ Len(s) \in Nat /\ h \in 0..Len(s)
    <3>1. h \in Nat \ {0, 1} /\ l \in Nat
      BY <1>2, PayloadShape, Zenon
    <3>2. Len(s) \in Nat
      BY <1>1, Readable
    <3> DEFINE ls == Len(s)
    <3>3. ls \in Nat /\ h <= ls /\ h \in Nat
      BY <1>2, <3>1, <3>2, Zenon
    <3> HIDE DEF ls, h
    <3>4. h \in 0..ls
      BY <3>3
    <3> QED BY <3>1, <3>2, <3>3, <3>4, Zenon DEF ls
  <2>3. Advanced(k, k2, h)
    BY <1>1, <2>2, DropAdvances, Zenon
  <2>4. Holds(st, base + h, k2, w)
    <3> HIDE DEF k2, h
    <3> QED BY <2>2, <2>3, HoldsAfterDrop, Zenon
  <2>5. base + h = base + (h + 0)
    <3>1. base \in Nat
      BY <1>1, ViewType, Zenon
    <3> HIDE DEF base, h
    <3> QED BY <3>1, <2>2
  <2>6. ReadSoFar(f, <<>>, 0, l)
    <3>1. <<>> \in Seq(Byte) /\ Len(<<>>) = 0 /\ 1..0 = {}
      OBVIOUS
    <3> HIDE DEF l
    <3>2. 0 \in 0..l /\ l = l - 0
      BY <2>2
    <3> QED BY <3>1, <3>2, Zenon DEF ReadSoFar, l
  <2> HIDE DEF k2, l
  <2>7. IsCodec(u, k2, TRUE, "ExceptPayload", f.type, <<>>, f.key, l, 0)
    <3> DEFINE ft == f.type  fk == f.key
    <3> HIDE DEF ft, fk
    <3>1. IsCodec([v EXCEPT !.payload_remains = l, !.mask_key = fk, !.buf = k2,
                            !.req.type = ft, !.state = "ExceptPayload"],
                   k2, TRUE, "ExceptPayload", ft, <<>>, fk, l, 0)
      BY CodecHead
    <3> QED BY <3>1, <2>1, Zenon DEF ft, fk
  <2>8. InPayload(u, as, be, st, n, w, k2, <<>>, l, 0)
    BY <2>4, <2>5, <2>6, <2>7, <1>2, <1>7, Zenon DEF InPayload
  <2> QED BY <2>8, Zenon DEF AtFramePayload, u
<1> QED BY <1>6, <1>7

\* DecodePayload, behind the head of a frame.
LEMMA PayloadStep ==
    ASSUME NEW as, NEW be, NEW st, Layout(as, be, st), NEW n \in 0..Len(as), NEW w, NEW v,
           AtFramePayload(v, as, be, st, n, w)
    PROVE  \/ AtFramePayload(DecodePayload(v), as, be, st, n, w)
           \/ Finished(DecodePayload(v), as, be, st, n, w)
<1> PICK k, p, r, l : InPayload(v, as, be, st, n, w, k, p, r, l)
  BY Zenon DEF AtFramePayload
<1> DEFINE s == B!ToString(k)  f == as[n + 1]  h == HeadLen(f)
           base == be[n + 1] + (h + l)
           u == DecodePayload(v)
           ls == Len(s)
<1>1. /\ n + 1 \in 1..Len(as) /\ ~MustClose(f.mask, f.type)
      /\ IsCodec(v, k, TRUE, "ExceptPayload", f.type, p, f.key, r, l)
      /\ ReadSoFar(f, p, l, r) /\ Holds(st, base, k, w)
  BY Zenon DEF InPayload
<1>2. f \in Frame
  BY <1>1, LayoutType, Zenon
<1>3. f.mask = 1
  BY <1>1, <1>2, FrameFields DEF MustClose
<1>4. B!InRange(k) /\ View(st, base, s, w)
  BY <1>1, Zenon DEF Holds
<1>5. l \in 0..Len(f.payload) /\ r = Len(f.payload) - l /\ Len(f.payload) \in Nat
  BY <1>1, <1>2, FrameFields, Zenon DEF ReadSoFar
<1>6. GoesOn(f, l, s)
  <2> HIDE DEF s, h
  <2> QED BY <1>1, <1>4, <1>5, PayloadAt, Zenon DEF h
<1>7. (r <= Len(s) /\ AllRead(u, k, f, r)) \/ PartRead(u, k, f, l, r, Len(s))
  <2> HIDE DEF f
  <2> QED BY <1>1, <1>2, <1>3, <1>4, <1>6, PayloadDecoded, Zenon
<1>8. /\ be[n + 1] \in Nat /\ h \in Nat /\ ls \in Nat
      /\ be[n + 1 + 1] = be[n + 1] + (h + Len(f.payload))
  <2>1. ls \in Nat
    BY <1>4, Readable
  <2>2. be[n + 1 + 1] = be[n + 1] + FrameLen(f)
    BY <1>1, Zenon DEF Layout
  <2>3. h \in Nat \ {0, 1}
    BY <1>2, PayloadShape, Zenon
  <2>4. be[n + 1] \in Nat
    <3> DEFINE la == Len(as)
    <3>1. la \in Nat /\ (\A i \in 1..la + 1 : be[i] \in Nat) /\ n + 1 \in 1..la /\ n \in 0..la
      BY <1>1, LayoutType, Zenon
    <3> HIDE DEF la
    <3>2. n + 1 \in 1..la + 1
      BY <3>1
    <3> QED BY <3>1, <3>2, Zenon
  <2> QED BY <2>1, <2>2, <2>3, <2>4, Zenon DEF FrameLen
<1>9. CASE r <= Len(s) /\ AllRead(u, k, f, r)
  <2> PICK j : /\ Advanced(k, j, r)
               /\ IsCodec(u, j, TRUE, "ParseFinished", f.type, f.payload, f.key, 0, 0)
    BY <1>9, Zenon DEF AllRead
  <2>1. r \in 0..ls /\ base + r = be[n + 2]
    <3> DEFINE lf == Len(f.payload)  b == be[n + 1]
    <3>1. lf \in Nat /\ l \in 0..lf /\ r = lf - l /\ b \in Nat /\ h \in Nat /\ ls \in Nat /\ r <= ls
      BY <1>5, <1>8, <1>9, Zenon
    <3>2. base = b + (h + l) /\ be[n + 1 + 1] = b + (h + lf)
      BY <1>8, Zenon
    <3>3. n + 1 + 1 = n + 2
      <4>1. Len(as) \in Nat
        BY LayoutType, Zenon
      <4> DEFINE la == Len(as)
      <4>2. la \in Nat /\ n \in 0..la
        BY <4>1, Zenon
      <4> HIDE DEF la
      <4> QED BY <4>2
    <3> HIDE DEF lf, b, h, ls, base
    <3>4. r \in 0..ls /\ base + r = b + (h + lf)
      BY <3>1, <3>2
    <3> QED BY <3>2, <3>3, <3>4, Zenon
  <2>2. Holds(st, base + r, j, w)
    <3> HIDE DEF base
    <3>1. r \in 0..Len(B!ToString(k))
      BY <2>1, Zenon DEF ls, s
    <3> QED BY <3>1, <1>1, HoldsAfterDrop, Zenon
  <2>3. Holds(st, be[n + 2], j, w)
    BY <2>1, <2>2, Zenon
  <2> QED BY <2>3, <1>1, Zenon DEF Finished
<1>10. CASE PartRead(u, k, f, l, r, Len(s))
  <2> PICK j, q : /\ Advanced(k, j, ls) /\ ReadSoFar(f, q, l + ls, r - ls)
                  /\ IsCodec(u, j, TRUE, "ExceptPayload", f.type, q, f.key, r - ls, l + ls)
    BY <1>10, Zenon DEF PartRead
  <2>1. ls \in 0..ls /\ base + ls = be[n + 1] + (h + (l + ls))
    <3> DEFINE lf == Len(f.payload)  b == be[n + 1]
    <3>1. lf \in Nat /\ l \in 0..lf /\ b \in Nat /\ h \in Nat /\ ls \in Nat
      BY <1>5, <1>8, Zenon
    <3>2. base = b + (h + l)
      OBVIOUS
    <3> HIDE DEF lf, h, ls, base, b
    <3>3. ls \in 0..ls /\ base + ls = b + (h + (l + ls))
      BY <3>1, <3>2
    <3> QED BY <3>3, Zenon DEF b
  <2>2. Holds(st, base + ls, j, w)
    <3> HIDE DEF base
    <3>1. ls \in 0..Len(B!ToString(k))
      BY <2>1, Zenon DEF ls, s
    <3> QED BY <3>1, <1>1, HoldsAfterDrop, Zenon
  <2>3. InPayload(u, as, be, st, n, w, j, q, r - ls, l + ls)
    BY <2>1, <2>2, <1>1, Zenon DEF InPayload
  <2> QED BY <2>3, Zenon DEF AtFramePayload
<1> QED BY <1>7, <1>9, <1>10, Zenon

\* A read of n bytes from the wire w.
ReadStep(k, w, n, k2, w2) ==
    /\ n \in 1..Len(w) /\ w[n].cut /\ n # 0
    /\ B!InRange(k2) /\ IsRead(B!ToString(k), w, n, B!ToString(k2), w2)

\* v is the wire w without its first n bytes.
IsRest(w, n, v) ==
    v \in Seq(Item) /\ Len(v) = Len(w) - n /\ \A i \in 1..Len(v) : v[i] = w[n + i]

\* What OnTcpReceivedData leaves on the wire.
LEMMA RestOf ==
    ASSUME NEW w \in Seq(Item), NEW n \in 1..Len(w)
    PROVE  IsRest(w, n, SubSeq(w, n + 1, Len(w)))
<1> DEFINE v == SubSeq(w, n + 1, Len(w))
<1>1. Len(w) \in Nat
  OBVIOUS
<1>2. v \in Seq(Item) /\ Len(v) = IF n + 1 <= Len(w) THEN Len(w) - (n + 1) + 1 ELSE 0
  BY <1>1, SubSeqProperties
<1>3. Len(v) = Len(w) - n
  BY <1>1, <1>2
<1>4. ASSUME NEW i \in 1..Len(w) - n PROVE v[i] = w[n + i]
  BY <1>1
<1> QED BY <1>2, <1>3, <1>4, Zenon DEF IsRest

\* ReadBytesFromFd moves n bytes from the wire to the buffer.
LEMMA Reading ==
    ASSUME NEW k, B!InRange(k), NEW w \in Seq(Item), NEW n \in 1..Len(w), w[n].cut
    PROVE  ReadStep(k, w, n, B!ReadBytesFromFd(k, [i \in 1..n |-> w[i].byte]),
                    SubSeq(w, n + 1, Len(w)))
<1> DEFINE s == B!ToString(k)
           data == [i \in 1..n |-> w[i].byte]
           k2 == B!ReadBytesFromFd(k, data)
           w2 == SubSeq(w, n + 1, Len(w))
           lw == Len(w)
<1>1. lw \in Nat /\ n \in 1..lw
  BY LenNat, Zenon
<1>2. n \in Nat /\ n # 0 /\ n + 1 \in 1..lw + 1
  <2> HIDE DEF lw
  <2> QED BY <1>1
<1>3. data \in Seq(Byte) /\ Len(data) = n
  <2>1. \A i \in 1..lw : w[i] \in Item
    BY ElementOfSeq, Zenon
  <2>2. \A i \in 1..n : i \in 1..lw
    <3> HIDE DEF lw
    <3> QED BY <1>1
  <2>3. \A i \in 1..n : w[i].byte \in Byte
    <3> TAKE i \in 1..n
    <3>1. w[i] \in Item
      BY <2>1, <2>2, Zenon
    <3> QED BY <3>1 DEF Item
  <2>4. data \in [1..n -> Byte]
    BY <2>3, Zenon
  <2> QED BY <2>4, <1>2, FcnIsSeq, Zenon
<1>4. B!InRange(k2) /\ B!ToString(k2) = s \o data
  BY <1>3, ReadAppends, Zenon
<1>5. s \in Seq(Byte)
  BY Readable, Zenon
<1>6. Parts2(Byte, s, data, s \o data)
  BY <1>3, <1>5, Parts2Of, Zenon
<1>7. \A i \in 1..n : data[i] = w[i].byte
  OBVIOUS
<1>8. IsRest(w, n, w2)
  BY RestOf, Zenon
<1> HIDE DEF data, s
<1>10. /\ s \o data \in Seq(Byte) /\ Len(s \o data) = Len(s) + n
       /\ \A i \in 1..Len(s) : (s \o data)[i] = s[i]
       /\ \A i \in 1..n : (s \o data)[Len(s) + i] = w[i].byte
  BY <1>3, <1>6, <1>7, Zenon DEF Parts2
<1>11. IsRead(s, w, n, s \o data, w2)
  BY <1>8, <1>10, Zenon DEF IsRest, IsRead
<1> QED BY <1>2, <1>4, <1>11, Zenon DEF ReadStep, s, data

\* After a read the buffer is not empty and ends where a read may end.
LEMMA HoldsAfterRead ==
    ASSUME NEW st, NEW base, NEW k, NEW w, Holds(st, base, k, w),
           NEW n, NEW k2, NEW w2, ReadStep(k, w, n, k2, w2)
    PROVE  Holds(st, base, k2, w2) /\ Len(B!ToString(k2)) # 0
<1> DEFINE s == B!ToString(k)  r == B!ToString(k2)
<1>1. B!InRange(k) /\ View(st, base, s, w)
  BY Zenon DEF Holds
<1>2. B!InRange(k2) /\ IsRead(s, w, n, r, w2) /\ n \in 1..Len(w) /\ w[n].cut
  BY Zenon DEF ReadStep
<1>3. Len(s) \in Nat /\ Len(r) = Len(s) + n
  BY <1>1, <1>2, Readable, Zenon DEF IsRead
<1> HIDE DEF s, r
<1>4. View(st, base, r, w2) /\ Boundary(st, base + Len(r))
  BY <1>1, <1>2, ReadMoves, Zenon
<1>5. n \in Nat /\ n # 0
  BY <1>2
<1>6. Len(r) # 0
  <2> DEFINE ls == Len(s)  lr == Len(r)
  <2>1. ls \in Nat /\ lr = ls + n
    BY <1>3, Zenon
  <2> HIDE DEF ls, lr
  <2>2. lr # 0
    BY <2>1, <1>5
  <2> QED BY <2>2, Zenon DEF lr
<1> QED BY <1>2, <1>4, <1>6, Zenon DEF Holds, r

\* A websocket between two reads, n frames after the handshake.
Streaming(v, as, be, st, n, w) ==
    AtFrameHead(v, be, st, n, w) \/ AtFramePayload(v, as, be, st, n, w)

\* The codec v with the buffer j.
WithBuffer(v, j) == [v EXCEPT !.buf = j]

\* A read changes no other member.
LEMMA CodecRead ==
    ASSUME NEW k, NEW o, NEW st, NEW t, NEW p, NEW key, NEW r, NEW l,
           NEW w, IsCodec(w, k, o, st, t, p, key, r, l), NEW j
    PROVE  IsCodec(WithBuffer(w, j), j, o, st, t, p, key, r, l)
BY DEF IsCodec, WithBuffer

\* What holds of every codec between two reads.
LEMMA StreamType ==
    ASSUME NEW as, NEW be, NEW st, NEW n, NEW w, NEW v, Streaming(v, as, be, st, n, w)
    PROVE  B!InRange(v.buf) /\ w \in Seq(Item) /\ v.open = TRUE
           /\ v.state \in {"ExceptFrameHead", "ExceptPayload"}
<1>1. CASE AtFrameHead(v, be, st, n, w)
  <2> PICK k, t, key, r : /\ IsCodec(v, k, TRUE, "ExceptFrameHead", t, <<>>, key, r, 0)
                          /\ Holds(st, be[n + 1], k, w)
    BY <1>1, Zenon DEF AtFrameHead
  <2>1. v.buf = k /\ v.open = TRUE /\ v.state = "ExceptFrameHead"
    BY DEF IsCodec
  <2>2. B!InRange(k) /\ w \in Seq(Item)
    BY Zenon DEF Holds, View
  <2> QED BY <2>1, <2>2, Zenon
<1>2. CASE AtFramePayload(v, as, be, st, n, w)
  <2> PICK k, p, r, l : InPayload(v, as, be, st, n, w, k, p, r, l)
    BY <1>2, Zenon DEF AtFramePayload
  <2>1. /\ IsCodec(v, k, TRUE, "ExceptPayload", as[n + 1].type, p, as[n + 1].key, r, l)
        /\ Holds(st, be[n + 1] + (HeadLen(as[n + 1]) + l), k, w)
    BY Zenon DEF InPayload
  <2>2. v.buf = k /\ v.open = TRUE /\ v.state = "ExceptPayload"
    BY <2>1 DEF IsCodec
  <2>3. B!InRange(k) /\ w \in Seq(Item)
    BY <2>1, Zenon DEF Holds, View
  <2> QED BY <2>2, <2>3, Zenon
<1> QED BY <1>1, <1>2, Zenon DEF Streaming

\* The codec v after Decode: the frame goes on, closes the connection or is complete.
Decoded(v, as, be, st, n, w) ==
    \/ AtFramePayload(v, as, be, st, n, w)
    \/ ClosedBy(v, as, n)
    \/ Finished(v, as, be, st, n, w)

\* One read and one call of Decode.
LEMMA DecodeStep ==
    ASSUME NEW as, NEW be, NEW st, Layout(as, be, st), NEW n \in 0..Len(as), NEW w, NEW v,
           Streaming(v, as, be, st, n, w), NEW m, NEW k2, NEW w2,
           ReadStep(v.buf, w, m, k2, w2), NEW beyond \in Seq(Byte)
    PROVE  Decoded(Decode(WithBuffer(v, k2), beyond), as, be, st, n, w2)
<1> DEFINE u == WithBuffer(v, k2)
<1>1. CASE AtFrameHead(v, be, st, n, w)
  <2> PICK k, t, key, r : /\ IsCodec(v, k, TRUE, "ExceptFrameHead", t, <<>>, key, r, 0)
                          /\ Holds(st, be[n + 1], k, w)
    BY <1>1, Zenon DEF AtFrameHead
  <2>1. v.buf = k
    BY DEF IsCodec
  <2>2. IsCodec(u, k2, TRUE, "ExceptFrameHead", t, <<>>, key, r, 0)
    BY CodecRead, Zenon
  <2>3. Holds(st, be[n + 1], k2, w2) /\ Len(B!ToString(k2)) # 0
    BY <2>1, HoldsAfterRead, Zenon
  <2>4. u.state = "ExceptFrameHead"
    BY <2>2 DEF IsCodec
  <2> HIDE DEF u
  <2> DEFINE x == DecodeFrameHead(u, beyond)
  <2>5. AtFramePayload(x, as, be, st, n, w2) \/ ClosedBy(x, as, n)
    BY <2>2, <2>3, HeadStep, Zenon
  <2>6. Decode(u, beyond) = AtPayload(x)
    BY <2>4 DEF Decode
  <2> HIDE DEF x
  <2>7. CASE AtFramePayload(x, as, be, st, n, w2)
    <3>1. x.state = "ExceptPayload"
      <4> PICK kx, px, rx, lx : InPayload(x, as, be, st, n, w2, kx, px, rx, lx)
        BY <2>7, Zenon DEF AtFramePayload
      <4>1. IsCodec(x, kx, TRUE, "ExceptPayload", as[n + 1].type, px, as[n + 1].key, rx, lx)
        BY Zenon DEF InPayload
      <4> QED BY <4>1 DEF IsCodec
    <3>2. Decode(u, beyond) = DecodePayload(x)
      BY <3>1, <2>6, Zenon DEF AtPayload
    <3>3. AtFramePayload(DecodePayload(x), as, be, st, n, w2)
          \/ Finished(DecodePayload(x), as, be, st, n, w2)
      BY <2>7, PayloadStep, Zenon
    <3> QED BY <3>2, <3>3, Zenon DEF Decoded, u
  <2>8. CASE ClosedBy(x, as, n)
    <3>1. x.state = "ExceptFrameHead"
      BY <2>8, Zenon DEF ClosedBy
    <3>2. Decode(u, beyond) = x
      BY <3>1, <2>6 DEF AtPayload
    <3> QED BY <3>2, <2>8, Zenon DEF Decoded, u
  <2> QED BY <2>5, <2>7, <2>8
<1>2. CASE AtFramePayload(v, as, be, st, n, w)
  <2> PICK k, p, r, l : InPayload(v, as, be, st, n, w, k, p, r, l)
    BY <1>2, Zenon DEF AtFramePayload
  <2>1. /\ n + 1 \in 1..Len(as) /\ ~MustClose(as[n + 1].mask, as[n + 1].type)
        /\ IsCodec(v, k, TRUE, "ExceptPayload", as[n + 1].type, p, as[n + 1].key, r, l)
        /\ ReadSoFar(as[n + 1], p, l, r)
        /\ Holds(st, be[n + 1] + (HeadLen(as[n + 1]) + l), k, w)
    BY Zenon DEF InPayload
  <2>2. v.buf = k
    BY <2>1 DEF IsCodec
  <2>3. IsCodec(u, k2, TRUE, "ExceptPayload", as[n + 1].type, p, as[n + 1].key, r, l)
    BY <2>1, CodecRead, Zenon
  <2>4. Holds(st, be[n + 1] + (HeadLen(as[n + 1]) + l), k2, w2)
    BY <2>1, <2>2, HoldsAfterRead, Zenon
  <2>5. InPayload(u, as, be, st, n, w2, k2, p, r, l)
    BY <2>1, <2>3, <2>4, Zenon DEF InPayload
  <2>6. AtFramePayload(u, as, be, st, n, w2)
    BY <2>5, Zenon DEF AtFramePayload
  <2>7. u.state = "ExceptPayload"
    BY <2>3 DEF IsCodec
  <2> HIDE DEF u
  <2>8. Decode(u, beyond) = DecodePayload(u)
    BY <2>7 DEF Decode, AtPayload
  <2>9. AtFramePayload(DecodePayload(u), as, be, st, n, w2)
        \/ Finished(DecodePayload(u), as, be, st, n, w2)
    BY <2>6, PayloadStep, Zenon
  <2> QED BY <2>8, <2>9, Zenon DEF Decoded, u
<1> QED BY <1>1, <1>2, Zenon DEF Streaming

-----------------------------------------------------------------------------
(* A request handed out, a frame sent.                                     *)

\* What OnRequest is called with for the frame f.
Request(f) == [type |-> f.type, payload |-> f.payload]

\* The codec after OnRequest.
Reset(v) == [v EXCEPT !.state = "ExceptFrameHead", !.req.payload = <<>>]

\* The members OnTcpReceivedData resets.
LEMMA CodecReset ==
    ASSUME NEW k, NEW o, NEW st, NEW t, NEW p, NEW key, NEW r, NEW l,
           NEW w, IsCodec(w, k, o, st, t, p, key, r, l)
    PROVE  IsCodec(Reset(w), k, o, "ExceptFrameHead", t, <<>>, key, r, l)
BY DEF IsCodec, Reset

\* A complete frame is handed out and the codec waits for the next head.
LEMMA FinishStep ==
    ASSUME NEW as, NEW be, NEW st, Layout(as, be, st), NEW n \in 0..Len(as), NEW w, NEW v,
           Finished(v, as, be, st, n, w)
    PROVE  /\ AtFrameHead(Reset(v), be, st, n + 1, w) /\ v.req = Request(as[n + 1])
           /\ v.state = "ParseFinished"
<1> PICK k, key : /\ IsCodec(v, k, TRUE, "ParseFinished", as[n + 1].type, as[n + 1].payload,
                             key, 0, 0)
                  /\ Holds(st, be[n + 2], k, w)
  BY Zenon DEF Finished
<1>1. IsCodec(Reset(v), k, TRUE, "ExceptFrameHead", as[n + 1].type, <<>>, key, 0, 0)
  BY CodecReset, Zenon
<1>2. v.state = "ParseFinished" /\ v.req = Request(as[n + 1])
  BY DEF IsCodec, Request
<1>3. n + 1 + 1 = n + 2
  <2> DEFINE la == Len(as)
  <2>1. la \in Nat /\ n \in 0..la
    BY LayoutType, Zenon
  <2> HIDE DEF la
  <2> QED BY <2>1
<1>4. AtFrameHead(Reset(v), be, st, n + 1, w)
  BY <1>1, <1>3, Zenon DEF AtFrameHead
<1> QED BY <1>2, <1>4

\* One more answer.
LEMMA AnsweredNext ==
    ASSUME NEW as \in Seq(Frame), NEW rc, Answered(as, rc), Len(rc) + 1 \in 1..Len(as)
    PROVE  /\ Answered(as, Append(rc, Request(as[Len(rc) + 1])))
           /\ Len(Append(rc, Request(as[Len(rc) + 1]))) = Len(rc) + 1
<1> DEFINE n == Len(rc)
           f == as[n + 1]
           S == [type : 0..15, payload : Seq(Byte)]
           rc2 == Append(rc, Request(f))
<1>2. rc \in Seq(S) /\ \A i \in 1..n : rc[i] = Request(as[i])
  BY Zenon DEF Answered, Request
<1>3. Request(f) \in S
  <2>1. f \in Frame
    BY ElementOfSeq, Zenon
  <2>2. f.type \in 0..15 /\ f.payload \in Seq(Byte)
    BY <2>1, FrameFields, Zenon
  <2> QED BY <2>2, Zenon DEF Request
<1>4. n \in Nat
  BY <1>2, LenNat, Zenon
<1> HIDE DEF S
<1>5. IsAppend(S, rc, Request(f), rc2)
  BY <1>2, <1>3, Appending, Zenon
<1> HIDE DEF rc2
<1>6. /\ rc2 \in Seq(S) /\ Len(rc2) = n + 1 /\ rc2[n + 1] = Request(f)
      /\ \A i \in 1..n : rc2[i] = rc[i]
  BY <1>5, Zenon DEF IsAppend
<1>7. ASSUME NEW i \in 1..n + 1 PROVE rc2[i] = Request(as[i])
  <2>1. CASE i = n + 1
    BY <2>1, <1>6, Zenon
  <2>2. CASE i # n + 1
    <3>1. i \in 1..n
      <4> HIDE DEF n
      <4> QED BY <1>4, <2>2
    <3>2. rc2[i] = rc[i] /\ rc[i] = Request(as[i])
      BY <3>1, <1>2, <1>6, Zenon
    <3> QED BY <3>2, Zenon
  <2> QED BY <2>1, <2>2
<1>8. n + 1 <= Len(as)
  <2> DEFINE la == Len(as)
  <2>1. la \in Nat /\ n + 1 \in 1..la
    BY LenNat, Zenon
  <2> HIDE DEF la, n
  <2>2. n + 1 <= la
    BY <2>1
  <2> QED BY <2>2, Zenon DEF la
<1>9. Answered(as, rc2)
  BY <1>6, <1>7, <1>8, Zenon DEF Answered, Request, S
<1> QED BY <1>6, <1>9, Zenon DEF rc2

\* A frame that is sent changes no earlier one.
LEMMA AnsweredExtends ==
    ASSUME NEW as \in Seq(Frame), NEW rc, Answered(as, rc), NEW f \in Frame
    PROVE  Answered(Append(as, f), rc)
<1> DEFINE as2 == Append(as, f)
           n == Len(rc)  la == Len(as)
           S == [type : 0..15, payload : Seq(Byte)]
<1>1. IsAppend(Frame, as, f, as2)
  BY Appending, Zenon
<1>2. rc \in Seq(S) /\ n <= la /\ \A i \in 1..n : rc[i] = Request(as[i])
  BY Zenon DEF Answered, Request
<1>3. n \in Nat /\ la \in Nat
  BY <1>2, LenNat, Zenon
<1> HIDE DEF as2
<1>4. Len(as2) = la + 1 /\ \A i \in 1..la : as2[i] = as[i]
  BY <1>1, Zenon DEF IsAppend
<1>5. n <= la + 1 /\ \A i \in 1..n : i \in 1..la
  <2> HIDE DEF n, la
  <2> QED BY <1>2, <1>3
<1>6. \A i \in 1..n : rc[i] = Request(as2[i])
  BY <1>2, <1>4, <1>5, Zenon
<1>7. n <= Len(as2)
  BY <1>4, <1>5, Zenon
<1>8. Answered(as2, rc)
  BY <1>2, <1>6, <1>7, Zenon DEF Answered, Request
<1> QED BY <1>8, Zenon DEF as2

\* Nor what is in the buffer.
LEMMA HoldsExtends ==
    ASSUME NEW st \in Seq(Item), NEW base, NEW k, NEW w, Holds(st, base, k, w),
           NEW f \in Frame, NEW st2, IsSent(f, st, st2), NEW w2, IsSent(f, w, w2)
    PROVE  Holds(st2, base, k, w2)
<1> DEFINE s == B!ToString(k)  ls == Len(s)  lw == Len(w)  lt == Len(st)
<1>1. B!InRange(k) /\ View(st, base, s, w) /\ Boundary(st, base + ls)
  BY Zenon DEF Holds
<1>2. base \in Nat /\ ls \in Nat /\ lw \in Nat /\ base + ls + lw = lt
  <2> HIDE DEF s
  <2> QED BY <1>1, ViewType
<1> HIDE DEF s
<1>3. View(st2, base, s, w2)
  BY <1>1, ViewExtends, Zenon
<1>4. base + ls \in 0..Len(st)
  <2>1. base + ls \in 0..lt
    <3> HIDE DEF ls, lw, lt
    <3> QED BY <1>2
  <2> QED BY <2>1, Zenon DEF lt
<1>5. Boundary(st2, base + ls)
  BY <1>1, <1>4, BoundaryExtends, Zenon
<1> QED BY <1>1, <1>3, <1>5, Zenon DEF Holds, s

\* Nor what the codec waits for.
LEMMA StreamingExtends ==
    ASSUME NEW as, NEW be, NEW st, Layout(as, be, st), NEW n \in 0..Len(as), NEW w, NEW v,
           Streaming(v, as, be, st, n, w), NEW f \in Frame, NEW e \in Nat,
           NEW st2, IsSent(f, st, st2), NEW w2, IsSent(f, w, w2)
    PROVE  Streaming(v, Append(as, f), Append(be, e), st2, n, w2)
<1> DEFINE as2 == Append(as, f)  be2 == Append(be, e)  la == Len(as)
<1>1. as \in Seq(Frame) /\ la \in Nat /\ be \in Seq(Nat) /\ Len(be) = la + 1 /\ st \in Seq(Item)
  BY LayoutType, Zenon
<1>2. IsAppend(Frame, as, f, as2) /\ IsAppend(Nat, be, e, be2)
  BY <1>1, Appending, Zenon
<1>3. Len(as2) = la + 1 /\ \A i \in 1..la : as2[i] = as[i]
  <2> HIDE DEF as2
  <2> QED BY <1>2, Zenon DEF IsAppend
<1>4. be2[n + 1] = be[n + 1]
  <2>1. n + 1 \in 1..Len(be)
    <3>1. n + 1 \in 1..la + 1
      <4>1. n \in 0..la
        OBVIOUS
      <4> HIDE DEF la
      <4> QED BY <4>1, <1>1
    <3> QED BY <3>1, <1>1, Zenon
  <2> HIDE DEF be2
  <2> QED BY <2>1, <1>2, Zenon DEF IsAppend
<1> HIDE DEF as2, be2
<1>5. CASE AtFrameHead(v, be, st, n, w)
  <2> PICK k, t, key, r : /\ IsCodec(v, k, TRUE, "ExceptFrameHead", t, <<>>, key, r, 0)
                          /\ Holds(st, be[n + 1], k, w)
    BY <1>5, Zenon DEF AtFrameHead
  <2>1. Holds(st2, be[n + 1], k, w2)
    BY <1>1, HoldsExtends, Zenon
  <2>2. AtFrameHead(v, be2, st2, n, w2)
    BY <2>1, <1>4, Zenon DEF AtFrameHead
  <2> QED BY <2>2, Zenon DEF Streaming, as2, be2
<1>6. CASE AtFramePayload(v, as, be, st, n, w)
  <2> PICK k, p, r, l : InPayload(v, as, be, st, n, w, k, p, r, l)
    BY <1>6, Zenon DEF AtFramePayload
  <2>1. /\ n + 1 \in 1..la /\ ~MustClose(as[n + 1].mask, as[n + 1].type)
        /\ IsCodec(v, k, TRUE, "ExceptPayload", as[n + 1].type, p, as[n + 1].key, r, l)
        /\ ReadSoFar(as[n + 1], p, l, r)
        /\ Holds(st, be[n + 1] + (HeadLen(as[n + 1]) + l), k, w)
    BY Zenon DEF InPayload
  <2>2. as2[n + 1] = as[n + 1]
    BY <2>1, <1>3, Zenon
  <2>3. n + 1 \in 1..Len(as2)
    <3>1. n + 1 \in 1..la + 1
      <4> HIDE DEF la
      <4> QED BY <2>1, <1>1
    <3> QED BY <3>1, <1>3, Zenon
  <2>4. Holds(st2, be[n + 1] + (HeadLen(as[n + 1]) + l), k, w2)
    BY <2>1, <1>1, HoldsExtends, Zenon
  <2>5. InPayload(v, as2, be2, st2, n, w2, k, p, r, l)
    BY <2>1, <2>2, <2>3, <2>4, <1>4, Zenon DEF InPayload
  <2>6. AtFramePayload(v, as2, be2, st2, n, w2)
    BY <2>5, Zenon DEF AtFramePayload
  <2> QED BY <2>6, Zenon DEF Streaming, as2, be2
<1> QED BY <1>5, <1>6, Zenon DEF Streaming

-----------------------------------------------------------------------------
(* The inductive invariant.                                                *)

\* Nothing was read: the wire holds no more than the handshake, which is read at once.
Fresh(v, w, sh, as, be, rc) ==
    /\ v = NewCodec /\ as = <<>> /\ be = <<0>> /\ rc = <<>>
    /\ w \in Seq(Item) /\ (sh \/ w = <<>>)
    /\ \A i \in 1..Len(w) : w[i].cut => i = Len(w)

\* The handshake was read and is not a request that ends.
Stuck(v, w) == v.open = TRUE /\ v.state = "ExceptHandshake" /\ w = <<>>

\* The connection was closed by the handshake or by the next frame.
Closed(v, as, rc) == v.open = FALSE /\ (as = <<>> \/ ClosedBy(v, as, Len(rc)))

\* The handshake had a version HttpReqDecoder throws on.
Thrown(v, rc) == v.open = TRUE /\ v.state = "Thrown" /\ rc = <<>>

\* The phases of a connection.
Phase(v, w, sh, as, be, st, rc) ==
    \/ Fresh(v, w, sh, as, be, rc)
    \/ sh /\ \/ Stuck(v, w) \/ Closed(v, as, rc) \/ Thrown(v, rc)
             \/ Streaming(v, as, be, st, Len(rc), w)

\* The bytes st explain the state.
Consistent(v, w, sh, as, be, st, rc) ==
    Layout(as, be, st) /\ Answered(as, rc) /\ Phase(v, w, sh, as, be, st, rc)

\* Some bytes after the handshake explain the codec, the wire and the requests.
StreamInv == \E st : Consistent(c, wire, shaken, asked, begins, st, received)

\* Before the first frame.
LEMMA EmptyLayout == Layout(<<>>, <<0>>, <<>>) /\ Answered(<<>>, <<>>)
<1>1. Layout(<<>>, <<0>>, <<>>)
  BY DEF Layout
<1>2. Answered(<<>>, <<>>)
  BY DEF Answered
<1> QED BY <1>1, <1>2

\* The members of a new codec.
LEMMA NewCodecIs ==
    /\ B!InRange(NewBuffer)
    /\ IsCodec(NewCodec, NewBuffer, TRUE, "ExceptHandshake", 0, <<>>, <<0, 0, 0, 0>>, 0, 0)
<1>1. B!Zeros(InitSize) \in Seq(0..255) /\ Len(B!Zeros(InitSize)) = InitSize
  <2> DEFINE S == 0..255
  <2>1. B!Zeros(InitSize) \in [1..InitSize -> S]
    BY DEF B!Zeros
  <2> HIDE DEF S
  <2>2. B!Zeros(InitSize) \in Seq(S) /\ Len(B!Zeros(InitSize)) = InitSize
    BY <2>1, BufferAssumption, FcnIsSeq, Zenon
  <2> QED BY <2>2, Zenon DEF S
<1>2. B!InRange(NewBuffer)
  BY <1>1, BufferAssumption DEF B!InRange, NewBuffer
<1>3. IsCodec(NewCodec, NewBuffer, TRUE, "ExceptHandshake", 0, <<>>, <<0, 0, 0, 0>>, 0, 0)
  BY DEF IsCodec, NewCodec
<1> QED BY <1>2, <1>3

\* A new connection.
LEMMA FreshIsConsistent ==
    ASSUME NEW sh PROVE Consistent(NewCodec, <<>>, sh, <<>>, <<0>>, <<>>, <<>>)
<1>1. <<>> \in Seq(Item) /\ \A i \in 1..Len(<<>>) : <<>>[i].cut => i = Len(<<>>)
  OBVIOUS
<1>2. Fresh(NewCodec, <<>>, sh, <<>>, <<0>>, <<>>)
  BY <1>1, Zenon DEF Fresh
<1> QED BY <1>2, EmptyLayout, Zenon DEF Consistent, Phase

\* The invariant holds initially.
LEMMA InitInv == Init => StreamInv
BY FreshIsConsistent, Zenon DEF Init, StreamInv

\* OnTcpConnected.
LEMMA ConnectedInv == OnTcpConnected => StreamInv'
<1> SUFFICES ASSUME OnTcpConnected PROVE StreamInv'
  OBVIOUS
<1>1. Consistent(NewCodec, <<>>, FALSE, <<>>, <<0>>, <<>>, <<>>)
  BY FreshIsConsistent
<1>2. c' = NewCodec /\ wire' = <<>> /\ shaken' = FALSE /\ asked' = <<>> /\ begins' = <<0>>
      /\ received' = <<>>
  BY Zenon DEF OnTcpConnected
<1>3. Consistent(c', wire', shaken', asked', begins', <<>>, received')
  BY <1>1, <1>2
<1> QED BY <1>3, Zenon DEF StreamInv

\* A read of w ends at its end.
ReadAtOnce(w) == w \in Seq(Item) /\ \A i \in 1..Len(w) : w[i].cut => i = Len(w)

\* A handshake that is not split is read at once.
LEMMA MarkedAtEnd ==
    ASSUME NEW bytes \in Seq(Byte), SplitHandshake = FALSE
    PROVE  ReadAtOnce(Marked(bytes, SplitHandshake))
<1> DEFINE w == Marked(bytes, SplitHandshake)  l == Len(bytes)
<1>1. SplitHandshake \in BOOLEAN
  OBVIOUS
<1>2. /\ w \in Seq(Item) /\ Len(w) = l
      /\ \A i \in 1..l : w[i] = [byte |-> bytes[i], cut |-> SplitHandshake \/ i = l]
  BY <1>1, MarkedShape, Zenon
<1> HIDE DEF w, l
<1>3. ASSUME NEW i \in 1..l, w[i].cut PROVE i = l
  <2>1. w[i].cut = (SplitHandshake \/ i = l)
    BY <1>2
  <2> QED BY <2>1, <1>3, Zenon
<1> QED BY <1>2, <1>3, Zenon DEF ReadAtOnce, w

\* ClientHandshakes.
LEMMA HandshakesInv ==
    ASSUME SplitHandshake = FALSE, StreamInv, ClientHandshakes
    PROVE  StreamInv'
<1> PICK st : Consistent(c, wire, shaken, asked, begins, st, received)
  BY Zenon DEF StreamInv
<1>1. Layout(asked, begins, st) /\ Answered(asked, received)
      /\ Fresh(c, wire, shaken, asked, begins, received)
  BY Zenon DEF Consistent, Phase, ClientHandshakes
<1> PICK h \in Handshakes : wire' = Marked(h, SplitHandshake)
  BY Zenon DEF ClientHandshakes
<1>2. shaken' /\ c' = c /\ asked' = asked /\ begins' = begins /\ received' = received
  BY Zenon DEF ClientHandshakes
<1>3. h \in Seq(Byte)
  BY ClientAssumption, Zenon
<1>4. ReadAtOnce(Marked(h, SplitHandshake))
  BY <1>3, MarkedAtEnd, Zenon
<1>5. wire' \in Seq(Item) /\ \A i \in 1..Len(wire') : wire'[i].cut => i = Len(wire')
  BY <1>4, Zenon DEF ReadAtOnce
<1>6. Fresh(c', wire', shaken', asked', begins', received')
  BY <1>1, <1>2, <1>5, Zenon DEF Fresh
<1>7. Consistent(c', wire', shaken', asked', begins', st, received')
  BY <1>1, <1>2, <1>6, Zenon DEF Consistent, Phase
<1> QED BY <1>7, Zenon DEF StreamInv

\* ClientSendsFrame.
LEMMA SendsInv ==
    ASSUME SplitHeads = FALSE, StreamInv, ClientSendsFrame
    PROVE  StreamInv'
<1> PICK st : Consistent(c, wire, shaken, asked, begins, st, received)
  BY Zenon DEF StreamInv
<1>1. /\ Layout(asked, begins, st) /\ Answered(asked, received)
      /\ Phase(c, wire, shaken, asked, begins, st, received)
  BY Zenon DEF Consistent
<1> PICK f \in Frames :
        /\ asked' = Append(asked, f)
        /\ begins' = Append(begins, begins[Len(begins)] + Len(FrameBytes(f)))
        /\ wire' = wire \o Marked(FrameHead(f), FALSE) \o Marked(FramePayload(f), TRUE)
  BY Zenon DEF ClientSendsFrame
<1>2. /\ c.open /\ c.state # "ExceptHandshake"
      /\ shaken' = shaken /\ c' = c /\ received' = received
  BY Zenon DEF ClientSendsFrame
<1>3. f \in Frame
  BY ClientAssumption, Zenon
<1>4. asked \in Seq(Frame) /\ st \in Seq(Item)
  BY <1>1, LayoutType, Zenon
<1> DEFINE st2 == st \o Marked(FrameHead(f), FALSE) \o Marked(FramePayload(f), TRUE)
           e == begins[Len(begins)] + Len(FrameBytes(f))
<1>5. IsSent(f, st, st2)
  BY <1>3, <1>4, Sending, Zenon
<1> HIDE DEF st2
<1>6. Layout(Append(asked, f), Append(begins, e), st2)
  BY <1>1, <1>3, <1>5, LayoutExtends, Zenon
<1>7. Answered(Append(asked, f), received)
  BY <1>1, <1>3, <1>4, AnsweredExtends, Zenon
<1>8. CASE Fresh(c, wire, shaken, asked, begins, received)
  <2>1. c.state = "ExceptHandshake"
    BY <1>8 DEF Fresh, NewCodec
  <2> QED BY <2>1, <1>2, Zenon
<1>9. CASE Stuck(c, wire)
  BY <1>9, <1>2, Zenon DEF Stuck
<1>10. CASE Closed(c, asked, received)
  BY <1>10, <1>2, Zenon DEF Closed
<1>11. CASE shaken /\ Thrown(c, received)
  <2>1. Phase(c', wire', shaken', asked', begins', st2, received')
    BY <1>2, <1>11, Zenon DEF Phase, Thrown
  <2> QED BY <2>1, <1>2, <1>6, <1>7, Zenon DEF Consistent, StreamInv
<1>12. CASE shaken /\ Streaming(c, asked, begins, st, Len(received), wire)
  <2>1. IsSent(f, wire, wire')
    <3>1. wire \in Seq(Item)
      BY <1>12, StreamType, Zenon
    <3> QED BY <3>1, <1>3, Sending, Zenon
  <2>2. Len(received) \in 0..Len(asked)
    <3> DEFINE la == Len(asked)  lr == Len(received)
    <3>1. la \in Nat /\ lr \in Nat /\ lr <= la
      BY <1>1, <1>4, LenNat, Zenon DEF Answered
    <3> HIDE DEF la, lr
    <3>2. lr \in 0..la
      BY <3>1
    <3> QED BY <3>2, Zenon DEF la, lr
  <2>3. e \in Nat
    <3> DEFINE lb == Len(begins)  b == begins[lb]  n == Len(FrameBytes(f))
    <3>1. n \in Nat
      BY <1>3, FrameLenNat, Zenon
    <3>2. b \in Nat
      <4> DEFINE la == Len(asked)
      <4>1. la \in Nat /\ lb = la + 1 /\ \A i \in 1..la + 1 : begins[i] \in Nat
        BY <1>1, LayoutType, Zenon
      <4> HIDE DEF la, lb
      <4>2. lb \in 1..la + 1
        BY <4>1
      <4> QED BY <4>1, <4>2, Zenon
    <3> HIDE DEF b, n
    <3>3. b + n \in Nat
      BY <3>1, <3>2
    <3> QED BY <3>3, Zenon DEF b, n
  <2> HIDE DEF e
  <2>4. Streaming(c, Append(asked, f), Append(begins, e), st2, Len(received), wire')
    BY <2>1, <2>2, <2>3, <1>1, <1>3, <1>5, <1>12, StreamingExtends, Zenon
  <2>5. Phase(c', wire', shaken', asked', begins', st2, received')
    BY <2>4, <1>2, <1>12, Zenon DEF Phase, e
  <2> QED BY <2>5, <1>2, <1>6, <1>7, Zenon DEF Consistent, StreamInv, e
<1> QED BY <1>1, <1>8, <1>9, <1>10, <1>11, <1>12, Zenon DEF Phase

\* What OnTcpReceivedData does with the codec v that Decode returned.
Handled(v, v2, rc, rc2) ==
    \/ v.state = "ParseFinished" /\ v2 = Reset(v) /\ rc2 = Append(rc, v.req)
    \/ v.state # "ParseFinished" /\ v2 = v /\ rc2 = rc

\* OnTcpReceivedData on a websocket.
LEMMA StreamReceived ==
    ASSUME NEW as, NEW be, NEW st, Layout(as, be, st), NEW rc, Answered(as, rc), NEW w, NEW v,
           Streaming(v, as, be, st, Len(rc), w), NEW m, NEW k2, NEW w2,
           ReadStep(v.buf, w, m, k2, w2), NEW beyond \in Seq(Byte),
           NEW v2, NEW rc2, Handled(Decode(WithBuffer(v, k2), beyond), v2, rc, rc2)
    PROVE  Consistent(v2, w2, TRUE, as, be, st, rc2)
<1> DEFINE n == Len(rc)
           u == Decode(WithBuffer(v, k2), beyond)
<1>1. as \in Seq(Frame)
  BY LayoutType, Zenon
<1>2. n \in 0..Len(as)
  <2> DEFINE la == Len(as)
  <2>1. la \in Nat /\ n \in Nat /\ n <= la
    BY <1>1, LenNat, Zenon DEF Answered
  <2> HIDE DEF la, n
  <2>2. n \in 0..la
    BY <2>1
  <2> QED BY <2>2, Zenon DEF la
<1>3. Decoded(u, as, be, st, n, w2)
  BY <1>2, DecodeStep, Zenon
<1>4. Handled(u, v2, rc, rc2)
  OBVIOUS
<1> HIDE DEF u
<1>5. CASE AtFramePayload(u, as, be, st, n, w2)
  <2>1. Streaming(u, as, be, st, n, w2)
    BY <1>5, Zenon DEF Streaming
  <2>2. u.state # "ParseFinished"
    <3>1. u.state \in {"ExceptFrameHead", "ExceptPayload"}
      BY <2>1, StreamType, Zenon
    <3> QED BY <3>1
  <2>3. v2 = u /\ rc2 = rc
    BY <2>2, <1>4, Zenon DEF Handled
  <2> QED BY <2>1, <2>3, Zenon DEF Consistent, Phase
<1>6. CASE ClosedBy(u, as, n)
  <2>1. u.state = "ExceptFrameHead" /\ u.open = FALSE
    BY <1>6 DEF ClosedBy
  <2>2. v2 = u /\ rc2 = rc
    BY <2>1, <1>4 DEF Handled
  <2>3. Closed(v2, as, rc2)
    BY <2>1, <2>2, <1>6 DEF Closed
  <2> QED BY <2>2, <2>3, Zenon DEF Consistent, Phase
<1>7. CASE Finished(u, as, be, st, n, w2)
  <2>1. /\ AtFrameHead(Reset(u), be, st, n + 1, w2) /\ u.req = Request(as[n + 1])
        /\ u.state = "ParseFinished"
    BY <1>2, <1>7, FinishStep, Zenon
  <2>2. v2 = Reset(u) /\ rc2 = Append(rc, Request(as[n + 1]))
    BY <2>1, <1>4, Zenon DEF Handled
  <2>3. n + 1 \in 1..Len(as)
    BY <1>7, Zenon DEF Finished
  <2>4. Answered(as, rc2) /\ Len(rc2) = n + 1
    BY <2>2, <2>3, <1>1, AnsweredNext, Zenon
  <2>5. Streaming(v2, as, be, st, Len(rc2), w2)
    BY <2>1, <2>2, <2>4, Zenon DEF Streaming
  <2> QED BY <2>4, <2>5, Zenon DEF Consistent, Phase
<1> QED BY <1>3, <1>5, <1>6, <1>7, Zenon DEF Decoded

\* A read of everything leaves nothing.
LEMMA EmptyRest ==
    ASSUME NEW s, NEW w, NEW r, NEW v, IsRead(s, w, Len(w), r, v), w \in Seq(Item)
    PROVE  v = <<>>
<1>1. v \in Seq(Item) /\ Len(v) = Len(w) - Len(w)
  BY Zenon DEF IsRead
<1>2. Len(w) \in Nat
  BY LenNat, Zenon
<1>3. Len(v) = 0
  <2> DEFINE lw == Len(w)
  <2>1. lw \in Nat /\ Len(v) = lw - lw
    BY <1>1, <1>2, Zenon
  <2> HIDE DEF lw
  <2> QED BY <2>1
<1> QED BY <1>1, <1>3, EmptySeq

\* OnTcpReceivedData with the handshake.
LEMMA FreshReceived ==
    ASSUME NEW as, NEW be, NEW rc, NEW w, NEW v,
           Fresh(v, w, TRUE, as, be, rc), NEW m, NEW k2, NEW w2,
           ReadStep(v.buf, w, m, k2, w2), NEW beyond,
           NEW v2, NEW rc2, Handled(Decode(WithBuffer(v, k2), beyond), v2, rc, rc2)
    PROVE  Consistent(v2, w2, TRUE, as, be, <<>>, rc2)
<1> DEFINE key == <<0, 0, 0, 0>>
           u == WithBuffer(v, k2)
           x == HandShake(u, beyond)
<1>1. v = NewCodec /\ as = <<>> /\ be = <<0>> /\ rc = <<>> /\ w \in Seq(Item)
  BY Zenon DEF Fresh
<1>2. B!InRange(k2)
  BY Zenon DEF ReadStep
<1>3. w2 = <<>>
  <2>1. m = Len(w)
    BY Zenon DEF ReadStep, Fresh
  <2>2. IsRead(B!ToString(v.buf), w, Len(w), B!ToString(k2), w2)
    BY <2>1, Zenon DEF ReadStep
  <2> QED BY <2>2, <1>1, EmptyRest, Zenon
<1>4. IsCodec(u, k2, TRUE, "ExceptHandshake", 0, <<>>, key, 0, 0)
  <2> HIDE DEF key, u
  <2>1. IsCodec(NewCodec, NewBuffer, TRUE, "ExceptHandshake", 0, <<>>, key, 0, 0)
    BY NewCodecIs DEF key
  <2>2. IsCodec(WithBuffer(NewCodec, k2), k2, TRUE, "ExceptHandshake", 0, <<>>, key, 0, 0)
    BY <2>1, CodecRead
  <2> QED BY <2>2, <1>1, Zenon DEF u
<1>5. u.state = "ExceptHandshake"
  BY <1>4 DEF IsCodec
<1> HIDE DEF key
<1>6. \E j, o, s : AfterHandshake(x, j, o, s, 0, <<>>, key, 0, 0)
  <2> HIDE DEF u
  <2> QED BY <1>2, <1>4, HandshakeDecoded
<1> PICK j, o, s : AfterHandshake(x, j, o, s, 0, <<>>, key, 0, 0)
  BY <1>6
<1>7. Decode(u, beyond) = x
  BY <1>5, Zenon DEF Decode
<1>8. Handled(x, v2, rc, rc2)
  BY <1>7, Zenon
<1> HIDE DEF x
<1>9. /\ x.open = o /\ x.state = s /\ IsCodec(x, j, o, s, 0, <<>>, key, 0, 0)
      /\ o \in BOOLEAN /\ s \in {"ExceptHandshake", "Thrown", "ExceptFrameHead"}
  BY DEF AfterHandshake, IsCodec
<1>10. v2 = x /\ rc2 = rc
  BY <1>8, <1>9 DEF Handled
<1>11. Layout(as, be, <<>>) /\ Answered(as, rc2)
  BY <1>1, <1>10, EmptyLayout
<1>12. CASE s = "ExceptHandshake" /\ o = TRUE
  <2>1. Stuck(v2, w2)
    BY <1>3, <1>9, <1>10, <1>12, Zenon DEF Stuck
  <2> QED BY <2>1, <1>11, Zenon DEF Consistent, Phase
<1>13. CASE o = FALSE
  <2>1. Closed(v2, as, rc2)
    BY <1>1, <1>9, <1>10, <1>13 DEF Closed
  <2> QED BY <2>1, <1>11, Zenon DEF Consistent, Phase
<1>14. CASE s = "Thrown" /\ o = TRUE
  <2>1. Thrown(v2, rc2)
    BY <1>1, <1>9, <1>10, <1>14 DEF Thrown
  <2> QED BY <2>1, <1>11, Zenon DEF Consistent, Phase
<1>15. CASE s = "ExceptFrameHead" /\ o = TRUE
  <2>1. B!InRange(j) /\ Len(B!ToString(j)) = 0
    BY <1>15, Zenon DEF AfterHandshake
  <2>2. Holds(<<>>, 0, j, <<>>)
    <3> DEFINE t == B!ToString(j)
    <3>1. t \in Seq(Byte) /\ Len(t) = 0
      BY <2>1, Readable
    <3> HIDE DEF t
    <3>2. View(<<>>, 0, t, <<>>) /\ Boundary(<<>>, 0 + Len(t))
      BY <3>1 DEF View, Boundary
    <3> QED BY <3>2, <2>1, Zenon DEF Holds, t
  <2>3. Len(rc2) = 0 /\ be[0 + 1] = 0
    BY <1>1, <1>10
  <2>4. AtFrameHead(v2, be, <<>>, Len(rc2), w2)
    <3>1. IsCodec(v2, j, TRUE, "ExceptFrameHead", 0, <<>>, key, 0, 0)
      BY <1>9, <1>10, <1>15
    <3>2. Holds(<<>>, be[Len(rc2) + 1], j, w2)
      BY <2>2, <2>3, <1>3, Zenon
    <3> QED BY <3>1, <3>2, Zenon DEF AtFrameHead
  <2> QED BY <2>4, <1>11, Zenon DEF Consistent, Phase, Streaming
<1> QED BY <1>9, <1>12, <1>13, <1>14, <1>15

\* OnTcpReceivedData.
LEMMA ReceivedInv ==
    ASSUME StreamInv, OnTcpReceivedData
    PROVE  StreamInv'
<1> PICK st : Consistent(c, wire, shaken, asked, begins, st, received)
  BY Zenon DEF StreamInv
<1>1. /\ Layout(asked, begins, st) /\ Answered(asked, received)
      /\ Phase(c, wire, shaken, asked, begins, st, received)
  BY Zenon DEF Consistent
<1> PICK n \in {i \in DOMAIN wire : wire[i].cut}, beyond \in Beyond :
        /\ LET bytes == [i \in 1..n |-> wire[i].byte]
               read  == [c EXCEPT !.buf = B!ReadBytesFromFd(@, bytes)]
           IN  \E w \in {Decode(read, beyond)} :
                \/ /\ w.state = "ParseFinished"
                   /\ c' = [w EXCEPT !.state = "ExceptFrameHead", !.req.payload = <<>>]
                   /\ received' = Append(received, w.req)
                   /\ \E size \in RespSizes :
                        reply' = [head |-> EncodeFrameHead(size, kText), size |-> size]
                \/ /\ w.state # "ParseFinished"
                   /\ c' = w
                   /\ UNCHANGED <<received, reply>>
        /\ wire' = SubSeq(wire, n + 1, Len(wire))
  BY Zenon DEF OnTcpReceivedData
<1> DEFINE k2 == B!ReadBytesFromFd(c.buf, [i \in 1..n |-> wire[i].byte])
<1>2. Handled(Decode(WithBuffer(c, k2), beyond), c', received, received')
  BY Zenon DEF Handled, WithBuffer, Reset
<1>3. /\ c.open /\ c.state # "Thrown" /\ shaken' = shaken /\ asked' = asked
      /\ begins' = begins
  BY Zenon DEF OnTcpReceivedData
<1>4. beyond \in Seq(Byte)
  BY BeyondIsSeq, Zenon
<1>5. n \in DOMAIN wire /\ wire[n].cut
  OBVIOUS
<1>6. ASSUME B!InRange(c.buf), wire \in Seq(Item)
      PROVE  ReadStep(c.buf, wire, n, k2, wire')
  <2>1. n \in 1..Len(wire)
    BY <1>5, <1>6
  <2> QED BY <2>1, <1>5, <1>6, Reading, Zenon
<1> HIDE DEF k2
<1>7. CASE Fresh(c, wire, shaken, asked, begins, received)
  <2>1. wire \in Seq(Item) /\ c = NewCodec /\ (shaken \/ wire = <<>>)
    BY <1>7, Zenon DEF Fresh
  <2>2. c.buf = NewBuffer
    BY <2>1 DEF NewCodec
  <2>3. B!InRange(c.buf)
    BY <2>2, NewCodecIs, Zenon
  <2>4. ReadStep(c.buf, wire, n, k2, wire')
    BY <2>1, <2>3, <1>6, Zenon
  <2>5. wire # <<>>
    BY <1>5
  <2>6. Fresh(c, wire, TRUE, asked, begins, received)
    BY <1>7, <2>1, Zenon DEF Fresh
  <2>7. Consistent(c', wire', TRUE, asked, begins, <<>>, received')
    BY <2>4, <2>6, <1>2, FreshReceived, Zenon
  <2>8. Consistent(c', wire', shaken', asked', begins', <<>>, received')
    BY <2>1, <2>5, <2>7, <1>3, Zenon DEF Consistent, Phase, Fresh
  <2> QED BY <2>8, Zenon DEF StreamInv
<1>8. CASE Stuck(c, wire)
  <2>1. wire = <<>>
    BY <1>8, Zenon DEF Stuck
  <2> QED BY <2>1, <1>5
<1>9. CASE Closed(c, asked, received)
  BY <1>9, <1>3, Zenon DEF Closed
<1>10. CASE Thrown(c, received)
  BY <1>10, <1>3, Zenon DEF Thrown
<1>11. CASE shaken /\ Streaming(c, asked, begins, st, Len(received), wire)
  <2>1. B!InRange(c.buf) /\ wire \in Seq(Item)
    BY <1>11, StreamType, Zenon
  <2>2. ReadStep(c.buf, wire, n, k2, wire')
    BY <2>1, <1>6, Zenon
  <2>3. Consistent(c', wire', TRUE, asked, begins, st, received')
    BY <2>2, <1>1, <1>2, <1>4, <1>11, StreamReceived, Zenon
  <2>4. Consistent(c', wire', shaken', asked', begins', st, received')
    BY <2>3, <1>3, <1>11, Zenon DEF Consistent, Phase, Fresh
  <2> QED BY <2>4, Zenon DEF StreamInv
<1> QED BY <1>1, <1>7, <1>8, <1>9, <1>10, <1>11, Zenon DEF Phase

-----------------------------------------------------------------------------
(* The theorems.                                                           *)

\* Every step preserves the invariant.
LEMMA NextInv ==
    ASSUME SplitHandshake = FALSE, SplitHeads = FALSE, StreamInv, [Next]_vars
    PROVE  StreamInv'
<1>1. CASE ClientHandshakes
  BY <1>1, HandshakesInv, Zenon
<1>2. CASE ClientSendsFrame
  BY <1>2, SendsInv, Zenon
<1>3. CASE OnTcpReceivedData
  BY <1>3, ReceivedInv, Zenon
<1>4. CASE OnTcpConnected
  BY <1>4, ConnectedInv, Zenon
<1>5. CASE UNCHANGED vars
  BY <1>5, Zenon DEF vars, StreamInv
<1> QED BY <1>1, <1>2, <1>3, <1>4, <1>5, Zenon DEF Next

\* The bytes a client sent after its handshake are, without gap, overlap or change, those
\* of the requests handed out, of the frame being read, of the receive buffer and of the
\* wire, as long as the handshake and every frame head arrive whole.
THEOREM StreamInvariant ==
    ASSUME SplitHandshake = FALSE, SplitHeads = FALSE
    PROVE  Spec => []StreamInv
<1>1. Init => StreamInv
  BY InitInv
<1>2. StreamInv /\ [Next]_vars => StreamInv'
  BY NextInv
<1> QED BY <1>1, <1>2, PTL DEF Spec

-----------------------------------------------------------------------------

\* A sequence that agrees with the beginning of y is a prefix.
LEMMA SubSeqAll ==
    ASSUME NEW S, NEW x \in Seq(S), NEW y \in Seq(S), Len(x) <= Len(y),
           \A i \in 1..Len(x) : x[i] = y[i]
    PROVE  IsPrefix(x, y)
<1> DEFINE n == Len(x)
           p == SubSeq(x, 1, n)  q == SubSeq(y, 1, n)
<1>1. n \in Nat /\ Len(y) \in Nat /\ n <= Len(y)
  OBVIOUS
<1>2. p \in Seq(S) /\ Len(p) = n /\ \A i \in 1..n : p[i] = x[i]
  BY <1>1, SubSeqProperties
<1>3. q \in Seq(S) /\ Len(q) = n /\ \A i \in 1..n : q[i] = y[i]
  BY <1>1, SubSeqProperties
<1> HIDE DEF p, q
<1>4. Same(p, q)
  BY <1>2, <1>3, Zenon DEF Same
<1>5. p = q
  BY <1>2, <1>3, <1>4, SameSeq, Zenon
<1> QED BY <1>1, <1>5, Zenon DEF IsPrefix, p, q

\* The domain of a sequence.
LEMMA DomainIsLen == ASSUME NEW S, NEW s \in Seq(S) PROVE DOMAIN s = 1..Len(s) /\ Len(s) \in Nat
OBVIOUS

\* The requests handed out are a prefix of the frames.
LEMMA AnsweredIsPrefix ==
    ASSUME NEW as \in Seq(Frame), NEW rc, Answered(as, rc)
    PROVE  IsPrefix(rc, [i \in DOMAIN as |-> Request(as[i])])
<1> DEFINE S == [type : 0..15, payload : Seq(Byte)]
           t == [i \in DOMAIN as |-> Request(as[i])]
           la == Len(as)  n == Len(rc)
<1>1. DOMAIN as = 1..la /\ la \in Nat
  BY DomainIsLen, Zenon
<1>2. \A i \in 1..la : Request(as[i]) \in S
  <2> TAKE i \in 1..la
  <2>1. as[i] \in Frame
    BY ElementOfSeq, Zenon
  <2>2. as[i].type \in 0..15 /\ as[i].payload \in Seq(Byte)
    BY <2>1, FrameFields, Zenon
  <2> QED BY <2>2, Zenon DEF Request
<1>3. rc \in Seq(S) /\ n <= la /\ \A i \in 1..n : rc[i] = Request(as[i])
  BY Zenon DEF Answered, Request
<1> HIDE DEF S
<1>4. t \in [1..la -> S] /\ \A i \in 1..la : t[i] = Request(as[i])
  BY <1>1, <1>2, Zenon
<1>5. t \in Seq(S) /\ Len(t) = la
  BY <1>1, <1>4, FcnIsSeq, Zenon
<1> HIDE DEF t
<1>6. n \in Nat
  BY <1>3, LenNat, Zenon
<1>7. \A i \in 1..n : i \in 1..la
  <2> HIDE DEF n, la
  <2> QED BY <1>1, <1>3, <1>6
<1>8. \A i \in 1..n : rc[i] = t[i]
  BY <1>3, <1>4, <1>7, Zenon
<1>9. Len(rc) <= Len(t)
  BY <1>3, <1>5, Zenon
<1> QED BY <1>3, <1>5, <1>8, <1>9, SubSeqAll, Zenon DEF t

\* OnRequest is called with the frames that were sent, in order, each unmasked, however
\* TCP cuts their payloads and however many of them one read brings: whatever the frames,
\* their number and the sizes of the buffer.
THEOREM FramesInOrder ==
    ASSUME SplitHandshake = FALSE, SplitHeads = FALSE
    PROVE  Spec => []FramesAsSent
<1>1. StreamInv => FramesAsSent
  <2> SUFFICES ASSUME StreamInv PROVE FramesAsSent
    OBVIOUS
  <2> PICK st : Layout(asked, begins, st) /\ Answered(asked, received)
    BY Zenon DEF StreamInv, Consistent
  <2>1. asked \in Seq(Frame)
    BY LayoutType, Zenon
  <2> QED BY <2>1, AnsweredIsPrefix, Zenon DEF FramesAsSent, Request
<1> QED BY <1>1, StreamInvariant, PTL

\* WebsocketCodec closes a connection only on a handshake or on a frame that asks for it:
\* no payload, and nothing left in the buffer, is ever taken for such a head.
THEOREM ClosesOnRequest ==
    ASSUME SplitHandshake = FALSE, SplitHeads = FALSE
    PROVE  Spec => []ClosedOnRequest
<1>1. StreamInv => ClosedOnRequest
  <2> SUFFICES ASSUME StreamInv, ~c.open, asked # <<>>
               PROVE  LET next == Len(received) + 1
                      IN  /\ next \in DOMAIN asked
                          /\ asked[next].type = kClose \/ asked[next].mask = 0
    BY Zenon DEF ClosedOnRequest
  <2> PICK st : Consistent(c, wire, shaken, asked, begins, st, received)
    BY Zenon DEF StreamInv
  <2>1. Phase(c, wire, shaken, asked, begins, st, received) /\ asked \in Seq(Frame)
    BY LayoutType, Zenon DEF Consistent
  <2>2. ~Fresh(c, wire, shaken, asked, begins, received)
    BY Zenon DEF Fresh
  <2>3. ~Stuck(c, wire) /\ ~Thrown(c, received)
    BY Zenon DEF Stuck, Thrown
  <2>4. ~Streaming(c, asked, begins, st, Len(received), wire)
    BY StreamType, Zenon
  <2>5. ClosedBy(c, asked, Len(received))
    BY <2>1, <2>2, <2>3, <2>4, Zenon DEF Phase, Closed
  <2>6. Len(received) + 1 \in 1..Len(asked)
        /\ MustClose(asked[Len(received) + 1].mask, asked[Len(received) + 1].type)
    BY <2>5, Zenon DEF ClosedBy
  <2>7. DOMAIN asked = 1..Len(asked)
    BY <2>1
  <2> QED BY <2>6, <2>7, Zenon DEF MustClose
<1> QED BY <1>1, StreamInvariant, PTL

\* The bytes s hold the frames behind the first n.
AllBuffered(as, be, n, s) ==
    /\ Len(s) = be[Len(as) + 1] - be[n + 1]
    /\ \A i \in n + 1..Len(as) :
          SubSeq(s, be[i] - be[n + 1] + 1, be[i + 1] - be[n + 1]) = FrameBytes(as[i])

\* A buffer that begins with a frame, and has all of the rest, holds the rest whole.
LEMMA WholeFrames ==
    ASSUME NEW as, NEW be, NEW st, Layout(as, be, st), NEW n \in 0..Len(as), NEW s,
           View(st, be[n + 1], s, <<>>)
    PROVE  AllBuffered(as, be, n, s)
<1> DEFINE la == Len(as)  ls == Len(s)  base == be[n + 1]
<1>1. /\ la \in Nat /\ Len(be) = la + 1 /\ be[la + 1] = Len(st) /\ n \in 0..la
      /\ \A i \in 1..la + 1 : be[i] \in Nat
      /\ \A i \in 1..la : as[i] \in Frame
  BY LayoutType, Zenon
<1>2. /\ \A i, j \in 1..la + 1 : i <= j => be[i] <= be[j]
      /\ \A i \in 1..la : be[i + 1] = be[i] + FrameLen(as[i])
      /\ \A i \in 1..la : \A j \in 1..FrameLen(as[i]) :
            st[be[i] + j].byte = FrameBytes(as[i])[j]
  BY <1>1, Zenon DEF Layout
<1>3. s \in Seq(Byte) /\ ls \in Nat /\ base \in Nat /\ base + ls + Len(<<>>) = Len(st)
  <2> DEFINE w == <<>>
  <2> HIDE DEF w
  <2>1. View(st, base, s, w)
    BY Zenon DEF w
  <2>2. s \in Seq(Byte) /\ ls \in Nat /\ base \in Nat /\ base + ls + Len(w) = Len(st)
    BY <2>1, ViewType
  <2> QED BY <2>2, Zenon DEF w
<1>4. \A i \in 1..ls : s[i] = st[base + i].byte
  BY Zenon DEF View
<1>5. Len(<<>>) = 0
  OBVIOUS
<1>6. base + ls = be[la + 1]
  <2> DEFINE b == be[la + 1]
  <2>1. base + ls + 0 = b
    BY <1>1, <1>3, <1>5, Zenon
  <2> HIDE DEF b, ls, base
  <2>2. base + ls = b
    BY <2>1, <1>3
  <2> QED BY <2>2, Zenon DEF b
<1> HIDE DEF la, ls, base
<1>7. ls = be[la + 1] - base
  <2>1. la + 1 \in 1..la + 1
    BY <1>1
  <2>2. be[la + 1] \in Nat
    BY <2>1, <1>1, Zenon
  <2> DEFINE b == be[la + 1]
  <2>3. b \in Nat /\ base + ls = b
    BY <2>2, <1>6, Zenon
  <2> HIDE DEF b
  <2>4. ls = b - base
    BY <2>3, <1>3
  <2> QED BY <2>4, Zenon DEF b
<1>8. ASSUME NEW i \in n + 1..la
      PROVE  SubSeq(s, be[i] - base + 1, be[i + 1] - base) = FrameBytes(as[i])
  <2> DEFINE f == as[i]  g == FrameLen(f)  d == be[i] - base
  <2>1. /\ i \in 1..la /\ i \in 1..la + 1 /\ i + 1 \in 1..la + 1 /\ la + 1 \in 1..la + 1
        /\ n + 1 \in 1..la + 1 /\ n + 1 <= i /\ i + 1 <= la + 1
    BY <1>1
  <2>2. f \in Frame /\ be[i + 1] = be[i] + g /\ be[i] \in Nat /\ base <= be[i]
        /\ be[i + 1] <= be[la + 1] /\ be[la + 1] = base + ls
    BY <2>1, <1>1, <1>2, <1>6, Zenon DEF base
  <2>3. g \in Nat /\ Len(FrameBytes(f)) = g /\ FrameBytes(f) \in Seq(Byte)
    BY <2>2, FrameLenNat, PayloadShape, Zenon
  <2> DEFINE b == be[i]  e == be[i + 1]  z == be[la + 1]
  <2>4. b \in Nat /\ g \in Nat /\ e = b + g /\ base <= b /\ e <= z /\ z = base + ls
    BY <2>2, <2>3, Zenon
  <2> HIDE DEF b, e, z, g
  <2>5. b - base \in Nat /\ e - base = (b - base) + g /\ (b - base) + g <= ls
    BY <2>4, <1>3
  <2> DEFINE a == b - base
             p == SubSeq(s, a + 1, a + g)
  <2>6. a \in Nat /\ a + g <= ls /\ e - base = a + g
    BY <2>5, Zenon
  <2>7. base + a = b
    BY <2>4, <1>3
  <2> HIDE DEF a
  <2>8. IsPart(s, a, g, p)
    BY <2>6, <2>4, <1>3, SubSeqPart, Zenon DEF ls
  <2> HIDE DEF p
  <2>9. ASSUME NEW j \in 1..g PROVE p[j] = FrameBytes(f)[j]
    <3>1. a + j \in 1..ls /\ base + (a + j) = b + j
      BY <2>4, <2>6, <2>7, <1>3
    <3>2. p[j] = s[a + j] /\ s[a + j] = st[base + (a + j)].byte
      BY <3>1, <2>8, <1>4, Zenon DEF IsPart
    <3>3. st[b + j].byte = FrameBytes(f)[j]
      BY <2>1, <1>2, Zenon DEF b, g
    <3> QED BY <3>1, <3>2, <3>3, Zenon
  <2>10. p \in Seq(Byte) /\ Same(p, FrameBytes(f))
    BY <2>3, <2>8, <2>9, Zenon DEF IsPart, Same
  <2>11. p = FrameBytes(f)
    BY <2>3, <2>10, SameSeq, Zenon
  <2> QED BY <2>6, <2>11, Zenon DEF p, a, b, e
<1> QED BY <1>7, <1>8, Zenon DEF AllBuffered, la, ls, base

\* What Decode did not hand out when everything was read is in the receive buffer, whole
\* and still masked.
THEOREM RestBuffered ==
    ASSUME SplitHandshake = FALSE, SplitHeads = FALSE
    PROVE  Spec => []RestIsBuffered
<1>1. StreamInv => RestIsBuffered
  <2> SUFFICES ASSUME StreamInv, c.open, wire = <<>>, c.state = "ExceptFrameHead"
               PROVE  AllBuffered(asked, begins, Len(received), B!ToString(c.buf))
    BY Zenon DEF RestIsBuffered, AllBuffered
  <2> PICK st : Consistent(c, wire, shaken, asked, begins, st, received)
    BY Zenon DEF StreamInv
  <2>1. /\ Phase(c, wire, shaken, asked, begins, st, received)
        /\ Layout(asked, begins, st) /\ Answered(asked, received)
    BY Zenon DEF Consistent
  <2>2. ~Fresh(c, wire, shaken, asked, begins, received)
    <3>1. NewCodec.state # "ExceptFrameHead"
      BY DEF NewCodec
    <3> QED BY <3>1, Zenon DEF Fresh
  <2>3. ~Stuck(c, wire) /\ ~Thrown(c, received) /\ ~Closed(c, asked, received)
    BY DEF Stuck, Thrown, Closed
  <2>4. Streaming(c, asked, begins, st, Len(received), wire)
    BY <2>1, <2>2, <2>3, Zenon DEF Phase
  <2> DEFINE n == Len(received)
  <2>5. ~AtFramePayload(c, asked, begins, st, n, wire)
    <3> SUFFICES ASSUME AtFramePayload(c, asked, begins, st, n, wire) PROVE FALSE
      OBVIOUS
    <3> PICK k, p, r, l : InPayload(c, asked, begins, st, n, wire, k, p, r, l)
      BY Zenon DEF AtFramePayload
    <3>1. IsCodec(c, k, TRUE, "ExceptPayload", asked[n + 1].type, p, asked[n + 1].key, r, l)
      BY Zenon DEF InPayload
    <3>2. c.state = "ExceptPayload"
      BY <3>1 DEF IsCodec
    <3> QED BY <3>2
  <2> PICK k, t, key, r : /\ IsCodec(c, k, TRUE, "ExceptFrameHead", t, <<>>, key, r, 0)
                          /\ Holds(st, begins[n + 1], k, wire)
    BY <2>4, <2>5, Zenon DEF Streaming, AtFrameHead
  <2>6. c.buf = k
    BY DEF IsCodec
  <2>7. View(st, begins[n + 1], B!ToString(c.buf), <<>>)
    BY <2>6, Zenon DEF Holds
  <2>8. n \in 0..Len(asked)
    <3> DEFINE la == Len(asked)
    <3>1. la \in Nat /\ n \in Nat /\ n <= la
      BY <2>1, LayoutType, LenNat, Zenon DEF Answered
    <3> HIDE DEF la, n
    <3>2. n \in 0..la
      BY <3>1
    <3> QED BY <3>2, Zenon DEF la
  <2> QED BY <2>1, <2>7, <2>8, WholeFrames, Zenon
<1> QED BY <1>1, StreamInvariant, PTL

-----------------------------------------------------------------------------
(* The head of a reply.                                                    *)

\* The sizes whose head holds no byte that is zero.
ShortSize(size) == size \in 1..125
LowByte(size) == size % 256
LongSize(size) == size \in Nat /\ 256 <= size /\ size < 65535 /\ LowByte(size) # 0

\* A head of 2 bytes
LEMMA Concat11 ==
    ASSUME NEW S, NEW x \in S, NEW y \in S PROVE <<x>> \o <<y>> = <<x, y>>
<1> DEFINE t == <<x>> \o <<y>>
<1>1. /\ <<x>> \in Seq(S) /\ Len(<<x>>) = 1 /\ <<x>>[1] = x
      /\ <<y>> \in Seq(S) /\ Len(<<y>>) = 1 /\ <<y>>[1] = y
  OBVIOUS
<1>2. Parts2(S, <<x>>, <<y>>, t)
  BY <1>1, Parts2Of
<1> HIDE DEF t
<1>3. t \in Seq(S) /\ Len(t) = 1 + 1 /\ t[1] = x /\ t[1 + 1] = y
  <2>1. 1 \in 1..1
    OBVIOUS
  <2> QED BY <2>1, <1>1, <1>2 DEF Parts2
<1>4. t \in [1..2 -> S] /\ <<x, y>> \in [1..2 -> S]
  BY <1>3
<1>5. \A i \in 1..2 : t[i] = <<x, y>>[i]
  BY <1>3
<1>6. t = <<x, y>>
  BY <1>4, <1>5
<1> QED BY <1>6 DEF t

\* and one of 4.
LEMMA Concat13 ==
    ASSUME NEW S, NEW x \in S, NEW y \in S, NEW z \in S, NEW u \in S
    PROVE  <<x>> \o <<y, z, u>> = <<x, y, z, u>>
<1> DEFINE t == <<x>> \o <<y, z, u>>
<1>1. /\ <<x>> \in Seq(S) /\ Len(<<x>>) = 1 /\ <<x>>[1] = x
      /\ <<y, z, u>> \in Seq(S) /\ Len(<<y, z, u>>) = 3
      /\ <<y, z, u>>[1] = y /\ <<y, z, u>>[2] = z /\ <<y, z, u>>[3] = u
  OBVIOUS
<1>2. Parts2(S, <<x>>, <<y, z, u>>, t)
  BY <1>1, Parts2Of
<1> HIDE DEF t
<1>3. t \in Seq(S) /\ Len(t) = 4 /\ t[1] = x /\ t[2] = y /\ t[3] = z /\ t[4] = u
  BY <1>1, <1>2 DEF Parts2
<1>4. t \in [1..4 -> S] /\ <<x, y, z, u>> \in [1..4 -> S]
  BY <1>3
<1>5. \A i \in 1..4 : t[i] = <<x, y, z, u>>[i]
  BY <1>3
<1>6. t = <<x, y, z, u>>
  BY <1>4, <1>5
<1> QED BY <1>6 DEF t

\* Without a zero, std::string(const char*) takes every byte.
LEMMA CStringWhole ==
    ASSUME NEW bytes \in Seq(Byte), \A i \in 1..Len(bytes) : bytes[i] # 0
    PROVE  CString(bytes) = bytes
<1> DEFINE n == Len(bytes)
<1>1. DOMAIN bytes = 1..n /\ n \in Nat
  BY DomainIsLen, Zenon
<1>2. {n} \cup {i - 1 : i \in {j \in DOMAIN bytes : bytes[j] = 0}} = {n, n}
  BY <1>1, Zenon
<1>3. Min({n, n}) = n
  <2> HIDE DEF n
  <2>1. Min({n, n}) = IF n <= n THEN n ELSE n
    BY <1>1, MinPair, Zenon
  <2> QED BY <2>1, Zenon
<1>4. CString(bytes) = SubSeq(bytes, 1, n)
  BY <1>2, <1>3, Zenon DEF CString
<1>5. SubSeq(bytes, 1, n) = bytes
  <2>1. IsPart(bytes, 0, n, SubSeq(bytes, 0 + 1, 0 + n))
    <3>1. 0 \in Nat /\ 0 + n <= n
      BY <1>1
    <3> QED BY <3>1, <1>1, SubSeqPart
  <2>2. 0 + 1 = 1 /\ 0 + n = n /\ \A i \in 1..n : 0 + i = i
    BY <1>1
  <2> DEFINE p == SubSeq(bytes, 1, n)
  <2>3. IsPart(bytes, 0, n, p)
    BY <2>1, <2>2
  <2> HIDE DEF p
  <2>4. p \in Seq(Byte) /\ Same(p, bytes)
    BY <2>2, <2>3, Zenon DEF IsPart, Same
  <2> QED BY <2>4, SameSeq, Zenon DEF p
<1> QED BY <1>4, <1>5, Zenon

\* The head of a short reply announces its size,
LEMMA ShortHead ==
    ASSUME NEW size, ShortSize(size)
    PROVE  Announced(EncodeFrameHead(size, kText)) = <<size>>
<1> DEFINE head == <<128 + kText, size>>
<1>0. size \in 1..125
  BY DEF ShortSize
<1>1. head \in Seq(Byte) /\ Len(head) = 2 /\ head[1] = 129 /\ head[2] = size
  BY <1>0 DEF kText, Byte
<1>2. <<128 + kText>> \o <<size>> = head
  <2>1. 128 + kText \in Byte /\ size \in Byte
    BY <1>0 DEF kText, Byte
  <2> QED BY <2>1, Concat11, Zenon
<1>3. EncodeFrameHead(size, kText) = CString(<<128 + kText>> \o <<size>>)
  BY <1>0 DEF EncodeFrameHead
<1>4. \A i \in 1..Len(head) : head[i] # 0
  BY <1>0, <1>1
<1> HIDE DEF head
<1>5. CString(head) = head
  BY <1>1, <1>4, CStringWhole, Zenon
<1>6. head[2] % 128 = size /\ WidthOf(size) = 0
  BY <1>0, <1>1 DEF WidthOf
<1>7. Announced(head) = <<size>>
  BY <1>1, <1>6 DEF Announced
<1> QED BY <1>2, <1>3, <1>5, <1>7, Zenon

\* A number is its two digits.
LEMMA DivMod ==
    ASSUME NEW x \in Nat
    PROVE  x \div 256 \in Nat /\ x % 256 \in 0..255 /\ x = 256 * (x \div 256) + (x % 256)
OBVIOUS

\* and so does that of a longer one.
LEMMA LongHead ==
    ASSUME NEW size, LongSize(size)
    PROVE  Announced(EncodeFrameHead(size, kText)) = <<size>>
<1> DEFINE low == size % 256
           high == (size \div 256) % 256
           head == <<128 + kText, 126, high, low>>
<1>1. low \in Byte /\ high \in Byte /\ low # 0 /\ high # 0 /\ 256 * high + low = size
  <2> DEFINE q == size \div 256
  <2>1. size \in Nat /\ 256 <= size /\ size < 65535 /\ low # 0
    <3> HIDE DEF q, low, high, head
    <3>1. size \in Nat /\ 256 <= size /\ size < 65535 /\ LowByte(size) # 0
      BY DEF LongSize
    <3>2. low = LowByte(size)
      BY Zenon DEF low, LowByte
    <3> QED BY <3>1, <3>2
  <2>2. q \in Nat /\ low \in 0..255 /\ size = 256 * q + low
    <3> HIDE DEF high, head
    <3> QED BY <2>1, DivMod
  <2> HIDE DEF q, low
  <2>3. q \in 1..255
    BY <2>1, <2>2
  <2>4. q % 256 = q
    BY <2>3
  <2>5. high = q
    BY <2>4 DEF q
  <2> HIDE DEF high
  <2> QED BY <2>1, <2>2, <2>3, <2>5 DEF Byte
<1>2. EncodeFrameHead(size, kText) = CString(<<128 + kText>> \o <<126, high, low>>)
  <2>1. ~(size < 126) /\ size < 65535
    <3> HIDE DEF low, high, head
    <3> QED BY DEF LongSize
  <2> QED BY <2>1 DEF EncodeFrameHead
<1> HIDE DEF low, high
<1>3. <<128 + kText>> \o <<126, high, low>> = head
  <2>1. 128 + kText \in Byte /\ 126 \in Byte
    BY DEF kText, Byte
  <2> QED BY <2>1, <1>1, Concat13
<1>4. /\ head \in Seq(Byte) /\ Len(head) = 4 /\ head[1] = 129 /\ head[2] = 126
      /\ head[3] = high /\ head[4] = low
  BY <1>1 DEF kText, Byte
<1>5. \A i \in 1..Len(head) : head[i] # 0
  BY <1>1, <1>4
<1> HIDE DEF head
<1>6. CString(head) = head
  BY <1>4, <1>5, CStringWhole, Zenon
<1>7. head[2] % 128 = 126 /\ WidthOf(126) = 2
  BY <1>4 DEF WidthOf
<1> DEFINE tail == SubSeq(head, 3, Len(head))
<1>8. Len(tail) = 2 /\ tail[1] = high /\ tail[2] = low
  BY <1>4
<1>9. Announced(head) = <<BigEndian(tail)>>
  BY <1>4, <1>7 DEF Announced
<1> HIDE DEF tail
<1>10. BigEndian(tail) = size
  BY <1>1, <1>8 DEF BigEndian, be16toh, Join
<1> QED BY <1>2, <1>3, <1>6, <1>9, <1>10, Zenon

\* The smallest element of a set of numbers.
LEMMA Smallest ==
    ASSUME NEW T, NEW x \in T, T \subseteq Nat, \A y \in T : x <= y
    PROVE  Min(T) = x
<1> DEFINE m == Min(T)
<1>1. \E z \in T : \A y \in T : z <= y
  OBVIOUS
<1>2. m \in T /\ \A y \in T : m <= y
  BY <1>1, Zenon DEF Min
<1> HIDE DEF m
<1>3. m \in Nat /\ x \in Nat /\ m <= x /\ x <= m
  BY <1>2
<1>4. m = x
  BY <1>3
<1> QED BY <1>4 DEF m

\* std::string(const char*) ends before the first zero.
LEMMA CStringCut ==
    ASSUME NEW bytes \in Seq(Byte), NEW k \in 1..Len(bytes), bytes[k] = 0,
           \A j \in 1..k - 1 : bytes[j] # 0
    PROVE  IsPart(bytes, 0, k - 1, CString(bytes))
<1> DEFINE n == Len(bytes)
           Z == {j \in DOMAIN bytes : bytes[j] = 0}
           T == {n} \cup {i - 1 : i \in Z}
<1>1. DOMAIN bytes = 1..n /\ n \in Nat
  BY DomainIsLen, Zenon
<1>2. k \in Nat /\ 1 <= k /\ k <= n
  <2> HIDE DEF Z, T
  <2> QED BY <1>1
<1>3. \A j \in Z : j \in Nat /\ k <= j
  <2> SUFFICES ASSUME NEW j \in Z PROVE j \in Nat /\ k <= j
    OBVIOUS
  <2>1. j \in 1..n /\ bytes[j] = 0
    BY <1>1
  <2>2. j \notin 1..k - 1
    BY <2>1
  <2> HIDE DEF n, Z, T
  <2> QED BY <1>1, <1>2, <2>1, <2>2
<1>4. k \in Z
  BY <1>1
<1> HIDE DEF Z, n
<1>5. k - 1 \in T /\ T \subseteq Nat /\ \A y \in T : k - 1 <= y
  <2>1. k - 1 \in T
    BY <1>4
  <2>2. ASSUME NEW y \in T PROVE y \in Nat /\ k - 1 <= y
    BY <1>1, <1>2, <1>3, <2>2
  <2> QED BY <2>1, <2>2, Zenon
<1> HIDE DEF T
<1>6. Min(T) = k - 1
  BY <1>5, Smallest
<1>7. CString(bytes) = SubSeq(bytes, 1, k - 1)
  BY <1>6, Zenon DEF CString, T, Z, n
<1>8. IsPart(bytes, 0, k - 1, SubSeq(bytes, 0 + 1, 0 + (k - 1)))
  <2>1. 0 \in Nat /\ k - 1 \in Nat /\ 0 + (k - 1) <= Len(bytes)
    BY <1>1, <1>2 DEF n
  <2> QED BY <2>1, SubSeqPart
<1>9. 0 + 1 = 1 /\ 0 + (k - 1) = k - 1
  BY <1>2
<1> QED BY <1>7, <1>8, <1>9

\* A head with a zero in it is cut there, and announces nothing.
LEMMA CutHead ==
    ASSUME NEW head \in Seq(Byte), NEW k \in 2..Len(head), head[k] = 0,
           \A j \in 1..k - 1 : head[j] # 0,
           NEW width \in {0, 2, 8}, Len(head) = 2 + width, WidthOf(head[2] % 128) = width
    PROVE  Announced(CString(head)) = <<>>
<1> DEFINE t == CString(head)
<1>1. k \in 1..Len(head) /\ k \in Nat /\ 2 <= k /\ k <= 2 + width /\ k - 1 \in Nat
  OBVIOUS
<1>2. IsPart(head, 0, k - 1, t)
  BY <1>1, CStringCut
<1> HIDE DEF t
<1>3. Len(t) = k - 1 /\ \A j \in 1..k - 1 : t[j] = head[0 + j]
  BY <1>2, Zenon DEF IsPart
<1>4. CASE k = 2
  <2>1. Len(t) < 2
    BY <1>3, <1>4
  <2> QED BY <2>1, Zenon DEF Announced, t
<1>5. CASE k # 2
  <2>1. 2 \in 1..k - 1 /\ 0 + 2 = 2 /\ ~(Len(t) < 2) /\ Len(t) # 2 + width
    BY <1>1, <1>3, <1>5
  <2>2. t[2] = head[2]
    BY <1>3, <2>1
  <2>3. Len(t) # 2 + WidthOf(t[2] % 128)
    BY <2>1, <2>2, Zenon
  <2> QED BY <2>1, <2>3, Zenon DEF Announced, t
<1> QED BY <1>4, <1>5

\* The sizes below 2^24, for which EncodeFrameHead has the bytes.
TopByte(size) == size \div 65536
ReplySize == {size \in Nat : TopByte(size) \in Byte}

\* No head announces any other size.
LEMMA NoHead ==
    ASSUME NEW size \in ReplySize, ~ShortSize(size), ~LongSize(size)
    PROVE  Announced(EncodeFrameHead(size, kText)) = <<>>
<1> DEFINE low == LowByte(size)
           high == LowByte(size \div 256)
           top == TopByte(size)
<1>1. size \in Nat /\ top \in Byte
  BY Zenon DEF ReplySize
<1>2. 129 \in Byte /\ 126 \in Byte /\ 127 \in Byte /\ 0 \in Byte /\ 128 + kText = 129
  BY DEF Byte, kText
<1>3. low \in Byte /\ high \in Byte
  <2>1. \A x \in Nat : LowByte(x) \in Byte
    BY DivMod DEF Byte, LowByte
  <2>2. size \div 256 \in Nat
    BY <1>1, DivMod
  <2> QED BY <1>1, <2>1, <2>2, Zenon
<1>4. CASE size < 126
  <2> DEFINE head == <<129, 0>>
  <2>1. size = 0
    BY <1>1, <1>4 DEF ShortSize
  <2>2. <<128 + kText>> \o <<size>> = head
    BY <1>2, <2>1, Concat11, Zenon
  <2>3. EncodeFrameHead(size, kText) = CString(head)
    <3>1. EncodeFrameHead(size, kText) = CString(<<128 + kText>> \o <<size>>)
      BY <1>4 DEF EncodeFrameHead
    <3> QED BY <2>2, <3>1, Zenon
  <2>4. head \in Seq(Byte) /\ Len(head) = 2 /\ head[1] = 129 /\ head[2] = 0
    BY DEF Byte
  <2> HIDE DEF head
  <2>5. /\ 2 \in 2..Len(head) /\ \A j \in 1..2 - 1 : head[j] # 0
        /\ 0 \in {0, 2, 8} /\ Len(head) = 2 + 0
    BY <2>4
  <2>6. WidthOf(head[2] % 128) = 0
    BY <2>4 DEF WidthOf
  <2>7. Announced(CString(head)) = <<>>
    BY <2>4, <2>5, <2>6, CutHead
  <2> QED BY <2>3, <2>7
<1>5. CASE ~(size < 126) /\ size < 65535
  <2> DEFINE head == <<129, 126, high, low>>
  <2>1. low = 0 \/ high = 0
    <3>1. CASE size < 256
      <4>1. size \div 256 = 0
        BY <1>1, <3>1
      <4> QED BY <4>1 DEF LowByte
    <3>2. CASE ~(size < 256)
      BY <1>1, <1>5, <3>2 DEF LongSize
    <3> QED BY <3>1, <3>2
  <2>2. EncodeFrameHead(size, kText) = CString(<<128 + kText>> \o <<126, high, low>>)
    BY <1>5 DEF EncodeFrameHead, LowByte
  <2> HIDE DEF low, high, top
  <2>3. <<128 + kText>> \o <<126, high, low>> = head
    BY <1>2, <1>3, Concat13
  <2>4. /\ head \in Seq(Byte) /\ Len(head) = 4 /\ head[1] = 129 /\ head[2] = 126
        /\ head[3] = high /\ head[4] = low
    BY <1>1, <1>3 DEF Byte
  <2> HIDE DEF head
  <2>5. 2 \in {0, 2, 8} /\ Len(head) = 2 + 2
    BY <2>4
  <2>6. WidthOf(head[2] % 128) = 2
    BY <2>4 DEF WidthOf
  <2>7. \E k \in 2..Len(head) : head[k] = 0 /\ \A j \in 1..k - 1 : head[j] # 0
    <3>1. CASE high = 0
      <4>1. 3 \in 2..Len(head) /\ head[3] = 0 /\ \A j \in 1..3 - 1 : head[j] # 0
        BY <2>4, <3>1
      <4> QED BY <4>1
    <3>2. CASE high # 0
      <4>1. 4 \in 2..Len(head) /\ head[4] = 0 /\ \A j \in 1..4 - 1 : head[j] # 0
        BY <2>1, <2>4, <3>2
      <4> QED BY <4>1
    <3> QED BY <3>1, <3>2
  <2>8. Announced(CString(head)) = <<>>
    <3>1. PICK k \in 2..Len(head) : head[k] = 0 /\ \A j \in 1..k - 1 : head[j] # 0
      BY <2>7
    <3> QED BY <2>4, <2>5, <2>6, <3>1, CutHead, Zenon
  <2> QED BY <2>2, <2>3, <2>8
<1>6. CASE ~(size < 126) /\ ~(size < 65535)
  <2> DEFINE rest == <<127, low, high, top, 0, 0, 0, 0, 0>>
             first == <<128 + kText>>
             head == first \o rest
  <2>1. EncodeFrameHead(size, kText) = CString(head)
    BY <1>6 DEF EncodeFrameHead, LowByte, TopByte
  <2> HIDE DEF low, high, top
  <2>2. /\ rest \in Seq(Byte) /\ Len(rest) = 9
        /\ rest[1] = 127 /\ rest[2] = low /\ rest[3] = high /\ rest[4] = top /\ rest[5] = 0
    BY <1>1, <1>3 DEF Byte
  <2>3. first \in Seq(Byte) /\ Len(first) = 1 /\ first[1] = 129
    BY <1>2
  <2> HIDE DEF rest, first
  <2>4. Parts2(Byte, first, rest, head)
    BY <2>2, <2>3, Parts2Of
  <2> HIDE DEF head
  <2>5. /\ head \in Seq(Byte) /\ Len(head) = 10
        /\ head[1] = 129 /\ head[2] = 127 /\ head[3] = low /\ head[4] = high
        /\ head[5] = top /\ head[6] = 0
    BY <2>2, <2>3, <2>4 DEF Parts2
  <2>6. 8 \in {0, 2, 8} /\ Len(head) = 2 + 8
    BY <2>5
  <2>7. WidthOf(head[2] % 128) = 8
    BY <2>5 DEF WidthOf
  <2>8. \E k \in 2..Len(head) : head[k] = 0 /\ \A j \in 1..k - 1 : head[j] # 0
    <3>1. CASE low = 0
      <4>1. 3 \in 2..Len(head) /\ head[3] = 0 /\ \A j \in 1..3 - 1 : head[j] # 0
        BY <2>5, <3>1
      <4> QED BY <4>1
    <3>2. CASE low # 0 /\ high = 0
      <4>1. 4 \in 2..Len(head) /\ head[4] = 0 /\ \A j \in 1..4 - 1 : head[j] # 0
        BY <2>5, <3>2
      <4> QED BY <4>1
    <3>3. CASE low # 0 /\ high # 0 /\ top = 0
      <4>1. 5 \in 2..Len(head) /\ head[5] = 0 /\ \A j \in 1..5 - 1 : head[j] # 0
        BY <2>5, <3>3
      <4> QED BY <4>1
    <3>4. CASE low # 0 /\ high # 0 /\ top # 0
      <4>1. 6 \in 2..Len(head) /\ head[6] = 0 /\ \A j \in 1..6 - 1 : head[j] # 0
        BY <2>5, <3>4
      <4> QED BY <4>1
    <3> QED BY <3>1, <3>2, <3>3, <3>4
  <2>9. Announced(CString(head)) = <<>>
    <3>1. PICK k \in 2..Len(head) : head[k] = 0 /\ \A j \in 1..k - 1 : head[j] # 0
      BY <2>8
    <3> QED BY <2>5, <2>6, <2>7, <3>1, CutHead, Zenon
  <2> QED BY <2>1, <2>9
<1> QED BY <1>4, <1>5, <1>6

\* A client finds the length of a reply in its head when the reply is short or long, and
\* finds none otherwise.
FramedExactly ==
    reply # NoReply =>
        Announced(reply.head) =
            IF ShortSize(reply.size) \/ LongSize(reply.size) THEN <<reply.size>> ELSE <<>>

\* Which replies EncodeFrameHead frames, whatever the application replies with: those of
\* 1 to 125 bytes, and those of 256 to 65534 bytes whose number is no multiple of 256.  A
\* reply of any other size goes out after a head that is cut at a zero and announces no
\* length: RepliesAreFramed fails for these sizes and for no other.
THEOREM RepliesFramed ==
    ASSUME RespSizes \subseteq ReplySize
    PROVE  Spec => []FramedExactly
<1>1. Init => FramedExactly
  BY Zenon DEF Init, FramedExactly
<1>2. FramedExactly /\ [Next]_vars => FramedExactly'
  <2> SUFFICES ASSUME FramedExactly, [Next]_vars PROVE FramedExactly'
    OBVIOUS
  <2>1. CASE reply' = reply
    BY <2>1, Zenon DEF FramedExactly
  <2>2. CASE reply' = NoReply
    BY <2>2, Zenon DEF FramedExactly
  <2>3. ASSUME NEW size \in RespSizes,
               reply' = [head |-> EncodeFrameHead(size, kText), size |-> size]
        PROVE  FramedExactly'
    <3>1. Announced(EncodeFrameHead(size, kText)) =
              IF ShortSize(size) \/ LongSize(size) THEN <<size>> ELSE <<>>
      BY ShortHead, LongHead, NoHead, Zenon
    <3>2. reply'.head = EncodeFrameHead(size, kText) /\ reply'.size = size
      BY <2>3, Zenon
    <3> QED BY <3>1, <3>2, Zenon DEF FramedExactly
  <2>4. \/ reply' = reply \/ reply' = NoReply
        \/ \E size \in RespSizes :
              reply' = [head |-> EncodeFrameHead(size, kText), size |-> size]
    BY Zenon DEF Next, ClientHandshakes, ClientSendsFrame, OnTcpReceivedData, OnTcpConnected, vars
  <2> QED BY <2>1, <2>2, <2>3, <2>4
<1> QED BY <1>1, <1>2, PTL DEF Spec

-----------------------------------------------------------------------------
(* The handshake.                                                          *)

\* The limit HandShake gives its decoder.
HandshakeMax == 2 * 1024 * 1024

\* The requests of which a handshake may be one: those HttpReqDecoder knows.
HandshakeRequest ==
    {r \in [method : Methods \cap Seq(Byte), request_uri : Seq(Byte),
            version : Versions \cap Seq(Byte), headers : Seq(Seq(Byte) \X Seq(Byte)),
            body : Seq(Byte)] :
        /\ SP \notin ToSet(r.method) /\ SP \notin ToSet(r.request_uri)
        /\ CR \notin ToSet(r.version)
        /\ \A h \in ToSet(r.headers) :
              COLON \notin ToSet(h[1]) /\ CR \notin ToSet(h[1]) /\ CR \notin ToSet(h[2])
        /\ Len(r.body) <= HandshakeMax}

\* HttpServerProofs, of the decoder of a handshake: one request, read at once, and
\* no application.
NoCalls(r) == {}
Never(i, r) == {}
H == INSTANCE HttpServerProofs
     WITH Requests <- HandshakeRequest, MaxRequests <- 1, BodyMaxBytes <- HandshakeMax,
          OnRequest <- NoCalls, Cuts <- Never, d <- c, answered <- received

\* Every handshake is the bytes of a request.
HandshakesAreRequests == \A h \in Handshakes : \E r \in HandshakeRequest : h = H!Encode(r)

\* The decoder of HttpServerProofs is the one of HandShake.
LEMMA SameDecoder ==
    ASSUME NEW bytes, NEW beyond
    PROVE  H!DecodeLoop(H!NewDecoder(H!B!ReadBytesFromFd(H!NewBuffer, bytes), HandshakeMax), beyond)
             = DecodeLoop(NewDecoder(B!ReadBytesFromFd(NewBuffer, bytes), HandshakeMax), beyond)
<1>1. H!B!ReadBytesFromFd(H!NewBuffer, bytes) = B!ReadBytesFromFd(NewBuffer, bytes)
  BY Zenon
     DEF H!B!ReadBytesFromFd, B!ReadBytesFromFd, H!B!AppendData, B!AppendData,
         H!B!EnsureWritableSpace, B!EnsureWritableSpace, H!B!Store, B!Store,
         H!B!WritableBytes, B!WritableBytes, H!B!ReadableBytes, B!ReadableBytes,
         H!B!MovedToFront, B!MovedToFront, H!B!Reallocated, B!Reallocated,
         H!B!Zeros, B!Zeros, H!B!NewSize, B!NewSize, H!B!ToString, B!ToString,
         H!NewBuffer, NewBuffer
<1>2. ASSUME NEW k PROVE H!NewDecoder(k, HandshakeMax) = NewDecoder(k, HandshakeMax)
  BY Zenon DEF H!NewDecoder, NewDecoder, H!EmptyReq, EmptyReq
<1>3. ASSUME NEW dec PROVE H!AtRequestLine(dec) = AtRequestLine(dec)
  BY Zenon
     DEF H!AtRequestLine, AtRequestLine, H!ParseRequestLine, ParseRequestLine, H!Find, Find,
         H!Word, Word, H!Min, Min, H!B!DropBytesUntil, B!DropBytesUntil, H!B!DropAllBytes,
         B!DropAllBytes, H!B!ReadableBytes, B!ReadableBytes, H!CRLF, CRLF, H!CR, CR, H!LF, LF,
         H!SP, SP
<1>4. ASSUME NEW dec PROVE H!AtHeaders(dec, beyond) = AtHeaders(dec, beyond)
  <2>1. H!HeaderLines(dec, beyond) = HeaderLines(dec, beyond)
    BY Zenon
       DEF H!HeaderLines, HeaderLines, H!HeaderLine, HeaderLine, H!Find, Find, H!Word, Word,
           H!Min, Min, H!EndOfHeaders, EndOfHeaders, H!Memory, Memory, H!AddHeader, AddHeader,
           H!FoldCase, FoldCase, H!CString, CString,
           H!B!DropBytesUntil, B!DropBytesUntil, H!B!ReadableBytes, B!ReadableBytes,
           H!CRLF, CRLF, H!CR, CR, H!LF, LF, H!SP, SP, H!COLON, COLON
  <2> QED
    BY <2>1, Zenon
       DEF H!AtHeaders, AtHeaders, H!ParseHeaders, ParseHeaders, H!EndOfHeaders, EndOfHeaders,
           H!Memory, Memory, H!B!DropBytesUntil, B!DropBytesUntil, H!B!DropBytes, B!DropBytes,
           H!B!DropAllBytes, B!DropAllBytes, H!B!ReadableBytes, B!ReadableBytes,
           H!CRLF, CRLF, H!CR, CR, H!LF, LF
<1>5. ASSUME NEW dec PROVE H!AtBody(dec) = AtBody(dec)
  BY Zenon
     DEF H!AtBody, AtBody, H!ParseBody, ParseBody, H!B!ReadableBytes, B!ReadableBytes,
         H!B!ToString, B!ToString, H!B!DropAllBytes, B!DropAllBytes
<1> QED BY <1>1, <1>2, <1>3, <1>4, <1>5, Zenon DEF H!DecodeLoop, DecodeLoop

\* HttpReqDecoder parses a handshake that is a request to its end.
LEMMA HandshakeRead ==
    ASSUME MethodLimit \in Nat, NEW r \in HandshakeRequest, NEW beyond \in Beyond
    PROVE  /\ H!Encode(r) \in Seq(Byte) /\ H!Encode(r) # <<>>
           /\ DecodeLoop(NewDecoder(B!ReadBytesFromFd(NewBuffer, H!Encode(r)), HandshakeMax), beyond)
                .state = "ParseFinished"
<1>1. H!SizesAssumption
  <2>1. HandshakeMax \in Nat
    BY DEF HandshakeMax
  <2> QED BY <2>1 DEF H!SizesAssumption
<1>2. H!BufferAssumption
  BY BufferAssumption, Zenon DEF H!BufferAssumption
<1>3. H!RequestsAssumption
  BY Zenon
     DEF H!RequestsAssumption, HandshakeRequest, H!Byte, Byte, H!SP, SP, H!CR, CR,
         H!COLON, COLON, H!ToSet, ToSet
<1>5. H!CallsAssumption
  BY Zenon DEF H!CallsAssumption, NoCalls
<1>6. beyond \in H!Beyond
  BY Zenon DEF Beyond, H!Beyond, CRLF, H!CRLF, CR, LF, H!CR, H!LF
<1> DEFINE e == H!Encode(r)
           x == H!DecodeLoop(H!NewDecoder(H!B!ReadBytesFromFd(H!NewBuffer, e), HandshakeMax), beyond)
<1>7. /\ e \in Seq(H!Byte) /\ e # <<>>
      /\ \E w \in Seq(H!Byte) : x = H!Dec(H!Buf(w, 0, 0), "ParseFinished", H!Expected(r))
  BY <1>1, <1>2, <1>3, <1>5, <1>6, H!WholeRequestDecoded, Zenon
<1> HIDE DEF e
<1>8. x.state = "ParseFinished"
  <2> HIDE DEF x
  <2> PICK w \in Seq(H!Byte) : x = H!Dec(H!Buf(w, 0, 0), "ParseFinished", H!Expected(r))
    BY <1>7, Zenon
  <2> QED BY DEF H!Dec
<1>9. x = DecodeLoop(NewDecoder(B!ReadBytesFromFd(NewBuffer, e), HandshakeMax), beyond)
  BY SameDecoder, Zenon
<1>10. H!Byte = Byte
  BY Zenon DEF H!Byte, Byte
<1> HIDE DEF x
<1> QED BY <1>7, <1>8, <1>9, <1>10, Zenon DEF e

\* A connection that waits for a handshake has read nothing of it, and what is on the wire
\* is all of it.
Awaits == (c.open /\ c.state = "ExceptHandshake") =>
    /\ c = NewCodec
    /\ shaken => \E h \in Handshakes : wire = Marked(h, FALSE)

\* Reading all of what is marked.
LEMMA ReadAll ==
    ASSUME NEW h \in Seq(Byte), NEW n \in DOMAIN Marked(h, FALSE), Marked(h, FALSE)[n].cut
    PROVE  [i \in 1..n |-> Marked(h, FALSE)[i].byte] = h
<1> DEFINE w == Marked(h, FALSE)  l == Len(h)
<1>1. /\ w \in Seq(Item) /\ Len(w) = l
      /\ \A i \in 1..l : w[i] = [byte |-> h[i], cut |-> FALSE \/ i = l]
  BY MarkedShape, Zenon
<1>2. w[n].cut /\ n \in DOMAIN w
  OBVIOUS
<1> HIDE DEF w
<1>3. DOMAIN w = 1..l /\ DOMAIN h = 1..l
  BY <1>1
<1> HIDE DEF l
<1>4. ASSUME NEW i \in 1..l PROVE w[i].byte = h[i] /\ (w[i].cut => i = l)
  <2> DEFINE x == h[i]  y == FALSE \/ i = l
  <2>1. w[i] = [byte |-> x, cut |-> y]
    BY <1>1, <1>4, Zenon
  <2>2. y => i = l
    OBVIOUS
  <2> HIDE DEF x, y
  <2>3. w[i].byte = x /\ w[i].cut = y
    BY <2>1
  <2> QED BY <2>2, <2>3, Zenon DEF x
<1>5. n = l
  BY <1>2, <1>3, <1>4, Zenon
<1>6. h = [i \in 1..l |-> h[i]]
  BY <1>3
<1>7. [i \in 1..l |-> w[i].byte] = h
  BY <1>4, <1>6, Zenon
<1> QED BY <1>5, <1>7, Zenon DEF w

\* Decode then makes a websocket of the connection or closes it.
LEMMA HandshakeDone ==
    ASSUME MethodLimit \in Nat, NEW r \in HandshakeRequest, NEW beyond \in Beyond,
           NEW v, v = Decode(WithBuffer(NewCodec, B!ReadBytesFromFd(NewBuffer, H!Encode(r))), beyond)
    PROVE  \/ v.open = FALSE /\ v.state = "ExceptHandshake"
           \/ v.state = "ExceptFrameHead"
<1> DEFINE k == B!ReadBytesFromFd(NewBuffer, H!Encode(r))
           http == DecodeLoop(NewDecoder(k, 2 * 1024 * 1024), beyond)
           u == WithBuffer(NewCodec, k)
<1>1. http.state = "ParseFinished"
  <2>1. DecodeLoop(NewDecoder(k, HandshakeMax), beyond).state = "ParseFinished"
    BY HandshakeRead, Zenon
  <2>2. HandshakeMax = 2 * 1024 * 1024
    BY SMT DEF HandshakeMax
  <2> HIDE DEF k
  <2> QED BY <2>1, <2>2, SMT
<1> HIDE DEF k
<1>2. IsCodec(u, k, TRUE, "ExceptHandshake", 0, <<>>, <<0, 0, 0, 0>>, 0, 0)
  BY NewCodecIs, CodecRead
<1>3. /\ u.state = "ExceptHandshake" /\ u.buf = k
      /\ DOMAIN u = {"buf", "open", "state", "req", "mask_key", "payload_remains",
                     "last_read_idx", "close_frame"}
  BY <1>2 DEF IsCodec
<1>4. v = Decode(u, beyond)
  BY DEF k
<1> HIDE DEF u
<1>5. v = HandShake(u, beyond)
  BY <1>3, <1>4, Zenon DEF Decode
<1>6. v = Shaken(u, http)
  BY <1>3, <1>5, SMT DEF HandShake
<1> HIDE DEF http
<1>7. CASE ValidHandshake(http.req)
  <2>1. v = [u EXCEPT !.buf = http.buf, !.state = "ExceptFrameHead"]
    BY <1>1, <1>6, <1>7 DEF Shaken
  <2> QED BY <2>1, <1>3
<1>8. CASE ~ValidHandshake(http.req)
  <2>1. v = [u EXCEPT !.buf = http.buf, !.open = FALSE]
    BY <1>1, <1>6, <1>8 DEF Shaken
  <2> QED BY <2>1, <1>3
<1> QED BY <1>7, <1>8

\* A websocket stays one.
LEMMA StaysWebsocket ==
    ASSUME NEW as, NEW be, NEW st, Layout(as, be, st), NEW rc, Answered(as, rc), NEW w, NEW v,
           Streaming(v, as, be, st, Len(rc), w), NEW m, NEW k2, NEW w2,
           ReadStep(v.buf, w, m, k2, w2), NEW beyond \in Seq(Byte),
           NEW v2, NEW rc2, Handled(Decode(WithBuffer(v, k2), beyond), v2, rc, rc2)
    PROVE  v2.state # "ExceptHandshake"
<1> DEFINE n == Len(rc)
           u == Decode(WithBuffer(v, k2), beyond)
<1>1. as \in Seq(Frame)
  BY LayoutType, Zenon
<1>2. n \in 0..Len(as)
  <2> DEFINE la == Len(as)
  <2>1. la \in Nat /\ n \in Nat /\ n <= la
    BY <1>1, LenNat, Zenon DEF Answered
  <2> HIDE DEF la, n
  <2>2. n \in 0..la
    BY <2>1
  <2> QED BY <2>2, Zenon DEF la
<1>3. Decoded(u, as, be, st, n, w2)
  BY <1>2, DecodeStep, Zenon
<1>4. Handled(u, v2, rc, rc2)
  OBVIOUS
<1> HIDE DEF u, n
<1>5. CASE AtFramePayload(u, as, be, st, n, w2)
  <2>1. Streaming(u, as, be, st, n, w2)
    BY <1>5, Zenon DEF Streaming
  <2>2. u.state \in {"ExceptFrameHead", "ExceptPayload"}
    BY <2>1, StreamType, Zenon
  <2> QED BY <2>2, <1>4 DEF Handled
<1>6. CASE ClosedBy(u, as, n)
  BY <1>4, <1>6 DEF ClosedBy, Handled
<1>7. CASE Finished(u, as, be, st, n, w2)
  <2>1. AtFrameHead(Reset(u), be, st, n + 1, w2) /\ u.state = "ParseFinished"
    BY <1>2, <1>7, FinishStep, Zenon
  <2>2. Streaming(Reset(u), as, be, st, n + 1, w2)
    BY <2>1, Zenon DEF Streaming
  <2>3. Reset(u).state \in {"ExceptFrameHead", "ExceptPayload"}
    BY <2>2, StreamType, Zenon
  <2>4. v2 = Reset(u)
    BY <2>1, <1>4, Zenon DEF Handled
  <2> QED BY <2>3, <2>4
<1> QED BY <1>3, <1>5, <1>6, <1>7, Zenon DEF Decoded

\* OnTcpReceivedData.
LEMMA ReceivedAwaits ==
    ASSUME MethodLimit \in Nat, HandshakesAreRequests, StreamInv, Awaits, OnTcpReceivedData
    PROVE  Awaits'
<1> PICK st : Consistent(c, wire, shaken, asked, begins, st, received)
  BY Zenon DEF StreamInv
<1>1. /\ Layout(asked, begins, st) /\ Answered(asked, received)
      /\ Phase(c, wire, shaken, asked, begins, st, received)
  BY Zenon DEF Consistent
<1> PICK n \in {i \in DOMAIN wire : wire[i].cut}, beyond \in Beyond :
        /\ LET bytes == [i \in 1..n |-> wire[i].byte]
               read  == [c EXCEPT !.buf = B!ReadBytesFromFd(@, bytes)]
           IN  \E w \in {Decode(read, beyond)} :
                \/ /\ w.state = "ParseFinished"
                   /\ c' = [w EXCEPT !.state = "ExceptFrameHead", !.req.payload = <<>>]
                   /\ received' = Append(received, w.req)
                   /\ \E size \in RespSizes :
                        reply' = [head |-> EncodeFrameHead(size, kText), size |-> size]
                \/ /\ w.state # "ParseFinished"
                   /\ c' = w
                   /\ UNCHANGED <<received, reply>>
        /\ wire' = SubSeq(wire, n + 1, Len(wire))
  BY Zenon DEF OnTcpReceivedData
<1> DEFINE k2 == B!ReadBytesFromFd(c.buf, [i \in 1..n |-> wire[i].byte])
<1>2. Handled(Decode(WithBuffer(c, k2), beyond), c', received, received')
  BY Zenon DEF Handled, WithBuffer, Reset
<1>3. c.open /\ c.state # "Thrown"
  BY Zenon DEF OnTcpReceivedData
<1>4. n \in DOMAIN wire /\ wire[n].cut
  OBVIOUS
<1>5. ASSUME B!InRange(c.buf), wire \in Seq(Item)
      PROVE  ReadStep(c.buf, wire, n, k2, wire')
  <2>1. n \in 1..Len(wire)
    BY <1>4, <1>5
  <2> QED BY <2>1, <1>4, <1>5, Reading, Zenon
<1>6. CASE Fresh(c, wire, shaken, asked, begins, received)
  <2>1. c = NewCodec /\ (shaken \/ wire = <<>>)
    BY <1>6, Zenon DEF Fresh
  <2>2. c.state = "ExceptHandshake" /\ c.buf = NewBuffer
    BY <2>1 DEF NewCodec
  <2>3. wire # <<>>
    BY <1>4
  <2> PICK h \in Handshakes : wire = Marked(h, FALSE)
    BY <2>1, <2>2, <2>3, <1>3, Zenon DEF Awaits
  <2> PICK r \in HandshakeRequest : h = H!Encode(r)
    BY Zenon DEF HandshakesAreRequests
  <2>4. [i \in 1..n |-> wire[i].byte] = h
    <3>1. h \in Seq(Byte)
      BY ClientAssumption, Zenon
    <3> QED BY <3>1, <1>4, ReadAll, Zenon
  <2>5. k2 = B!ReadBytesFromFd(NewBuffer, H!Encode(r))
    BY <2>2, <2>4, Zenon
  <2> DEFINE v == Decode(WithBuffer(c, k2), beyond)
  <2>6. v = Decode(WithBuffer(NewCodec, B!ReadBytesFromFd(NewBuffer, H!Encode(r))), beyond)
    BY <2>1, <2>5, Zenon
  <2> HIDE DEF v
  <2>7. \/ v.open = FALSE /\ v.state = "ExceptHandshake"
        \/ v.state = "ExceptFrameHead"
    BY <2>6, HandshakeDone, Zenon
  <2>8. c' = v
    BY <2>7, <1>2 DEF Handled, v
  <2> QED BY <2>7, <2>8 DEF Awaits
<1> HIDE DEF k2
<1>7. CASE Stuck(c, wire)
  <2>1. wire = <<>>
    BY <1>7, Zenon DEF Stuck
  <2> QED BY <2>1, <1>4
<1>8. CASE Closed(c, asked, received)
  BY <1>8, <1>3, Zenon DEF Closed
<1>9. CASE Thrown(c, received)
  BY <1>9, <1>3, Zenon DEF Thrown
<1>10. CASE Streaming(c, asked, begins, st, Len(received), wire)
  <2>1. B!InRange(c.buf) /\ wire \in Seq(Item)
    BY <1>10, StreamType, Zenon
  <2>2. ReadStep(c.buf, wire, n, k2, wire')
    BY <2>1, <1>5, Zenon
  <2>3. beyond \in Seq(Byte)
    BY BeyondIsSeq, Zenon
  <2>4. c'.state # "ExceptHandshake"
    BY <2>2, <2>3, <1>1, <1>2, <1>10, StaysWebsocket, Zenon
  <2> QED BY <2>4, Zenon DEF Awaits
<1> QED BY <1>1, <1>6, <1>7, <1>8, <1>9, <1>10, Zenon DEF Phase

\* Every step preserves it.
LEMMA NextAwaits ==
    ASSUME MethodLimit \in Nat, HandshakesAreRequests, SplitHandshake = FALSE, StreamInv, Awaits,
           [Next]_vars
    PROVE  Awaits'
<1>1. CASE ClientHandshakes
  <2> PICK h \in Handshakes : wire' = Marked(h, SplitHandshake)
    BY <1>1, Zenon DEF ClientHandshakes
  <2>1. c = NewCodec
    BY <1>1, Zenon DEF ClientHandshakes, StreamInv, Consistent, Phase, Fresh
  <2>2. c' = c /\ wire' = Marked(h, FALSE)
    BY <1>1, Zenon DEF ClientHandshakes
  <2> QED BY <2>1, <2>2, Zenon DEF Awaits
<1>2. CASE ClientSendsFrame
  BY <1>2, Zenon DEF ClientSendsFrame, Awaits
<1>3. CASE OnTcpReceivedData
  BY <1>3, ReceivedAwaits, Zenon
<1>4. CASE OnTcpConnected
  BY <1>4, Zenon DEF OnTcpConnected, Awaits
<1>5. CASE UNCHANGED vars
  BY <1>5, Zenon DEF vars, Awaits
<1> QED BY <1>1, <1>2, <1>3, <1>4, <1>5, Zenon DEF Next

\* A handshake that is any request HttpReqDecoder knows, read at once, is answered: HandShake
\* never leaves the connection open and waiting for bytes that will not come.
THEOREM HandshakesAnswered ==
    ASSUME SplitHandshake = FALSE, SplitHeads = FALSE, MethodLimit \in Nat, HandshakesAreRequests
    PROVE  Spec => []HandshakeAnswered
<1>1. Init => Awaits
  BY Zenon DEF Init, Awaits
<1>2. StreamInv /\ Awaits /\ [Next]_vars => Awaits'
  BY NextAwaits
<1>3. Awaits => HandshakeAnswered
  <2> SUFFICES ASSUME Awaits, shaken, wire = <<>>, c.open, c.state = "ExceptHandshake" PROVE FALSE
    BY Zenon DEF HandshakeAnswered
  <2> PICK h \in Handshakes : wire = Marked(h, FALSE)
    BY Zenon DEF Awaits
  <2> PICK r \in HandshakeRequest : h = H!Encode(r)
    BY Zenon DEF HandshakesAreRequests
  <2>1. \E beyond : beyond \in Beyond
    BY Zenon DEF Beyond
  <2>2. h \in Seq(Byte) /\ h # <<>>
    BY <2>1, HandshakeRead, Zenon
  <2>3. Len(Marked(h, FALSE)) = Len(h)
    BY <2>2, MarkedShape, Zenon
  <2>4. Len(<<>>) = 0
    OBVIOUS
  <2>5. Len(h) = 0
    BY <2>3, <2>4, Zenon
  <2> QED BY <2>2, <2>5, EmptySeq, Zenon
<1>4. Spec => []StreamInv
  BY StreamInvariant
<1> QED BY <1>1, <1>2, <1>3, <1>4, PTL DEF Spec

=============================================================================
