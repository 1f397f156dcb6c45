-------------------------- MODULE HttpServerProofs --------------------------
(***************************************************************************)
(* HttpServer, with reads that end at SafeCuts: OnRequest is called with   *)
(* the requests that were sent; no complete request stays in the receive   *)
(* buffer; and the response is the one the application built.              *)
(*                                                                         *)
(* The bytes of a request have a layout: where each word and each line of  *)
(* it begins.  Find, of a word of the grammar, returns the place the       *)
(* layout gives it, so each function of HttpReqDecoder, run on the first l *)
(* bytes of a request, makes of its decoder what Waiting says of l; a read *)
(* makes l larger, until l is all of the request and Decode returns it.    *)
(* The loops (the lines of the headers, the calls of OnRequest) are        *)
(* recursive functions, and what they compute is shown by Induction, of    *)
(* the set of the numbers of turns for which it holds.                     *)
(***************************************************************************)
EXTENDS HttpServer, SequenceTheorems, FiniteSetTheorems, WellFoundedInduction, TLAPS

-----------------------------------------------------------------------------
(* Induction, over a set of numbers.                                       *)

\* A nonempty set of numbers has a smallest one.
LEMMA Smallest ==
    ASSUME NEW T, T \subseteq Nat, T # {}
    PROVE  \E x \in T : \A y \in T : x <= y
<1>1. PICK x \in T : \A y \in T : ~(<<y, x>> \in OpToRel(<, Nat))
  BY WFMin, NatLessThanWellFounded, Zenon
<1>2. \A y \in T : ~(y < x)
  BY <1>1 DEF OpToRel
<1> QED BY <1>2

\* What holds of 0, and of n + 1 when it holds of n, holds of all.
LEMMA Induction ==
    ASSUME NEW T, 0 \in T, \A n \in Nat : n \in T => n + 1 \in T
    PROVE  \A n \in Nat : n \in T
<1> DEFINE F == {n \in Nat : n \notin T}
<1> SUFFICES ASSUME F # {} PROVE FALSE
  OBVIOUS
<1>1. PICK x \in F : \A y \in F : x <= y
  <2>1. F \subseteq Nat
    OBVIOUS
  <2> HIDE DEF F
  <2> QED BY <2>1, Smallest, Zenon
<1>2. x \in Nat /\ x # 0 /\ x - 1 \in Nat /\ ~(x <= x - 1) /\ (x - 1) + 1 = x
  OBVIOUS
<1>3. x - 1 \in T
  BY <1>1, <1>2
<1>4. x \in T
  BY <1>2, <1>3
<1> QED BY <1>4

-----------------------------------------------------------------------------
(* FlattenSeq.                                                             *)

\* f[i] is the concatenation of the first i sequences.
Flattens(seqs, f) ==
    f = [i \in 0..Len(seqs) |-> IF i = 0 THEN <<>> ELSE f[i - 1] \o seqs[i]]

\* There is such a function.
LEMMA FlattensExists ==
    ASSUME NEW S, NEW seqs \in Seq(Seq(S))
    PROVE  \E f : Flattens(seqs, f)
<1> DEFINE P(f, n) == f = [i \in 0..n |-> IF i = 0 THEN <<>> ELSE f[i - 1] \o seqs[i]]
           T == {n \in Nat : \E f : P(f, n)}
<1>1. 0 \in T
  <2>1. P([i \in 0..0 |-> <<>>], 0)
    OBVIOUS
  <2> QED BY <2>1
<1>2. ASSUME NEW n \in Nat, n \in T PROVE n + 1 \in T
  <2>1. PICK f : P(f, n)
    BY <1>2
  <2> DEFINE g == [i \in 0..(n + 1) |-> IF i = n + 1 THEN f[n] \o seqs[n + 1] ELSE f[i]]
  <2>2. ASSUME NEW i \in 0..(n + 1)
        PROVE  g[i] = IF i = 0 THEN <<>> ELSE g[i - 1] \o seqs[i]
    <3>1. CASE i = 0
      <4>1. g[i] = f[0] /\ f[0] = <<>>
        BY <2>1, <3>1
      <4> QED BY <4>1, <3>1
    <3>2. CASE i = n + 1
      <4>1. g[n + 1] = f[n] \o seqs[n + 1] /\ g[n] = f[n] /\ i # 0 /\ i - 1 = n
        BY <3>2
      <4> HIDE DEF g
      <4> QED BY <4>1, <3>2, Zenon
    <3>3. CASE i # 0 /\ i # n + 1
      <4>1. i \in 0..n /\ i - 1 \in 0..n
        BY <3>3
      <4>2. g[i] = f[i] /\ g[i - 1] = f[i - 1]
        BY <4>1
      <4>3. f[i] = f[i - 1] \o seqs[i]
        BY <2>1, <4>1, <3>3
      <4> HIDE DEF g
      <4> QED BY <4>2, <4>3, <3>3
    <3> QED BY <3>1, <3>2, <3>3
  <2>3. g = [i \in 0..(n + 1) |-> IF i = 0 THEN <<>> ELSE g[i - 1] \o seqs[i]]
    <3>1. g = [i \in 0..(n + 1) |-> g[i]]
      OBVIOUS
    <3> HIDE DEF g
    <3> QED BY <2>2, <3>1, Zenon
  <2>4. P(g, n + 1)
    BY <2>3, Zenon
  <2> HIDE DEF P, g
  <2> QED BY <2>4
<1>3. Len(seqs) \in T
  <2> HIDE DEF T
  <2> QED BY <1>1, <1>2, Induction
<1> QED BY <1>3, Zenon DEF Flattens

\* The concatenations are sequences, and each goes on with the next sequence.
LEMMA FlattensStep ==
    ASSUME NEW S, NEW seqs \in Seq(Seq(S)), NEW f, Flattens(seqs, f)
    PROVE  /\ f[0] = <<>>
           /\ \A i \in 0..Len(seqs) : f[i] \in Seq(S)
           /\ \A i \in 1..Len(seqs) : f[i] = f[i - 1] \o seqs[i] /\ seqs[i] \in Seq(S)
<1>1. f[0] = <<>>
  BY DEF Flattens
<1>2. ASSUME NEW i \in 1..Len(seqs) PROVE f[i] = f[i - 1] \o seqs[i]
  <2>1. i \in 0..Len(seqs) /\ i # 0
    OBVIOUS
  <2> QED BY <2>1 DEF Flattens
<1>3. \A i \in 1..Len(seqs) : seqs[i] \in Seq(S)
  OBVIOUS
<1> DEFINE T == {n \in Nat : n <= Len(seqs) => f[n] \in Seq(S)}
<1>4. 0 \in T
  <2>1. <<>> \in Seq(S)
    OBVIOUS
  <2>2. f[0] \in Seq(S)
    BY <1>1, <2>1, Zenon
  <2> QED BY <2>2
<1>5. ASSUME NEW n \in Nat, n \in T PROVE n + 1 \in T
  <2> SUFFICES ASSUME n + 1 <= Len(seqs) PROVE f[n + 1] \in Seq(S)
    OBVIOUS
  <2>1. f[n] \in Seq(S) /\ n + 1 \in 1..Len(seqs) /\ (n + 1) - 1 = n
    BY <1>5
  <2>2. f[n + 1] = f[n] \o seqs[n + 1] /\ seqs[n + 1] \in Seq(S)
    BY <2>1, <1>2, <1>3
  <2> QED BY <2>1, <2>2, ConcatProperties
<1>6. \A n \in Nat : n \in T
  <2> HIDE DEF T
  <2> QED BY <1>4, <1>5, Induction
<1>7. \A i \in 0..Len(seqs) : f[i] \in Seq(S)
  BY <1>6
<1> QED BY <1>1, <1>2, <1>3, <1>7

\* FlattenSeq is the last of them.
LEMMA FlattenIs ==
    ASSUME NEW S, NEW seqs \in Seq(Seq(S)), NEW f, Flattens(seqs, f)
    PROVE  FlattenSeq(seqs) = f[Len(seqs)]
<1> DEFINE m == Len(seqs)
           g[i \in 1..m] == IF i = 1 THEN seqs[i] ELSE g[i - 1] \o seqs[i]
           h == [i \in 1..m |-> f[i]]
<1>1. /\ f[0] = <<>> /\ m \in Nat
      /\ \A i \in 0..m : f[i] \in Seq(S)
      /\ \A i \in 1..m : f[i] = f[i - 1] \o seqs[i] /\ seqs[i] \in Seq(S)
  <2>1. m \in Nat
    OBVIOUS
  <2> QED BY <2>1, FlattensStep, Zenon
<1>2. CASE m = 0
  <2>1. seqs = <<>>
    BY <1>2
  <2>2. FlattenSeq(seqs) = <<>>
    BY <1>2, <2>1, Zenon DEF FlattenSeq
  <2> QED BY <1>1, <1>2, <2>2
<1>3. CASE m # 0
  <2>1. FlattenSeq(seqs) = g[m]
    BY <1>3, Zenon DEF FlattenSeq
  <2>2. ASSUME NEW i \in 1..m PROVE h[i] = IF i = 1 THEN seqs[i] ELSE h[i - 1] \o seqs[i]
    <3>1. CASE i = 1
      <4>0. i - 1 = 0
        BY <3>1
      <4>1. f[i] = f[0] \o seqs[i] /\ seqs[i] \in Seq(S)
        BY <1>1, <4>0, Zenon
      <4> QED BY <4>1, <3>1, <1>1, ConcatEmptySeq
    <3>2. CASE i # 1
      <4>1. i - 1 \in 1..m
        BY <3>2
      <4> QED BY <4>1, <3>2, <1>1
    <3> QED BY <3>1, <3>2
  <2>3. h = [i \in 1..m |-> IF i = 1 THEN seqs[i] ELSE h[i - 1] \o seqs[i]]
    <3>1. h = [i \in 1..m |-> h[i]]
      OBVIOUS
    <3> HIDE DEF h
    <3> QED BY <2>2, <3>1, Zenon
  <2>4. g = [i \in 1..m |-> IF i = 1 THEN seqs[i] ELSE g[i - 1] \o seqs[i]]
    <3> HIDE DEF h, m
    <3> QED BY <2>3, Zenon DEF g
  <2> HIDE DEF g
  <2> DEFINE T == {n \in Nat : n + 1 <= m => g[n + 1] = f[n + 1]}
  <2>5. 0 \in T
    <3>1. 1 \in 1..m
      BY <1>1, <1>3
    <3>2. g[1] = seqs[1] /\ f[1] = f[0] \o seqs[1] /\ seqs[1] \in Seq(S)
      <4> HIDE DEF m
      <4>1. 1 - 1 = 0
        OBVIOUS
      <4> QED BY <2>4, <3>1, <1>1, <4>1
    <3>3. f[1] = seqs[1]
      BY <3>2, <1>1, ConcatEmptySeq
    <3> QED BY <3>2, <3>3
  <2>6. ASSUME NEW n \in Nat, n \in T PROVE n + 1 \in T
    <3> SUFFICES ASSUME (n + 1) + 1 <= m PROVE g[(n + 1) + 1] = f[(n + 1) + 1]
      OBVIOUS
    <3> DEFINE i == (n + 1) + 1
    <3>1. i \in 1..m /\ i # 1 /\ i - 1 = n + 1 /\ n + 1 <= m
      BY <1>1
    <3>2. g[i - 1] = f[i - 1]
      BY <3>1, <2>6
    <3>3. g[i] = g[i - 1] \o seqs[i]
      <4> HIDE DEF i, m
      <4> QED BY <2>4, <3>1
    <3> QED BY <3>1, <3>2, <3>3, <1>1
  <2>7. \A n \in Nat : n \in T
    <3> HIDE DEF T
    <3> QED BY <2>5, <2>6, Induction
  <2>8. m - 1 \in Nat /\ (m - 1) + 1 = m
    BY <1>1, <1>3
  <2>9. g[m] = f[m]
    <3>1. m - 1 \in T
      BY <2>7, <2>8, Zenon
    <3>2. (m - 1) + 1 <= m => g[(m - 1) + 1] = f[(m - 1) + 1]
      BY <3>1
    <3>3. (m - 1) + 1 <= m
      BY <2>8
    <3> HIDE DEF m
    <3> QED BY <3>2, <3>3, <2>8
  <2> QED BY <2>1, <2>9
<1> QED BY <1>2, <1>3

\* Where the i-th sequence is in the first n.
Placed(seqs, f, n, i) ==
    /\ Len(f[i]) = Len(f[i - 1]) + Len(seqs[i]) /\ Len(f[i]) <= Len(f[n])
    /\ \A j \in 1..Len(seqs[i]) : f[n][Len(f[i - 1]) + j] = seqs[i][j]

\* It is there.
LEMMA FlattensLayout ==
    ASSUME NEW S, NEW seqs \in Seq(Seq(S)), NEW f, Flattens(seqs, f),
           NEW n \in 0..Len(seqs), NEW i \in 1..n
    PROVE  Placed(seqs, f, n, i)
<1> DEFINE s == seqs[i]  p == Len(f[i - 1])
           P(k) == Len(f[k]) >= p + Len(s) /\ \A j \in 1..Len(s) : f[k][p + j] = s[j]
           T == {k \in Nat : i + k <= Len(seqs) => P(i + k)}
<1>1. /\ Len(seqs) \in Nat
      /\ \A k \in 0..Len(seqs) : f[k] \in Seq(S)
      /\ \A k \in 1..Len(seqs) : f[k] = f[k - 1] \o seqs[k] /\ seqs[k] \in Seq(S)
  <2>1. Len(seqs) \in Nat
    OBVIOUS
  <2> QED BY <2>1, FlattensStep, Zenon
<1>2. i \in 1..Len(seqs) /\ i - 1 \in 0..Len(seqs) /\ i \in Nat
  BY <1>1
<1>3. p \in Nat /\ Len(s) \in Nat /\ f[i - 1] \in Seq(S) /\ s \in Seq(S)
  BY <1>1, <1>2
<1>4. f[i] = f[i - 1] \o s
  BY <1>1, <1>2
<1>5. Len(f[i]) = p + Len(s) /\ \A j \in 1..Len(s) : f[i][p + j] = s[j]
  <2>1. Len(f[i]) = p + Len(s)
    BY <1>3, <1>4
  <2>2. ASSUME NEW j \in 1..Len(s) PROVE f[i][p + j] = s[j]
    <3> DEFINE l == Len(s)
    <3> HIDE DEF s, p, l
    <3>1. p + j \in 1..(p + l) /\ ~(p + j <= p) /\ (p + j) - p = j
      BY <1>3 DEF l
    <3> QED BY <1>3, <1>4, <3>1, ConcatProperties DEF l, p
  <2> QED BY <2>1, <2>2
<1> HIDE DEF s, p
<1>6. 0 \in T
  <2>1. i + 0 = i
    BY <1>2
  <2> QED BY <1>3, <1>5, <2>1
<1>7. ASSUME NEW k \in Nat, k \in T PROVE k + 1 \in T
  <2> SUFFICES ASSUME i + (k + 1) <= Len(seqs) PROVE P(i + (k + 1))
    OBVIOUS
  <2> DEFINE q == i + k
  <2>1. /\ q \in 0..Len(seqs) /\ q + 1 \in 1..Len(seqs) /\ (q + 1) - 1 = q
        /\ q + 1 = i + (k + 1) /\ q <= Len(seqs)
    BY <1>1, <1>2
  <2>2. P(q)
    BY <1>7, <2>1
  <2> HIDE DEF q
  <2>3. f[q + 1] = f[q] \o seqs[q + 1] /\ f[q] \in Seq(S) /\ seqs[q + 1] \in Seq(S)
    BY <1>1, <2>1
  <2>4. Len(f[q + 1]) = Len(f[q]) + Len(seqs[q + 1]) /\ Len(seqs[q + 1]) \in Nat
        /\ Len(f[q]) \in Nat
    BY <2>3
  <2>5. ASSUME NEW j \in 1..Len(s) PROVE f[q + 1][p + j] = s[j]
    <3> DEFINE ls == Len(s)  lq == Len(f[q])  ln == Len(seqs[q + 1])
    <3>0. p \in Nat /\ ls \in Nat /\ lq \in Nat /\ ln \in Nat /\ lq >= p + ls /\ j \in 1..ls
      BY <2>2, <2>4, <1>3
    <3> HIDE DEF ls, lq, ln
    <3>1. p + j \in 1..lq /\ p + j \in 1..(lq + ln)
      BY <3>0
    <3> USE DEF ls, lq, ln
    <3>2. f[q + 1][p + j] = f[q][p + j]
      BY <3>1, <2>3, <2>4
    <3> QED BY <3>2, <2>2
  <2>6. P(q + 1)
    <3>1. Len(f[q + 1]) >= p + Len(s)
      <4> DEFINE ls == Len(s)  lq == Len(f[q])  ln == Len(seqs[q + 1])
      <4>0. p \in Nat /\ ls \in Nat /\ lq \in Nat /\ ln \in Nat /\ lq >= p + ls
        BY <2>2, <2>4, <1>3
      <4>1. Len(f[q + 1]) = lq + ln
        BY <2>4
      <4> HIDE DEF ls, lq, ln
      <4>2. lq + ln >= p + ls
        BY <4>0
      <4> QED BY <4>1, <4>2 DEF ls
    <3> QED BY <3>1, <2>5
  <2> QED BY <2>6, <2>1
<1>8. \A k \in Nat : k \in T
  <2> HIDE DEF T
  <2> QED BY <1>6, <1>7, Induction
<1>9. n - i \in Nat /\ i + (n - i) = n /\ n <= Len(seqs)
  BY <1>1, <1>2
<1>10. P(n)
  BY <1>8, <1>9
<1> QED BY <1>5, <1>10, <1>3, <1>9 DEF s, p, Placed

-----------------------------------------------------------------------------
(* The bytes of a request.                                                 *)

\* The word w is behind the first p bytes of e.
At(e, p, w) ==
    p \in Nat /\ p + Len(w) <= Len(e) /\ \A j \in 1..Len(w) : e[p + j] = w[j]

\* A word that is appended is at the end, and the others stay where they are.
LEMMA AtConcat ==
    ASSUME NEW S, NEW x \in Seq(S), NEW y \in Seq(S)
    PROVE  /\ x \o y \in Seq(S) /\ Len(x \o y) = Len(x) + Len(y) /\ At(x \o y, Len(x), y)
           /\ \A p : \A w \in Seq(S) : At(x, p, w) => At(x \o y, p, w)
<1> DEFINE z == x \o y  lx == Len(x)  ly == Len(y)
<1>1. z \in Seq(S) /\ Len(z) = lx + ly /\ lx \in Nat /\ ly \in Nat
  OBVIOUS
<1>2. /\ \A i \in 1..lx : z[i] = x[i]
      /\ \A i \in 1..ly : z[lx + i] = y[i]
  <2>1. \A i \in 1..(lx + ly) : z[i] = IF i <= lx THEN x[i] ELSE y[i - lx]
    BY <1>1
  <2> HIDE DEF z, lx, ly
  <2>2. ASSUME NEW i \in 1..lx PROVE z[i] = x[i]
    BY <2>1, <1>1
  <2>3. ASSUME NEW i \in 1..ly PROVE z[lx + i] = y[i]
    <3>1. lx + i \in 1..(lx + ly) /\ ~(lx + i <= lx) /\ (lx + i) - lx = i
      BY <1>1
    <3> QED BY <2>1, <3>1
  <2> QED BY <2>2, <2>3
<1> HIDE DEF z
<1>3. At(z, lx, y)
  <2>1. lx + Len(y) <= Len(z)
    BY <1>1
  <2> QED BY <1>1, <1>2, <2>1 DEF At
<1>4. ASSUME NEW p, NEW w \in Seq(S), At(x, p, w) PROVE At(z, p, w)
  <2> DEFINE lw == Len(w)
  <2>1. p \in Nat /\ lw \in Nat /\ p + lw <= lx /\ \A j \in 1..lw : x[p + j] = w[j]
    BY <1>4 DEF At
  <2> HIDE DEF lw, lx, ly
  <2>2. p + lw <= lx + ly
    BY <1>1, <2>1
  <2>3. \A j \in 1..lw : p + j \in 1..lx
    BY <1>1, <2>1
  <2>4. \A j \in 1..lw : z[p + j] = w[j]
    BY <2>1, <2>3, <1>2
  <2> QED BY <1>1, <2>1, <2>2, <2>4 DEF At, lw
<1> QED BY <1>1, <1>3, <1>4, Zenon DEF z

\* A word in a word.
LEMMA AtIn ==
    ASSUME NEW S, NEW e \in Seq(S), NEW x \in Seq(S), NEW y \in Seq(S), NEW p, NEW q,
           At(e, p, x), At(x, q, y)
    PROVE  At(e, p + q, y)
<1> DEFINE le == Len(e)  lx == Len(x)  ly == Len(y)
<1>1. /\ p \in Nat /\ q \in Nat /\ p + lx <= le /\ q + ly <= lx
      /\ \A j \in 1..lx : e[p + j] = x[j]
      /\ \A j \in 1..ly : x[q + j] = y[j]
      /\ le \in Nat /\ lx \in Nat /\ ly \in Nat
  BY DEF At
<1> HIDE DEF le, lx, ly
<1>2. p + q \in Nat /\ (p + q) + ly <= le
  BY <1>1
<1>3. ASSUME NEW j \in 1..ly PROVE e[(p + q) + j] = y[j]
  <2>1. q + j \in 1..lx /\ p + (q + j) = (p + q) + j
    BY <1>1
  <2> QED BY <1>1, <2>1
<1> QED BY <1>2, <1>3 DEF At, le, ly

\* The request r is e, its i-th header ends at at[i].
Layout(r, e, at) ==
    LET uri     == Len(r.method) + 1
        version == uri + Len(r.request_uri) + 1
        last    == Len(r.headers)
    IN  /\ e \in Seq(Byte) /\ at \in [0..last -> Nat]
        /\ At(e, 0, r.method) /\ At(e, Len(r.method), <<SP>>)
        /\ At(e, uri, r.request_uri) /\ At(e, uri + Len(r.request_uri), <<SP>>)
        /\ At(e, version, r.version) /\ At(e, version + Len(r.version), CRLF)
        /\ at[0] = version + Len(r.version) + 2
        /\ \A i \in 1..last :
              LET name == r.headers[i][1]  value == r.headers[i][2]  p == at[i - 1]
              IN  /\ At(e, p, name) /\ At(e, p + Len(name), <<COLON, SP>>)
                  /\ At(e, p + Len(name) + 2, value)
                  /\ At(e, p + Len(name) + 2 + Len(value), CRLF)
                  /\ at[i] = p + Len(name) + 2 + Len(value) + 2
        /\ At(e, at[last], CRLF) /\ At(e, at[last] + 2, r.body)
        /\ Len(e) = at[last] + 2 + Len(r.body)

\* The requests of a client, with words of bytes.
Request ==
    [method : Seq(Byte), request_uri : Seq(Byte), version : Seq(Byte),
     headers : Seq(Seq(Byte) \X Seq(Byte)), body : Seq(Byte)]

\* The single bytes and the ends of lines.
LEMMA Separators ==
    /\ <<SP>> \in Seq(Byte) /\ Len(<<SP>>) = 1
    /\ <<COLON>> \in Seq(Byte) /\ Len(<<COLON>>) = 1
    /\ <<COLON, SP>> \in Seq(Byte) /\ Len(<<COLON, SP>>) = 2
    /\ CRLF \in Seq(Byte) /\ Len(CRLF) = 2 /\ CRLF[1] = CR /\ CRLF[2] = LF
BY DEF SP, COLON, CR, LF, CRLF, Byte

\* The i-th line of the headers.
Line(h) == h[1] \o <<COLON, SP>> \o h[2] \o CRLF

\* Where its parts are.
LEMMA LineLayout ==
    ASSUME NEW h \in Seq(Byte) \X Seq(Byte)
    PROVE  LET ln == Len(h[1])  lv == Len(h[2])
           IN  /\ Line(h) \in Seq(Byte) /\ Len(Line(h)) = ln + 2 + lv + 2
               /\ At(Line(h), 0, h[1]) /\ At(Line(h), ln, <<COLON, SP>>)
               /\ At(Line(h), ln + 2, h[2]) /\ At(Line(h), ln + 2 + lv, CRLF)
<1> DEFINE n == h[1]  v == h[2]
           x == n \o <<COLON, SP>>
           y == x \o v
           z == y \o CRLF
<1>1. n \in Seq(Byte) /\ v \in Seq(Byte) /\ Line(h) = z
  BY DEF Line
<1> HIDE DEF n, v
<1>2. At(n, 0, n)
  <2>1. Len(n) \in Nat /\ 0 + Len(n) <= Len(n)
    BY <1>1
  <2>2. \A j \in 1..Len(n) : 0 + j = j
    BY <2>1
  <2> QED BY <2>1, <2>2 DEF At
<1>3. x \in Seq(Byte) /\ Len(x) = Len(n) + 2 /\ At(x, 0, n) /\ At(x, Len(n), <<COLON, SP>>)
  BY <1>1, <1>2, Separators, AtConcat, ZenonT(60)
<1> HIDE DEF x
<1>4. /\ y \in Seq(Byte) /\ Len(y) = Len(n) + 2 + Len(v) /\ At(y, 0, n)
      /\ At(y, Len(n), <<COLON, SP>>) /\ At(y, Len(n) + 2, v)
  <2>1. y \in Seq(Byte) /\ Len(y) = Len(x) + Len(v) /\ At(y, Len(x), v) /\ At(y, 0, n)
        /\ At(y, Len(n), <<COLON, SP>>)
    BY <1>1, <1>3, Separators, AtConcat, Zenon
  <2> QED BY <2>1, <1>3, Zenon
<1> HIDE DEF y
<1>5. /\ z \in Seq(Byte) /\ Len(z) = Len(y) + 2 /\ At(z, Len(y), CRLF)
      /\ At(z, 0, n) /\ At(z, Len(n), <<COLON, SP>>) /\ At(z, Len(n) + 2, v)
  <2>1. z \in Seq(Byte) /\ Len(z) = Len(y) + Len(CRLF) /\ At(z, Len(y), CRLF)
        /\ At(z, 0, n) /\ At(z, Len(n), <<COLON, SP>>) /\ At(z, Len(n) + 2, v)
    BY <1>1, <1>4, Separators, AtConcat, Zenon
  <2> QED BY <2>1, Separators, Zenon
<1> HIDE DEF z
<1> QED BY <1>1, <1>4, <1>5, Zenon DEF n, v

\* The lines of the headers, and where they are in all of them.
LEMMA LinesLayout ==
    ASSUME NEW r \in Request, NEW lines, lines = [i \in DOMAIN r.headers |-> Line(r.headers[i])]
    PROVE  /\ lines \in Seq(Seq(Byte)) /\ Len(lines) = Len(r.headers)
           /\ \A i \in 1..Len(r.headers) :
                 lines[i] = Line(r.headers[i]) /\ r.headers[i] \in Seq(Byte) \X Seq(Byte)
<1> DEFINE n == Len(r.headers)
<1>1. r.headers \in Seq(Seq(Byte) \X Seq(Byte))
  BY DEF Request
<1>2. n \in Nat /\ DOMAIN r.headers = 1..n /\ \A i \in 1..n : r.headers[i] \in Seq(Byte) \X Seq(Byte)
  BY <1>1
<1>3. \A i \in 1..n : Line(r.headers[i]) \in Seq(Byte)
  BY <1>2, LineLayout
<1> HIDE DEF n
<1>4. lines \in [1..n -> Seq(Byte)] /\ \A i \in 1..n : lines[i] = Line(r.headers[i])
  BY <1>2, <1>3
<1>5. lines \in Seq(Seq(Byte)) /\ Len(lines) = n
  BY <1>2, <1>4, SeqDef
<1> QED BY <1>2, <1>4, <1>5 DEF n

\* A request has a layout.
LEMMA RequestLayout ==
    ASSUME NEW r \in Request
    PROVE  \E at : Layout(r, Encode(r), at)
<1> DEFINE m == r.method  u == r.request_uri  v == r.version  hs == r.headers  b == r.body
           lines == [i \in DOMAIN hs |-> Line(hs[i])]
           flat == FlattenSeq(lines)
           last == Len(hs)
           a1 == m \o <<SP>>
           a2 == a1 \o u
           a3 == a2 \o <<SP>>
           a4 == a3 \o v
           a5 == a4 \o CRLF
           a6 == a5 \o flat
           a7 == a6 \o CRLF
           e  == a7 \o b
<1>1. /\ m \in Seq(Byte) /\ u \in Seq(Byte) /\ v \in Seq(Byte) /\ b \in Seq(Byte)
      /\ lines \in Seq(Seq(Byte)) /\ Len(lines) = last /\ last \in Nat
      /\ \A i \in 1..last : lines[i] = Line(hs[i]) /\ hs[i] \in Seq(Byte) \X Seq(Byte)
  <2>1. hs \in Seq(Seq(Byte) \X Seq(Byte))
    BY DEF Request
  <2>2. last \in Nat
    BY <2>1
  <2>3. m \in Seq(Byte) /\ u \in Seq(Byte) /\ v \in Seq(Byte) /\ b \in Seq(Byte)
    BY DEF Request
  <2> QED BY <2>2, <2>3, LinesLayout
<1>2. Encode(r) = e
  BY Zenon DEF Encode, Line
<1>3. PICK f : Flattens(lines, f)
  BY <1>1, FlattensExists, Zenon
<1>4. /\ f[0] = <<>> /\ \A i \in 0..last : f[i] \in Seq(Byte)
      /\ flat = f[last]
  <2> HIDE DEF lines, last
  <2>1. f[0] = <<>> /\ \A i \in 0..Len(lines) : f[i] \in Seq(Byte)
    BY <1>1, <1>3, FlattensStep, Zenon
  <2>2. flat = f[Len(lines)]
    BY <1>1, <1>3, FlattenIs, Zenon
  <2> QED BY <1>1, <2>1, <2>2, Zenon
<1>5. ASSUME NEW i \in 1..last
      PROVE  /\ Len(f[i]) = Len(f[i - 1]) + Len(Line(hs[i]))
             /\ At(flat, Len(f[i - 1]), Line(hs[i]))
  <2> HIDE DEF lines, flat
  <2>1. last \in 0..Len(lines)
    <3> HIDE DEF last
    <3> QED BY <1>1
  <2>2. lines[i] = Line(hs[i])
    BY <1>1
  <2> HIDE DEF last
  <2>3. /\ Len(f[i]) = Len(f[i - 1]) + Len(lines[i]) /\ Len(f[i]) <= Len(f[last])
        /\ \A j \in 1..Len(lines[i]) : f[last][Len(f[i - 1]) + j] = lines[i][j]
    <3>1. lines \in Seq(Seq(Byte)) /\ i \in 1..last
      BY <1>1
    <3>2. Placed(lines, f, last, i)
      BY <3>1, <1>3, <2>1, FlattensLayout, Zenon
    <3> QED BY <3>2, Zenon DEF Placed
  <2>4. f[i - 1] \in Seq(Byte)
    <3>1. i - 1 \in 0..last
      BY <1>1
    <3> QED BY <3>1, <1>4, Zenon
  <2>5. Len(f[i - 1]) \in Nat
    BY <2>4
  <2> QED BY <1>4, <2>2, <2>3, <2>5 DEF At
<1>6. flat \in Seq(Byte)
  <2>1. last \in 0..last
    BY <1>1
  <2> QED BY <2>1, <1>4, Zenon
<1> HIDE DEF m, u, v, b, flat, lines, last, hs
<1> DEFINE lm == Len(m)  lu == Len(u)  lv == Len(v)  lf == Len(flat)  lb == Len(b)
<1>7. At(m, 0, m)
  <2>1. Len(m) \in Nat /\ 0 + Len(m) <= Len(m)
    BY <1>1
  <2>2. \A j \in 1..Len(m) : 0 + j = j
    BY <2>1
  <2> QED BY <2>1, <2>2 DEF At
<1>8. a1 \in Seq(Byte) /\ Len(a1) = lm + 1 /\ At(a1, 0, m) /\ At(a1, lm, <<SP>>)
  <2>1. a1 \in Seq(Byte) /\ Len(a1) = lm + Len(<<SP>>) /\ At(a1, 0, m) /\ At(a1, lm, <<SP>>)
    BY <1>1, <1>7, Separators, AtConcat, Zenon
  <2> QED BY <2>1, Separators, Zenon
<1> HIDE DEF a1
<1>9. /\ a2 \in Seq(Byte) /\ Len(a2) = (lm + 1) + lu /\ At(a2, 0, m) /\ At(a2, lm, <<SP>>)
      /\ At(a2, lm + 1, u)
  <2>1. /\ a2 \in Seq(Byte) /\ Len(a2) = Len(a1) + lu /\ At(a2, 0, m) /\ At(a2, lm, <<SP>>)
        /\ At(a2, Len(a1), u)
    BY <1>1, <1>8, Separators, AtConcat, Zenon
  <2> QED BY <2>1, <1>8, Zenon
<1> HIDE DEF a2
<1>10. /\ a3 \in Seq(Byte) /\ Len(a3) = ((lm + 1) + lu) + 1 /\ At(a3, 0, m) /\ At(a3, lm, <<SP>>)
       /\ At(a3, lm + 1, u) /\ At(a3, (lm + 1) + lu, <<SP>>)
  <2>1. /\ a3 \in Seq(Byte) /\ Len(a3) = Len(a2) + Len(<<SP>>) /\ At(a3, 0, m) /\ At(a3, lm, <<SP>>)
        /\ At(a3, lm + 1, u) /\ At(a3, Len(a2), <<SP>>)
    BY <1>1, <1>9, Separators, AtConcat, Zenon
  <2> QED BY <2>1, <1>9, Separators, Zenon
<1> HIDE DEF a3
<1> DEFINE lw == ((lm + 1) + lu) + 1
<1>11. /\ a4 \in Seq(Byte) /\ Len(a4) = lw + lv /\ At(a4, 0, m) /\ At(a4, lm, <<SP>>)
       /\ At(a4, lm + 1, u) /\ At(a4, (lm + 1) + lu, <<SP>>) /\ At(a4, lw, v)
  <2>1. /\ a4 \in Seq(Byte) /\ Len(a4) = Len(a3) + lv /\ At(a4, 0, m) /\ At(a4, lm, <<SP>>)
        /\ At(a4, lm + 1, u) /\ At(a4, (lm + 1) + lu, <<SP>>) /\ At(a4, Len(a3), v)
    BY <1>1, <1>10, Separators, AtConcat, Zenon
  <2> QED BY <2>1, <1>10, Zenon
<1> HIDE DEF a4
<1> DEFINE Words(a) == /\ At(a, 0, m) /\ At(a, lm, <<SP>>) /\ At(a, lm + 1, u)
                       /\ At(a, (lm + 1) + lu, <<SP>>) /\ At(a, lw, v) /\ At(a, lw + lv, CRLF)
<1>12. a5 \in Seq(Byte) /\ Len(a5) = (lw + lv) + 2 /\ Words(a5)
  <2>1. /\ a5 \in Seq(Byte) /\ Len(a5) = Len(a4) + Len(CRLF) /\ At(a5, 0, m) /\ At(a5, lm, <<SP>>)
        /\ At(a5, lm + 1, u) /\ At(a5, (lm + 1) + lu, <<SP>>) /\ At(a5, lw, v)
        /\ At(a5, Len(a4), CRLF)
    BY <1>1, <1>11, Separators, AtConcat, ZenonT(60)
  <2> QED BY <2>1, <1>11, Separators, Zenon
<1> HIDE DEF a5
<1> DEFINE at0 == (lw + lv) + 2
<1>13. a6 \in Seq(Byte) /\ Len(a6) = at0 + lf /\ Words(a6) /\ At(a6, at0, flat)
  <2>1. a6 \in Seq(Byte) /\ Len(a6) = Len(a5) + lf /\ Words(a6) /\ At(a6, Len(a5), flat)
    BY <1>1, <1>6, <1>12, Separators, AtConcat, Zenon
  <2> QED BY <2>1, <1>12, Zenon
<1> HIDE DEF a6
<1>14. /\ a7 \in Seq(Byte) /\ Len(a7) = (at0 + lf) + 2 /\ Words(a7) /\ At(a7, at0, flat)
       /\ At(a7, at0 + lf, CRLF)
  <2>1. /\ a7 \in Seq(Byte) /\ Len(a7) = Len(a6) + Len(CRLF) /\ Words(a7) /\ At(a7, at0, flat)
        /\ At(a7, Len(a6), CRLF)
    BY <1>1, <1>6, <1>13, Separators, AtConcat, ZenonT(60)
  <2> QED BY <2>1, <1>13, Separators, Zenon
<1> HIDE DEF a7
<1>15. /\ e \in Seq(Byte) /\ Len(e) = ((at0 + lf) + 2) + lb /\ Words(e) /\ At(e, at0, flat)
       /\ At(e, at0 + lf, CRLF) /\ At(e, (at0 + lf) + 2, b)
  <2>1. /\ e \in Seq(Byte) /\ Len(e) = Len(a7) + lb /\ Words(e) /\ At(e, at0, flat)
        /\ At(e, at0 + lf, CRLF) /\ At(e, Len(a7), b)
    BY <1>1, <1>6, <1>14, Separators, AtConcat, Zenon
  <2> QED BY <2>1, <1>14, Zenon
<1> HIDE DEF e
<1> DEFINE at == [i \in 0..last |-> at0 + Len(f[i])]
<1>16. at0 \in Nat /\ \A i \in 0..last : Len(f[i]) \in Nat
  <2>1. lm \in Nat /\ lu \in Nat /\ lv \in Nat
    BY <1>1
  <2>2. at0 \in Nat
    <3> HIDE DEF lm, lu, lv
    <3> QED BY <2>1
  <2> QED BY <2>2, <1>4
<1> HIDE DEF at0
<1>17. at \in [0..last -> Nat] /\ at[0] = at0 /\ at[last] = at0 + lf
  <2>1. 0 \in 0..last /\ last \in 0..last
    BY <1>1
  <2>2. Len(f[0]) = 0 /\ Len(f[last]) = lf
    BY <1>4
  <2>3. at \in [0..last -> Nat]
    BY <1>16
  <2>4. at[0] = at0 + Len(f[0]) /\ at[last] = at0 + Len(f[last])
    BY <2>1
  <2> QED BY <2>2, <2>3, <2>4, <1>16
<1>18. ASSUME NEW i \in 1..last
       PROVE  LET name == hs[i][1]  value == hs[i][2]  p == at[i - 1]
              IN  /\ At(e, p, name) /\ At(e, p + Len(name), <<COLON, SP>>)
                  /\ At(e, p + Len(name) + 2, value)
                  /\ At(e, p + Len(name) + 2 + Len(value), CRLF)
                  /\ at[i] = p + Len(name) + 2 + Len(value) + 2
  <2> DEFINE name == hs[i][1]  value == hs[i][2]  p == at[i - 1]  q == Len(f[i - 1])
             l == Line(hs[i])  ln == Len(name)  la == Len(value)
  <2>1. /\ l \in Seq(Byte) /\ Len(l) = ln + 2 + la + 2
        /\ At(l, 0, name) /\ At(l, ln, <<COLON, SP>>)
        /\ At(l, ln + 2, value) /\ At(l, ln + 2 + la, CRLF)
    BY <1>1, LineLayout
  <2>2. name \in Seq(Byte) /\ value \in Seq(Byte)
    <3>1. hs[i] \in Seq(Byte) \X Seq(Byte)
      BY <1>1
    <3> QED BY <3>1
  <2>3. ln \in Nat /\ la \in Nat
    BY <2>2
  <2>4. i - 1 \in 0..last /\ i \in 0..last
    BY <1>1
  <2>5. q \in Nat /\ p = at0 + q /\ at[i] = at0 + Len(f[i])
    BY <2>4, <1>16
  <2>6. Len(f[i]) = q + Len(l) /\ At(flat, q, l)
    BY <1>5
  <2> HIDE DEF l, at, p, q, name, value
  <2>7. At(e, at0 + q, l)
    BY <2>1, <2>6, <1>6, <1>15, AtIn, Zenon
  <2>8. At(e, p, l)
    BY <2>7, <2>5, Zenon
  <2>9. At(e, p + 0, name) /\ At(e, p + ln, <<COLON, SP>>)
        /\ At(e, p + (ln + 2), value) /\ At(e, p + (ln + 2 + la), CRLF)
    BY <2>1, <2>2, <2>8, <1>15, Separators, AtIn, Zenon
  <2> HIDE DEF ln, la
  <2>10. /\ p + 0 = p /\ p + (ln + 2) = p + ln + 2 /\ p + (ln + 2 + la) = p + ln + 2 + la
         /\ at[i] = p + ln + 2 + la + 2
    BY <2>1, <2>3, <2>5, <2>6, <1>16
  <2>11. /\ At(e, p, name) /\ At(e, p + ln, <<COLON, SP>>)
         /\ At(e, p + ln + 2, value) /\ At(e, p + ln + 2 + la, CRLF)
    BY <2>9, <2>10, Zenon
  <2> QED BY <2>10, <2>11, Zenon DEF name, value, p, ln, la
<1> HIDE DEF at
<1>19. Layout(r, e, at)
  BY <1>15, <1>17, <1>18, Zenon DEF Layout, at0, lm, lu, lv, lb, m, u, v, b, hs, last
<1> QED BY <1>2, <1>19, Zenon

-----------------------------------------------------------------------------
(* Searching the receive buffer.                                           *)

\* The bytes in the buffer up to write_idx are the first l of e.
Window(k, l, e) ==
    /\ k.buffer \in Seq(Byte) /\ e \in Seq(Byte)
    /\ l \in Nat /\ l <= Len(e) /\ k.write_idx = l /\ l <= Len(k.buffer)
    /\ \A i \in 1..l : k.buffer[i] = e[i]

\* A part of a sequence.
LEMMA SubSeqIs ==
    ASSUME NEW S, NEW s \in Seq(S), NEW i \in Nat, NEW w \in Seq(S), i + Len(w) <= Len(s),
           \A j \in 1..Len(w) : s[i + j] = w[j]
    PROVE  SubSeq(s, i + 1, i + Len(w)) = w
<1> DEFINE t == SubSeq(s, i + 1, i + Len(w))  lw == Len(w)  ls == Len(s)
<1>1. lw \in Nat /\ ls \in Nat /\ i + lw <= ls
  OBVIOUS
<1>2. t = [j \in 1..lw |-> s[i + j]]
  <2>1. t = [j \in 1..((i + lw) - (i + 1) + 1) |-> s[(i + 1) + j - 1]]
    BY <1>1
  <2> HIDE DEF lw, t
  <2>2. (i + lw) - (i + 1) + 1 = lw /\ \A j \in 1..lw : (i + 1) + j - 1 = i + j
    BY <1>1
  <2> QED BY <2>1, <2>2
<1>3. w = [j \in 1..lw |-> w[j]]
  OBVIOUS
<1> HIDE DEF t, lw
<1>4. t = [j \in 1..lw |-> w[j]]
  BY <1>2 DEF lw
<1> QED BY <1>3, <1>4 DEF t, lw

\* A word of the request, in the buffer.
LEMMA WordIs ==
    ASSUME NEW k, NEW l, NEW e, Window(k, l, e), NEW x \in Nat, NEW w \in Seq(Byte), At(e, x, w),
           NEW lw, lw = Len(w), x + lw <= l
    PROVE  Word(k, x, x + lw) = w
<1> DEFINE s == k.buffer
<1>1. /\ s \in Seq(Byte) /\ l \in Nat /\ lw \in Nat /\ x + lw <= l /\ l <= Len(s) /\ Len(s) \in Nat
      /\ \A i \in 1..l : s[i] = e[i]
      /\ \A j \in 1..lw : e[x + j] = w[j]
  BY DEF Window, At
<1> HIDE DEF s
<1>2. ASSUME NEW j \in 1..lw PROVE s[x + j] = w[j]
  <2>1. x + j \in 1..l
    BY <1>1
  <2> QED BY <1>1, <2>1
<1>3. x + lw <= Len(s)
  BY <1>1
<1>4. SubSeq(s, x + 1, x + Len(w)) = w
  BY <1>1, <1>2, <1>3, SubSeqIs
<1> QED BY <1>4, Zenon DEF Word, s

\* What the smallest element of a set is.
LEMMA MinIs ==
    ASSUME NEW T, NEW x \in T, T \subseteq Nat, \A y \in T : x <= y
    PROVE  Min(T) = x
<1> DEFINE m == Min(T)
<1>1. \E z \in T : \A y \in T : z <= y
  OBVIOUS
<1>2. m \in T /\ \A y \in T : m <= y
  BY <1>1, Zenon DEF Min
<1> HIDE DEF m
<1>3. m \in Nat /\ x \in Nat /\ m <= x /\ x <= m
  BY <1>2
<1>4. m = x
  BY <1>3
<1> QED BY <1>4 DEF m

\* The word is at offset t of the first l bytes of e.
Occurs(e, l, word, t) == t + Len(word) <= l /\ \A j \in 1..Len(word) : e[t + j] = word[j]

\* Where std::find and std::search look.
LEMMA FoundIs ==
    ASSUME NEW k, NEW l, NEW e, Window(k, l, e), NEW q \in 0..l, NEW word \in Seq(Byte)
    PROVE  /\ (\A t \in q..l : ~Occurs(e, l, word, t)) => Find(k, q, word) = l
           /\ \A t \in q..l :
                 Occurs(e, l, word, t) /\ (\A u \in q..(t - 1) : ~Occurs(e, l, word, u))
                    => Find(k, q, word) = t
<1> DEFINE lw == Len(word)  s == k.buffer
           Here(t) == t + lw <= l /\ \A j \in 1..lw : e[t + j] = word[j]
           found == {x \in q..l : x + lw <= l /\ SubSeq(s, x + 1, x + lw) = word}
<1>1. /\ s \in Seq(Byte) /\ e \in Seq(Byte) /\ l \in Nat /\ lw \in Nat
      /\ k.write_idx = l /\ l <= Len(s) /\ Len(s) \in Nat /\ q \in Nat /\ q <= l
      /\ \A i \in 1..l : s[i] = e[i]
  BY DEF Window
<1>2. Find(k, q, word) = IF found = {} THEN l ELSE Min(found)
  BY <1>1, Zenon DEF Find
<1> HIDE DEF lw, s
<1>3. ASSUME NEW t \in q..l PROVE t \in found <=> Here(t)
  <2>1. t \in Nat
    BY <1>1
  <2>2. CASE t + lw <= l
    <3>1. t + lw <= Len(s)
      BY <1>1, <2>1, <2>2
    <3>2. \A j \in 1..lw : s[t + j] = e[t + j]
      <4> SUFFICES ASSUME NEW j \in 1..lw PROVE s[t + j] = e[t + j]
        OBVIOUS
      <4>1. t + j \in 1..l
        BY <1>1, <2>1, <2>2
      <4> QED BY <1>1, <4>1
    <3>3. ASSUME Here(t) PROVE SubSeq(s, t + 1, t + lw) = word
      <4>1. \A j \in 1..Len(word) : s[t + j] = word[j]
        BY <3>2, <3>3 DEF lw
      <4>2. t + Len(word) <= Len(s)
        BY <3>1 DEF lw
      <4> QED BY <4>1, <4>2, <1>1, <2>1, SubSeqIs, Zenon DEF lw
    <3>4. ASSUME SubSeq(s, t + 1, t + lw) = word, NEW j \in 1..lw
          PROVE  e[t + j] = word[j]
      <4>1. SubSeq(s, t + 1, t + lw)[j] = s[t + j]
        <5>2. SubSeq(s, t + 1, t + lw) = [i \in 1..((t + lw) - (t + 1) + 1) |-> s[(t + 1) + i - 1]]
          BY <1>1, <2>1, <3>1
        <5>3. (t + lw) - (t + 1) + 1 = lw /\ (t + 1) + j - 1 = t + j
          BY <1>1, <2>1
        <5> QED BY <5>2, <5>3
      <4> QED BY <3>4, <4>1, <3>2
    <3> QED BY <2>1, <2>2, <3>1, <3>3, <3>4
  <2>3. CASE ~(t + lw <= l)
    BY <2>3
  <2> QED BY <2>2, <2>3
<1>5. found \subseteq Nat /\ found \subseteq q..l
  BY <1>1
<1> HIDE DEF found, Here
<1>6. ASSUME \A t \in q..l : ~Here(t) PROVE Find(k, q, word) = l
  <2>1. found = {}
    BY <1>3, <1>5, <1>6
  <2> QED BY <1>2, <2>1
<1>7. ASSUME NEW t \in q..l, Here(t), \A u \in q..(t - 1) : ~Here(u)
      PROVE  Find(k, q, word) = t
  <2>1. t \in found
    BY <1>3, <1>7
  <2>2. ASSUME NEW y \in found PROVE t <= y
    <3>1. y \in q..l /\ Here(y)
      BY <1>3, <1>5
    <3>3. ~(y \in q..(t - 1))
      BY <3>1, <1>7
    <3> QED BY <3>1, <3>3, <1>1
  <2>3. Min(found) = t
    BY <2>1, <2>2, <1>5, MinIs
  <2> QED BY <1>2, <2>1, <2>3
<1>8. \A t : Here(t) <=> Occurs(e, l, word, t)
  BY DEF Here, Occurs, lw
<1> QED BY <1>6, <1>7, <1>8, Zenon

\* The byte c is not in e between q and t.
Without(e, q, t, c) == \A u \in (q + 1)..t : e[u] # c

\* std::find of a byte: the first one, or the end if none has arrived.
LEMMA FindByte ==
    ASSUME NEW k, NEW l, NEW e, Window(k, l, e), NEW q \in 0..l, NEW c \in Byte,
           NEW t \in Nat, q <= t, Without(e, q, t, c)
    PROVE  /\ l <= t => Find(k, q, <<c>>) = l
           /\ t < l /\ e[t + 1] = c => Find(k, q, <<c>>) = t
<1> DEFINE word == <<c>>
           Here(x) == Occurs(e, l, word, x)
<1>1. word \in Seq(Byte) /\ l \in Nat /\ q \in Nat
  BY DEF Window
<1>2. \A x \in Nat : Here(x) <=> x + 1 <= l /\ e[x + 1] = c
  BY DEF Occurs
<1>3. /\ (\A x \in q..l : ~Here(x)) => Find(k, q, word) = l
      /\ \A x \in q..l : Here(x) /\ (\A u \in q..(x - 1) : ~Here(u)) => Find(k, q, word) = x
  BY <1>1, FoundIs, Zenon
<1> HIDE DEF word, Here
<1>4. ASSUME NEW x \in q..(t - 1) PROVE ~Here(x)
  <2>1. x \in Nat /\ x + 1 \in (q + 1)..t
    BY <1>1
  <2> QED BY <2>1, <1>2 DEF Without
<1>5. CASE l <= t
  <2>1. \A x \in q..l : ~Here(x)
    <3> SUFFICES ASSUME NEW x \in q..l PROVE ~Here(x)
      OBVIOUS
    <3>1. x \in Nat /\ (x = l \/ x \in q..(t - 1))
      BY <1>1, <1>5
    <3>2. x = l => ~(x + 1 <= l)
      BY <1>1
    <3> QED BY <3>1, <3>2, <1>2, <1>4
  <2> QED BY <2>1, <1>3, <1>5, <1>1 DEF word
<1>6. CASE t < l /\ e[t + 1] = c
  <2>1. t \in q..l /\ t + 1 <= l
    BY <1>1, <1>6
  <2>2. Here(t)
    BY <1>2, <1>6, <2>1
  <2> QED BY <2>1, <2>2, <1>3, <1>4, <1>6, <1>1 DEF word
<1> QED BY <1>5, <1>6, <1>1

\* std::search of the end of a line.
LEMMA FindLineEnd ==
    ASSUME NEW k, NEW l, NEW e, Window(k, l, e), NEW q \in 0..l,
           NEW t \in Nat, q <= t, Without(e, q, t, CR)
    PROVE  /\ l < t + 2 => Find(k, q, CRLF) = l
           /\ t + 2 <= l /\ e[t + 1] = CR /\ e[t + 2] = LF => Find(k, q, CRLF) = t
<1> DEFINE word == CRLF
           Here(x) == Occurs(e, l, word, x)
<1>1. word \in Seq(Byte) /\ l \in Nat /\ q \in Nat
  BY Separators DEF Window
<1>2. \A x \in Nat : Here(x) <=> x + 2 <= l /\ e[x + 1] = CR /\ e[x + 2] = LF
  BY DEF CRLF, Occurs
<1>3. /\ (\A x \in q..l : ~Here(x)) => Find(k, q, word) = l
      /\ \A x \in q..l : Here(x) /\ (\A u \in q..(x - 1) : ~Here(u)) => Find(k, q, word) = x
  <2> HIDE DEF word
  <2> QED BY <1>1, FoundIs
<1> HIDE DEF word, Here
<1>4. ASSUME NEW x \in q..(t - 1) PROVE ~Here(x)
  <2>1. x \in Nat /\ x + 1 \in (q + 1)..t
    BY <1>1
  <2> QED BY <2>1, <1>2 DEF Without
<1>5. CASE l < t + 2
  <2>1. \A x \in q..l : ~Here(x)
    <3> SUFFICES ASSUME NEW x \in q..l PROVE ~Here(x)
      OBVIOUS
    <3>1. x \in Nat /\ (x >= t \/ x \in q..(t - 1))
      BY <1>1, <1>5
    <3>2. x >= t => ~(x + 2 <= l)
      BY <1>1, <1>5
    <3> QED BY <3>1, <3>2, <1>2, <1>4
  <2> QED BY <2>1, <1>3, <1>5, <1>1 DEF word
<1>6. CASE t + 2 <= l /\ e[t + 1] = CR /\ e[t + 2] = LF
  <2>1. t \in q..l
    BY <1>1, <1>6
  <2>2. Here(t)
    BY <1>2, <1>6, <2>1
  <2> QED BY <2>1, <2>2, <1>3, <1>4, <1>6, <1>1 DEF word
<1> QED BY <1>5, <1>6, <1>1
-----------------------------------------------------------------------------
(* The words of a request and what ends them.                              *)

\* A word that does not hold a byte, where it is in the request.
LEMMA WordWithout ==
    ASSUME NEW e, NEW p, NEW w \in Seq(Byte), At(e, p, w), NEW c, c \notin ToSet(w)
    PROVE  Without(e, p, p + Len(w), c)
<1> DEFINE lw == Len(w)
<1>1. p \in Nat /\ lw \in Nat /\ \A j \in 1..lw : e[p + j] = w[j]
  BY DEF At
<1>2. \A j \in 1..lw : w[j] # c
  BY DEF ToSet
<1> SUFFICES ASSUME NEW u \in (p + 1)..(p + lw) PROVE e[u] # c
  BY DEF Without
<1> HIDE DEF lw
<1>3. u - p \in 1..lw /\ p + (u - p) = u
  BY <1>1
<1>4. e[u] = w[u - p]
  BY <1>1, <1>3
<1> QED BY <1>2, <1>3, <1>4

\* A request the client may send, and where its parts are.
Sent(r, e, at) == r \in Requests /\ r \in Request /\ e = Encode(r) /\ Layout(r, e, at)

\* Each request of the client has a layout.
LEMMA RequestsSent ==
    ASSUME NEW r \in Requests
    PROVE  \E at : Sent(r, Encode(r), at)
<1>1. r \in Request
  BY RequestsAssumption DEF Request
<1> QED BY <1>1, RequestLayout, Zenon DEF Sent

\* The request line.
LEMMA RequestLineSent ==
    ASSUME NEW r, NEW e, NEW at, Sent(r, e, at)
    PROVE  LET uri     == Len(r.method) + 1
               version == uri + Len(r.request_uri) + 1
           IN  /\ r.method \in Methods /\ r.version \in Versions
               /\ r.method \in Seq(Byte) /\ r.request_uri \in Seq(Byte) /\ r.version \in Seq(Byte)
               /\ Without(e, 0, Len(r.method), SP) /\ e[Len(r.method) + 1] = SP
               /\ Without(e, uri, uri + Len(r.request_uri), SP)
               /\ e[(uri + Len(r.request_uri)) + 1] = SP
               /\ Without(e, version, version + Len(r.version), CR)
               /\ e[(version + Len(r.version)) + 1] = CR /\ e[(version + Len(r.version)) + 2] = LF
               /\ at[0] = version + Len(r.version) + 2
<1> DEFINE uri     == Len(r.method) + 1
           version == uri + Len(r.request_uri) + 1
<1>1. /\ r.method \in Methods /\ r.version \in Versions
      /\ r.method \in Seq(Byte) /\ r.request_uri \in Seq(Byte) /\ r.version \in Seq(Byte)
      /\ SP \notin ToSet(r.method) /\ SP \notin ToSet(r.request_uri) /\ CR \notin ToSet(r.version)
  BY RequestsAssumption DEF Sent, Request
<1>2. /\ At(e, 0, r.method) /\ At(e, Len(r.method), <<SP>>)
      /\ At(e, uri, r.request_uri) /\ At(e, uri + Len(r.request_uri), <<SP>>)
      /\ At(e, version, r.version) /\ At(e, version + Len(r.version), CRLF)
      /\ at[0] = version + Len(r.version) + 2
  BY Zenon DEF Sent, Layout
<1>3. ASSUME NEW p, At(e, p, <<SP>>) PROVE e[p + 1] = SP
  BY <1>3 DEF At
<1>4. ASSUME NEW p, At(e, p, CRLF) PROVE e[p + 1] = CR /\ e[p + 2] = LF
  BY <1>4 DEF At, CRLF
<1>5. 0 + Len(r.method) = Len(r.method)
  BY <1>1
<1>6. Without(e, 0, 0 + Len(r.method), SP)
  BY <1>1, <1>2, WordWithout, Zenon
<1>7. /\ Without(e, uri, uri + Len(r.request_uri), SP)
      /\ Without(e, version, version + Len(r.version), CR)
  BY <1>1, <1>2, WordWithout, Zenon
<1>8. /\ e[Len(r.method) + 1] = SP /\ e[(uri + Len(r.request_uri)) + 1] = SP
      /\ e[(version + Len(r.version)) + 1] = CR /\ e[(version + Len(r.version)) + 2] = LF
  BY <1>2, <1>3, <1>4, Zenon
<1> QED BY <1>1, <1>2, <1>5, <1>6, <1>7, <1>8, Zenon

\* The line of the i-th header is e from p to q.
LineIn(r, e, p, i, q) ==
    LET name == r.headers[i][1]  value == r.headers[i][2]
        colon == p + Len(name)  crlf == colon + 2 + Len(value)
    IN  /\ name \in Seq(Byte) /\ value \in Seq(Byte) /\ p \in Nat
        /\ At(e, p, name) /\ At(e, colon + 2, value)
        /\ Without(e, p, colon, COLON) /\ e[colon + 1] = COLON /\ e[colon + 2] = SP
        /\ Without(e, p, colon, CR) /\ Without(e, colon + 1, crlf, CR)
        /\ e[crlf + 1] = CR /\ e[crlf + 2] = LF
        /\ q = crlf + 2 /\ q <= Len(e)

\* The line of a header.
LEMMA HeaderLineSent ==
    ASSUME NEW r, NEW e, NEW at, Sent(r, e, at), NEW h \in 0..Len(r.headers), h < Len(r.headers)
    PROVE  LineIn(r, e, at[h], h + 1, at[h + 1])
<1> DEFINE i == h + 1
<1>0. Len(r.headers) \in Nat
  BY DEF Sent, Request
<1>9. i \in 1..Len(r.headers) /\ i - 1 = h
  BY <1>0
<1> HIDE DEF i
<1> DEFINE name == r.headers[i][1]  value == r.headers[i][2]  p == at[i - 1]
           colon == p + Len(name)  crlf == colon + 2 + Len(value)
<1>1. name \in Seq(Byte) /\ value \in Seq(Byte) /\ r.headers[i] \in ToSet(r.headers)
      /\ Len(r.headers) \in Nat
  <2>1. r.headers \in Seq(Seq(Byte) \X Seq(Byte))
    BY DEF Sent, Request
  <2>2. r.headers[i] \in Seq(Byte) \X Seq(Byte) /\ i \in DOMAIN r.headers
    BY <2>1, <1>9
  <2>3. r.headers[i] \in ToSet(r.headers)
    BY <2>2 DEF ToSet
  <2> QED BY <2>1, <2>2, <2>3
<1>2. COLON \notin ToSet(name) /\ CR \notin ToSet(name) /\ CR \notin ToSet(value)
  BY <1>1, RequestsAssumption, Zenon DEF Sent
<1>3. /\ At(e, p, name) /\ At(e, colon, <<COLON, SP>>) /\ At(e, colon + 2, value)
      /\ At(e, crlf, CRLF) /\ at[i] = crlf + 2 /\ e \in Seq(Byte)
  BY <1>9, Zenon DEF Sent, Layout
<1>4. e[colon + 1] = COLON /\ e[colon + 2] = SP
  <2>1. ASSUME NEW q, At(e, q, <<COLON, SP>>) PROVE e[q + 1] = COLON /\ e[q + 2] = SP
    BY <2>1 DEF At
  <2> QED BY <2>1, <1>3, Zenon
<1>5. e[crlf + 1] = CR /\ e[crlf + 2] = LF /\ crlf + 2 <= Len(e)
  <2>1. ASSUME NEW q, At(e, q, CRLF) PROVE e[q + 1] = CR /\ e[q + 2] = LF /\ q + 2 <= Len(e)
    BY <2>1 DEF At, CRLF
  <2> QED BY <2>1, <1>3, Zenon
<1>6. Without(e, p, colon, COLON) /\ Without(e, p, colon, CR)
      /\ Without(e, colon + 2, (colon + 2) + Len(value), CR)
  BY <1>1, <1>2, <1>3, WordWithout, Zenon
<1>7. p \in Nat /\ Len(name) \in Nat /\ Len(value) \in Nat
  <2> HIDE DEF name, value, p
  <2>1. p \in Nat
    BY <1>3, Zenon DEF At
  <2> QED BY <1>1, <2>1
<1>8. Without(e, colon + 1, crlf, CR)
  <2> DEFINE lv == Len(value)
  <2>1. colon \in Nat /\ lv \in Nat
    BY <1>7
  <2> HIDE DEF colon, lv
  <2> SUFFICES ASSUME NEW u \in ((colon + 1) + 1)..(colon + 2 + lv) PROVE e[u] # CR
    BY DEF Without, lv
  <2>2. u = colon + 2 \/ u \in ((colon + 2) + 1)..((colon + 2) + lv)
    BY <2>1
  <2>3. SP # CR
    BY DEF SP, CR
  <2>4. \A x \in ((colon + 2) + 1)..((colon + 2) + lv) : e[x] # CR
    BY <1>6 DEF Without, lv
  <2> QED BY <2>2, <2>3, <2>4, <1>4
<1>10. LineIn(r, e, p, i, at[i])
  <2> HIDE DEF p
  <2> QED BY <1>1, <1>3, <1>4, <1>5, <1>6, <1>7, <1>8, Zenon DEF LineIn
<1> QED BY <1>9, <1>10, Zenon DEF i
-----------------------------------------------------------------------------
(* The parser on a request of which the first l bytes have arrived.        *)

Buf(w, i, l) == [buffer |-> w, read_idx |-> i, write_idx |-> l]

Req(m, u, v, h, b, t) ==
    [method |-> m, request_uri |-> u, version |-> v, headers |-> h, body |-> b,
     is_body_truncated |-> t]

Dec(k, s, q) == [buf |-> k, state |-> s, req |-> q, body_max_bytes |-> BodyMaxBytes]

\* A request under way: no body yet.
NotTruncated == FALSE
Building(m, u, v, h) == Req(m, u, v, h, <<>>, NotTruncated)

\* There are zeros where the rest of e will be.
Clear(e, w, l) == \A i \in (l + 1)..Len(e) : w[i] = 0

\* The first l bytes of the request are in the buffer.  As long as some are missing,
\* the method is short enough, nothing of the body is there, and the bytes at which
\* ParseHeaders looks have arrived or are zero.
Arrived(r, e, w, l) ==
    /\ Window(Buf(w, 0, l), l, e)
    /\ l # Len(e) => /\ Len(r.method) < MethodLimit /\ l < Len(e) - Len(r.body)
                     /\ Len(e) <= Len(w) /\ (Clear(e, w, l) \/ ~LooksAhead(e, l))

\* Only the bytes and write_idx matter to a search.
LEMMA WindowOf ==
    ASSUME NEW w, NEW i, NEW j, NEW l, NEW e, Window(Buf(w, i, l), l, e)
    PROVE  Window(Buf(w, j, l), l, e)
BY DEF Window, Buf

\* ParseRequestLine waits until the line is complete, and then has its words.
LEMMA RequestLineParsed ==
    ASSUME NEW r, NEW e, NEW at, Sent(r, e, at), NEW w, NEW l, Arrived(r, e, w, l),
           NEW m, NEW u, NEW v, NEW h
    PROVE  LET dec == Dec(Buf(w, 0, l), "ExpectRequestLine", Building(m, u, v, h))
           IN  /\ l < at[0] =>
                    \E m1, u1 : ParseRequestLine(dec) =
                        Dec(Buf(w, 0, l), "ExpectRequestLine", Building(m1, u1, v, h))
               /\ at[0] <= l =>
                    ParseRequestLine(dec) =
                        Dec(Buf(w, at[0], l), "ExpectHeaders",
                            Building(r.method, r.request_uri, r.version, h))
<1> DEFINE k == Buf(w, 0, l)
           dec == Dec(k, "ExpectRequestLine", Building(m, u, v, h))
           lm == Len(r.method)  lu == Len(r.request_uri)  lv == Len(r.version)
           uri == lm + 1  ver == uri + lu + 1
           sp1 == Find(k, 0, <<SP>>)
           sp2 == Find(k, sp1 + 1, <<SP>>)
           crlf == Find(k, sp2 + 1, CRLF)
           method == Word(k, 0, sp1)
           version == Word(k, sp2 + 1, crlf)
           dropped == [dec EXCEPT !.buf = B!DropAllBytes(k)]
           atUri == [dec EXCEPT !.req.method = method]
           atVersion == [atUri EXCEPT !.req.request_uri = Word(k, sp1 + 1, sp2)]
           line == [atVersion EXCEPT !.req.version = version,
                                     !.buf = B!DropBytesUntil(k, crlf + 2),
                                     !.state = "ExpectHeaders"]
           whole == Dec(Buf(w, at[0], l), "ExpectHeaders",
                        Building(r.method, r.request_uri, r.version, h))
<1>1. /\ r.method \in Methods /\ r.version \in Versions
      /\ r.method \in Seq(Byte) /\ r.request_uri \in Seq(Byte) /\ r.version \in Seq(Byte)
      /\ Without(e, 0, lm, SP) /\ e[lm + 1] = SP
      /\ Without(e, uri, uri + lu, SP)
      /\ e[(uri + lu) + 1] = SP
      /\ Without(e, ver, ver + lv, CR)
      /\ e[(ver + lv) + 1] = CR /\ e[(ver + lv) + 2] = LF
      /\ at[0] = ver + lv + 2
  BY RequestLineSent, Zenon
<1>2. lm \in Nat /\ lu \in Nat /\ lv \in Nat
  BY <1>1
<1> DEFINE d1 == Dec(k, "ExpectRequestLine", Building(method, u, v, h))
           d2 == Dec(k, "ExpectRequestLine", Building(method, Word(k, sp1 + 1, sp2), v, h))
           d3 == Dec(B!DropBytesUntil(k, crlf + 2), "ExpectHeaders",
                     Building(method, Word(k, sp1 + 1, sp2), version, h))
<1>21. atUri = d1 /\ atVersion = d2 /\ line = d3
  <2> HIDE DEF k, sp1, sp2, crlf, method, version
  <2>1. atUri = d1
    BY DEF Dec, Building, Req
  <2> HIDE DEF atUri
  <2>2. atVersion = d2
    BY <2>1 DEF Dec, Building, Req
  <2> HIDE DEF atVersion
  <2>3. line = d3
    <3> DEFINE y == B!DropBytesUntil(k, crlf + 2)  x == Word(k, sp1 + 1, sp2)
    <3> HIDE DEF y, x
    <3>1. atVersion = Dec(k, "ExpectRequestLine", Building(method, x, v, h))
      BY <2>2 DEF x
    <3>2. [atVersion EXCEPT !.req.version = version, !.buf = y, !.state = "ExpectHeaders"]
            = Dec(y, "ExpectHeaders", Building(method, x, version, h))
      <4> DEFINE z == "ExpectHeaders"
      <4> HIDE DEF z
      <4> DEFINE d4 == [atVersion EXCEPT !.req.version = version]
                 d5 == [d4 EXCEPT !.buf = y]
      <4>2. d4 = Dec(k, "ExpectRequestLine", Building(method, x, version, h))
        BY <3>1 DEF Dec, Building, Req
      <4> HIDE DEF d4
      <4>3. d5 = Dec(y, "ExpectRequestLine", Building(method, x, version, h))
        BY <4>2 DEF Dec
      <4> HIDE DEF d5
      <4>4. [d5 EXCEPT !.state = z] = Dec(y, z, Building(method, x, version, h))
        BY <4>3 DEF Dec
      <4>1. [atVersion EXCEPT !.req.version = version, !.buf = y, !.state = z]
            = Dec(y, z, Building(method, x, version, h))
        <5>1. [atVersion EXCEPT !.req.version = version, !.buf = y, !.state = z]
                = [[[atVersion EXCEPT !.req.version = version] EXCEPT !.buf = y] EXCEPT !.state = z]
          OBVIOUS
        <5> QED BY <5>1, <4>4 DEF d5, d4
      <4> QED BY <4>1 DEF z
    <3> QED BY <3>2, Zenon DEF x, y
  <2> QED BY <2>1, <2>2, <2>3
<1>22. lm = Len(r.method) /\ lu = Len(r.request_uri) /\ lv = Len(r.version)
  OBVIOUS
<1>3. Window(k, l, e) /\ l \in Nat /\ (lm >= MethodLimit => l = Len(e)) /\ l <= Len(e)
      /\ MethodLimit \in Nat
  BY <1>2, SizesAssumption DEF Arrived, Window
<1>4. At(e, 0, r.method) /\ At(e, uri, r.request_uri) /\ At(e, ver, r.version)
      /\ Len(e) >= at[0]
  <2>1. /\ At(e, 0, r.method) /\ At(e, uri, r.request_uri) /\ At(e, ver, r.version)
        /\ At(e, ver + lv, CRLF)
    BY Zenon DEF Sent, Layout
  <2>2. ASSUME NEW q, At(e, q, CRLF) PROVE q + 2 <= Len(e)
    BY <2>2 DEF At, CRLF
  <2>3. (ver + lv) + 2 <= Len(e) /\ Len(e) \in Nat
    <3>1. e \in Seq(Byte)
      BY Zenon DEF Sent, Layout
    <3>2. Len(e) \in Nat
      BY <3>1
    <3> QED BY <2>1, <2>2, <3>2, Zenon
  <2> QED BY <2>1, <2>3, <1>1, <1>2
<1>5. SP \in Byte
  BY DEF SP, Byte
<1>6. /\ dec.buf = k /\ k.write_idx = l /\ k.read_idx = 0 /\ B!ReadableBytes(k) = l
  BY <1>3 DEF Dec, Buf, B!ReadableBytes
<1>7. ParseRequestLine(dec) =
        CASE sp1 = l -> IF l >= MethodLimit THEN dropped ELSE dec
          [] sp1 # l /\ method \notin Methods -> dropped
          [] sp1 # l /\ method \in Methods /\ sp2 = l -> atUri
          [] sp1 # l /\ method \in Methods /\ sp2 # l /\ crlf = l -> atVersion
          [] OTHER -> IF version \in Versions THEN line ELSE [atVersion EXCEPT !.state = "Thrown"]
  <2> HIDE DEF k
  <2> QED BY <1>6, Zenon DEF ParseRequestLine
<1> HIDE DEF k, lm, lu, lv
<1>8. CASE l <= lm
  <2>1. sp1 = l
    <3>1. 0 \in 0..l /\ 0 <= lm
      BY <1>2, <1>3
    <3>2. Without(e, 0, lm, SP) /\ Window(k, l, e) /\ lm \in Nat
      BY <1>1, <1>2, <1>3
    <3> QED BY <1>5, <1>8, <3>1, <3>2, FindByte
  <2>2. l < at[0] /\ l < MethodLimit /\ ~(at[0] <= l)
    <3>1. at[0] = ((lm + 1) + lu + 1) + lv + 2
      BY <1>1
    <3>2. at[0] \in Nat /\ l < at[0]
      BY <1>2, <1>3, <1>8, <3>1
    <3>3. l # Len(e)
      BY <1>3, <1>4, <3>2
    <3>4. lm < MethodLimit
      BY <1>2, <1>3, <3>3
    <3> QED BY <1>2, <1>3, <1>8, <3>2, <3>4
  <2>3. ParseRequestLine(dec) = dec
    <3> HIDE DEF sp1, dropped, dec, atUri, atVersion, line, method, sp2, crlf, version
    <3>1. ~(l >= MethodLimit)
      BY <2>2, <1>3
    <3> QED BY <1>7, <2>1, <3>1
  <2> QED BY <2>2, <2>3, Zenon DEF k
<1>9. CASE lm < l
  <2>1. sp1 = lm /\ sp1 # l
    <3>1. 0 \in 0..l /\ 0 <= lm /\ lm # l
      BY <1>2, <1>3, <1>9
    <3>2. Without(e, 0, lm, SP) /\ Window(k, l, e) /\ lm \in Nat /\ e[lm + 1] = SP
      BY <1>1, <1>2, <1>3
    <3>3. sp1 = lm
      BY <1>5, <1>9, <3>1, <3>2, FindByte
    <3> QED BY <3>1, <3>3, Zenon
  <2> HIDE DEF sp1
  <2>2. method = r.method /\ method \in Methods
    <3>1. 0 + lm = lm /\ 0 + lm <= l /\ 0 \in Nat
      BY <1>2, <1>3, <1>9
    <3>2. Word(k, 0, 0 + lm) = r.method
      BY <1>1, <1>3, <1>4, <1>22, <3>1, WordIs
    <3> QED BY <2>1, <3>1, <3>2, <1>1, Zenon
  <2> HIDE DEF method
  <2>3. sp1 + 1 = uri /\ uri \in 0..l /\ uri + lu \in Nat /\ uri <= uri + lu
    BY <2>1, <1>2, <1>3, <1>9
  <2>4. CASE l <= uri + lu
    <3>1. sp2 = l
      BY <1>1, <1>3, <1>5, <2>3, <2>4, FindByte
    <3>2. l < at[0] /\ ~(at[0] <= l)
      BY <1>1, <1>2, <1>3, <2>4
    <3>3. ParseRequestLine(dec) = atUri
      <4> HIDE DEF dropped, dec, atUri, atVersion, line, sp2, crlf, version
      <4> QED BY <1>7, <2>1, <2>2, <3>1
    <3>4. atUri = Dec(k, "ExpectRequestLine", Building(r.method, u, v, h))
      BY <2>2, <1>21, Zenon
    <3> QED BY <3>2, <3>3, <3>4, Zenon DEF k
  <2>5. CASE uri + lu < l
    <3>1. sp2 = uri + lu
      BY <1>1, <1>3, <1>5, <2>3, <2>5, FindByte
    <3>2. sp2 # l
      BY <3>1, <2>5, <2>3, <1>3
    <3> HIDE DEF sp2
    <3>3. Word(k, sp1 + 1, sp2) = r.request_uri
      <4>1. uri + lu <= l /\ uri \in Nat
        BY <2>3, <2>5, <1>2, <1>3
      <4>2. Word(k, uri, uri + lu) = r.request_uri
        <5>1. At(e, uri, r.request_uri) /\ r.request_uri \in Seq(Byte) /\ lu = Len(r.request_uri)
          BY <1>1, <1>4, <1>22, Zenon
        <5> HIDE DEF uri, ver
        <5> QED BY <5>1, <1>3, <4>1, WordIs, ZenonT(60)
      <4> QED BY <2>3, <3>1, <4>2, Zenon
    <3>4. sp2 + 1 = ver /\ ver \in 0..l /\ ver + lv \in Nat /\ ver <= ver + lv
      BY <3>1, <2>5, <2>3, <1>2, <1>3
    <3>5. CASE l < at[0]
      <4>1. l < (ver + lv) + 2
        BY <1>1, <1>2, <3>5
      <4>2. crlf = l
        BY <1>1, <1>3, <3>4, <4>1, FindLineEnd
      <4>3. ParseRequestLine(dec) = atVersion
        <5> HIDE DEF dropped, dec, atUri, atVersion, line, crlf, version
        <5> QED BY <1>7, <2>1, <2>2, <3>2, <4>2
      <4>4. atVersion = Dec(k, "ExpectRequestLine", Building(r.method, r.request_uri, v, h))
        BY <2>2, <3>3, <1>21, Zenon
      <4>5. ~(at[0] <= l)
        BY <3>5, <1>1, <1>2, <1>3
      <4> QED BY <3>5, <4>3, <4>4, <4>5, Zenon DEF k
    <3>6. CASE at[0] <= l
      <4>1. (ver + lv) + 2 <= l /\ ~(l < at[0])
        BY <1>1, <1>2, <1>3, <3>6
      <4>2. crlf = ver + lv
        BY <1>1, <1>3, <3>4, <4>1, FindLineEnd
      <4>3. crlf # l /\ crlf + 2 = at[0]
        BY <4>1, <4>2, <1>1, <1>2, <1>3
      <4>4. version = r.version
        <5>1. ver + lv <= l /\ ver \in Nat
          BY <3>4, <4>1, <1>2, <1>3
        <5>2. Word(k, ver, ver + lv) = r.version
          <6>1. At(e, ver, r.version) /\ r.version \in Seq(Byte) /\ lv = Len(r.version)
            BY <1>1, <1>4, <1>22, Zenon
          <6> HIDE DEF uri, ver
          <6> QED BY <6>1, <1>3, <5>1, WordIs, ZenonT(60)
        <5> QED BY <3>4, <4>2, <5>2, Zenon
      <4> HIDE DEF crlf, version
      <4>5. ParseRequestLine(dec) = line
        <5> HIDE DEF dropped, dec, atUri, atVersion, line
        <5> QED BY <1>7, <1>1, <2>1, <2>2, <3>2, <4>3, <4>4
      <4>6. B!DropBytesUntil(k, crlf + 2) = Buf(w, at[0], l)
        BY <4>3 DEF B!DropBytesUntil, Buf, k
      <4>7. line = whole
        BY <2>2, <3>3, <4>4, <4>6, <1>21, Zenon
      <4> QED BY <4>1, <4>5, <4>7, Zenon DEF k
    <3> QED BY <3>5, <3>6, <1>1, <1>2, <1>3
  <2> QED BY <2>4, <2>5, <2>3, <1>3
<1> QED BY <1>8, <1>9, <1>2, <1>3
-----------------------------------------------------------------------------
(* The headers.                                                            *)

\* The names of the first i headers, each with its first value.
Firsts(hs, i) ==
    [n \in {FoldCase(hs[j][1]) : j \in 1..i} |->
        hs[Min({j \in 1..i : FoldCase(hs[j][1]) = n})][2]]

\* All of them are what the application should see.
LEMMA FirstOfIs ==
    ASSUME NEW S, NEW hs \in Seq(S)
    PROVE  FirstOf(hs) = Firsts(hs, Len(hs))
<1> DEFINE m == Len(hs)
<1>1. DOMAIN hs = 1..m
  OBVIOUS
<1>2. {FoldCase(h[1]) : h \in ToSet(hs)} = {FoldCase(hs[j][1]) : j \in 1..m}
  BY <1>1, Zenon DEF ToSet
<1>3. FirstOf(hs) = [n \in {FoldCase(h[1]) : h \in ToSet(hs)} |->
                       hs[Min({j \in DOMAIN hs : FoldCase(hs[j][1]) = n})][2]]
  BY Zenon DEF FirstOf
<1> HIDE DEF m
<1> QED BY <1>1, <1>2, <1>3, Zenon DEF Firsts, m

\* None.
LEMMA FirstsOfNone ==
    ASSUME NEW hs
    PROVE  Firsts(hs, 0) = <<>>
<1>1. {FoldCase(hs[j][1]) : j \in 1..0} = {}
  OBVIOUS
<1>2. Firsts(hs, 0) = [n \in {} |-> hs[Min({j \in 1..0 : FoldCase(hs[j][1]) = n})][2]]
  BY <1>1, Zenon DEF Firsts
<1>3. <<>> = [n \in {} |-> hs[Min({j \in 1..0 : FoldCase(hs[j][1]) = n})][2]]
  <2>1. DOMAIN <<>> = {} /\ <<>> = [n \in DOMAIN <<>> |-> <<>>[n]]
    OBVIOUS
  <2>2. [n \in {} |-> <<>>[n]] = [n \in {} |-> hs[Min({j \in 1..0 : FoldCase(hs[j][1]) = n})][2]]
    BY Zenon
  <2> QED BY <2>1, <2>2, Zenon
<1> QED BY <1>2, <1>3, Zenon

\* headers.emplace of one more.
LEMMA FirstsStep ==
    ASSUME NEW hs, NEW i \in Nat
    PROVE  AddHeader(Firsts(hs, i), hs[i + 1][1], hs[i + 1][2]) = Firsts(hs, i + 1)
<1> DEFINE f == Firsts(hs, i)  name == FoldCase(hs[i + 1][1])  value == hs[i + 1][2]
           T(n, m) == {j \in 1..m : FoldCase(hs[j][1]) = n}
           D(m) == {FoldCase(hs[j][1]) : j \in 1..m}
           F(n, m) == hs[Min(T(n, m))][2]
<1>1. f = [n \in D(i) |-> F(n, i)] /\ Firsts(hs, i + 1) = [n \in D(i + 1) |-> F(n, i + 1)]
  BY Zenon DEF Firsts
<1>2. D(i + 1) = D(i) \union {name}
  <2>1. 1..(i + 1) = 1..i \union {i + 1}
    OBVIOUS
  <2> QED BY <2>1
<1>3. ASSUME NEW n \in D(i) PROVE F(n, i) = F(n, i + 1)
  <2>1. T(n, i) \subseteq Nat /\ T(n, i) # {} /\ T(n, i + 1) \subseteq Nat
    OBVIOUS
  <2>2. PICK x \in T(n, i) : \A y \in T(n, i) : x <= y
    <3> HIDE DEF T
    <3> QED BY <2>1, Smallest, Zenon
  <2>3. Min(T(n, i)) = x
    <3> HIDE DEF T
    <3> QED BY <2>1, <2>2, MinIs, Zenon
  <2>4. x \in T(n, i + 1) /\ \A y \in T(n, i + 1) : x <= y
    BY <2>2
  <2>5. Min(T(n, i + 1)) = x
    <3> HIDE DEF T
    <3> QED BY <2>1, <2>4, MinIs, Zenon
  <2> QED BY <2>3, <2>5, Zenon
<1>4. ASSUME name \notin D(i) PROVE F(name, i + 1) = value
  <2>1. i + 1 \in T(name, i + 1) /\ T(name, i + 1) \subseteq Nat /\ \A y \in T(name, i + 1) : i + 1 <= y
    BY <1>4
  <2>2. Min(T(name, i + 1)) = i + 1
    <3> HIDE DEF T
    <3> QED BY <2>1, MinIs, Zenon
  <2> QED BY <2>2, Zenon
<1>5. AddHeader(f, hs[i + 1][1], value) =
        [n \in D(i) \union {name} |-> IF n \in D(i) THEN f[n] ELSE value]
  <2>1. DOMAIN f = D(i)
    BY <1>1
  <2> HIDE DEF f, D
  <2> QED BY <2>1, Zenon DEF AddHeader
<1>6. ASSUME NEW n \in D(i) \union {name}
      PROVE  F(n, i + 1) = IF n \in D(i) THEN f[n] ELSE value
  <2>1. CASE n \in D(i)
    <3>1. f[n] = F(n, i)
      BY <1>1, <2>1, Zenon
    <3> QED BY <3>1, <2>1, <1>3
  <2>2. CASE n \notin D(i)
    BY <2>2, <1>4
  <2> QED BY <2>1, <2>2
<1> HIDE DEF F, D, f
<1> QED BY <1>1, <1>2, <1>5, <1>6, Zenon DEF f

\* What lies behind the vector is bytes.
LEMMA BeyondBytes == ASSUME NEW beyond \in Beyond PROVE beyond \in Seq(Byte)
<1>1. ASSUME NEW n \in Nat PROVE [i \in 1..n |-> 0] \in Seq(Byte)
  <2>1. [i \in 1..n |-> 0] \in [1..n -> Byte]
    BY DEF Byte
  <2> QED BY <2>1, SeqDef
<1>2. [i \in 1..14 |-> 0] \in Seq(Byte) /\ [i \in 1..12 |-> 0] \in Seq(Byte)
  BY <1>1
<1>3. CRLF \o [i \in 1..12 |-> 0] \in Seq(Byte)
  BY <1>2, Separators, AtConcat, Zenon
<1> QED BY <1>2, <1>3, Zenon DEF Beyond

\* There is room for the whole request, and two bytes behind each header.
Room(r, e, at, w, l, i) ==
    /\ w \in Seq(Byte) /\ l \in Nat /\ Len(e) \in Nat /\ Len(w) \in Nat /\ l <= Len(e)
    /\ Len(e) <= Len(w) /\ Len(r.headers) \in Nat
    /\ \A j \in 1..l : w[j] = e[j]
    /\ l # Len(e) => Clear(e, w, l) \/ ~LooksAhead(e, l)
    /\ at[i] \in Nat /\ at[i] + 2 <= Len(e)
    /\ i = Len(r.headers) => e[at[i] + 1] = CR /\ e[at[i] + 2] = LF
    /\ i < Len(r.headers) =>
          at[i + 1] \in Nat /\ at[i] + 4 <= at[i + 1] /\ LineIn(r, e, at[i], i + 1, at[i + 1])

\* What has arrived of a request leaves that room.
LEMMA RoomForEnd ==
    ASSUME NEW r, NEW e, NEW at, Sent(r, e, at), NEW w, NEW l, Arrived(r, e, w, l),
           NEW i \in 0..Len(r.headers)
    PROVE  Room(r, e, at, w, l, i)
<1>1. /\ w \in Seq(Byte) /\ e \in Seq(Byte) /\ l \in Nat /\ l <= Len(e) /\ l <= Len(w)
      /\ \A j \in 1..l : w[j] = e[j]
      /\ l # Len(e) => Len(e) <= Len(w) /\ (Clear(e, w, l) \/ ~LooksAhead(e, l))
  BY DEF Arrived, Window, Buf
<1>2. Len(e) \in Nat /\ Len(w) \in Nat /\ Len(e) <= Len(w)
  BY <1>1
<1>3. Len(r.headers) \in Nat
  BY DEF Sent, Request
<1>4. at \in [0..Len(r.headers) -> Nat] /\ At(e, at[Len(r.headers)], CRLF)
  BY Zenon DEF Sent, Layout
<1>5. at[i] \in Nat
  BY <1>4
<1>6. CASE i = Len(r.headers)
  <2>1. ASSUME NEW q, At(e, q, CRLF) PROVE e[q + 1] = CR /\ e[q + 2] = LF /\ q + 2 <= Len(e)
    BY <2>1 DEF At, CRLF
  <2>2. e[at[i] + 1] = CR /\ e[at[i] + 2] = LF /\ at[i] + 2 <= Len(e) /\ ~(i < Len(r.headers))
    BY <2>1, <1>3, <1>4, <1>6
  <2> QED BY <1>1, <1>2, <1>3, <1>5, <2>2 DEF Room
<1>7. CASE i # Len(r.headers)
  <2> DEFINE n == Len(r.headers)  name == r.headers[i + 1][1]  value == r.headers[i + 1][2]
             x == Len(name)  y == Len(value)
  <2>1. i < n /\ LineIn(r, e, at[i], i + 1, at[i + 1])
    <3>1. i < n
      BY <1>3, <1>7
    <3> QED BY <3>1, HeaderLineSent
  <2>2. /\ name \in Seq(Byte) /\ value \in Seq(Byte)
        /\ at[i + 1] = ((at[i] + x) + 2 + y) + 2 /\ at[i + 1] <= Len(e)
    BY <2>1, Zenon DEF LineIn
  <2>3. x \in Nat /\ y \in Nat
    BY <2>2, SMTT(40)
  <2> DEFINE a == at[i]  z == at[i + 1]
  <2> HIDE DEF x, y, name, value, n, a, z
  <2>4. a \in Nat /\ z = ((a + x) + 2 + y) + 2 /\ z <= Len(e)
    BY <2>2, <1>5 DEF a, z
  <2>5. z \in Nat /\ a + 4 <= z /\ a + 2 <= Len(e)
    BY <2>3, <2>4, <1>2
  <2> QED BY <1>1, <1>2, <1>3, <1>5, <1>7, <2>1, <2>5 DEF n, a, z, Room
<1> QED BY <1>6, <1>7

\* The request line and each header end with CRLF.
LEMMA LineBegins ==
    ASSUME NEW r, NEW e, NEW at, Sent(r, e, at), NEW i \in 0..Len(r.headers)
    PROVE  LineStart(e, at[i])
<1> DEFINE last == Len(r.headers)
<1>1. r \in Request /\ last \in Nat
  BY DEF Sent, Request
<1>2. ASSUME NEW p \in Nat, At(e, p, CRLF) PROVE LineStart(e, p + 2)
  <2>1. e[p + 1] = CR /\ e[p + 2] = LF
    BY <1>2 DEF At, CRLF
  <2>2. (p + 2) - 1 = p + 1 /\ p + 2 >= 2
    OBVIOUS
  <2> QED BY <2>1, <2>2 DEF LineStart
<1>3. CASE i = 0
  <2> DEFINE x == Len(r.method)  y == Len(r.request_uri)  z == Len(r.version)
             p == x + 1 + y + 1 + z
  <2>1. At(e, p, CRLF) /\ at[0] = p + 2
    BY Zenon DEF Sent, Layout
  <2>2. p \in Nat
    <3>1. x \in Nat /\ y \in Nat /\ z \in Nat
      BY <1>1 DEF Request
    <3> HIDE DEF x, y, z
    <3> QED BY <3>1
  <2> HIDE DEF p
  <2> QED BY <1>2, <1>3, <2>1, <2>2
<1>4. CASE i # 0
  <2> DEFINE h == i - 1
  <2>1. h \in 0..last /\ h < last /\ h + 1 = i
    BY <1>1, <1>4
  <2> HIDE DEF h
  <2> DEFINE name == r.headers[h + 1][1]  value == r.headers[h + 1][2]
             crlf == at[h] + Len(name) + 2 + Len(value)
  <2>2. LineIn(r, e, at[h], h + 1, at[h + 1])
    BY <2>1, HeaderLineSent
  <2>3. /\ name \in Seq(Byte) /\ value \in Seq(Byte) /\ at[h] \in Nat
        /\ e[crlf + 1] = CR /\ e[crlf + 2] = LF /\ at[h + 1] = crlf + 2
    BY <2>2, Zenon DEF LineIn
  <2>4. crlf \in Nat
    <3>1. Len(name) \in Nat /\ Len(value) \in Nat /\ at[h] \in Nat
      BY <2>3, SMTT(40)
    <3> HIDE DEF name, value
    <3> QED BY <3>1
  <2> HIDE DEF crlf
  <2>5. (crlf + 2) - 1 = crlf + 1 /\ crlf + 2 >= 2
    BY <2>4
  <2>6. LineStart(e, crlf + 2)
    BY <2>3, <2>5 DEF LineStart
  <2> QED BY <2>1, <2>3, <2>6
<1> QED BY <1>3, <1>4

\* The loop of ParseHeaders finds the end of the headers when both its bytes have
\* arrived, and in no other line.
LEMMA EndOfHeadersSeen ==
    ASSUME NEW r, NEW e, NEW at, Sent(r, e, at), NEW w, NEW l, Arrived(r, e, w, l),
           NEW i \in 0..Len(r.headers), at[i] <= l, NEW beyond \in Beyond
    PROVE  EndOfHeaders(Buf(w, at[i], l), beyond) <=> i = Len(r.headers) /\ at[i] + 2 <= l
<1> DEFINE mem == w \o beyond  a == at[i]  last == Len(r.headers)  le == Len(e)  lw == Len(w)
<1>1. /\ w \in Seq(Byte) /\ l \in Nat /\ le \in Nat /\ lw \in Nat /\ l <= le
      /\ le <= lw /\ last \in Nat
      /\ \A j \in 1..l : w[j] = e[j]
      /\ l # le => (\A j \in (l + 1)..le : w[j] = 0) \/ ~LooksAhead(e, l)
      /\ a \in Nat /\ a + 2 <= le /\ a <= l
      /\ i = last => e[a + 1] = CR /\ e[a + 2] = LF
      /\ i < last => LineIn(r, e, a, i + 1, at[i + 1])
  <2>1. Room(r, e, at, w, l, i)
    BY RoomForEnd
  <2> QED BY <2>1 DEF Room, Clear
<1>2. beyond \in Seq(Byte)
  BY BeyondBytes
<1>3. mem \in Seq(Byte) /\ Len(mem) = lw + Len(beyond) /\ Len(beyond) \in Nat
      /\ \A j \in 1..lw : mem[j] = w[j]
  BY <1>1, <1>2
<1> HIDE DEF le, lw, mem
<1>4. SubSeq(mem, a + 1, a + 2) = CRLF <=> w[a + 1] = CR /\ w[a + 2] = LF
  <2> HIDE DEF a
  <2>1. SubSeq(mem, a + 1, a + 2) = [j \in 1..((a + 2) - (a + 1) + 1) |-> mem[(a + 1) + j - 1]]
    BY <1>1, <1>3
  <2>2. (a + 2) - (a + 1) + 1 = 2 /\ (a + 1) + 1 - 1 = a + 1 /\ (a + 1) + 2 - 1 = a + 2
        /\ a + 1 \in 1..lw /\ a + 2 \in 1..lw
    BY <1>1
  <2>3. mem[a + 1] = w[a + 1] /\ mem[a + 2] = w[a + 2]
    BY <1>3, <2>2
  <2>4. CRLF = [j \in 1..2 |-> IF j = 1 THEN CR ELSE LF]
    BY DEF CRLF
  <2> DEFINE s == [j \in 1..2 |-> mem[(a + 1) + j - 1]]
  <2>5. SubSeq(mem, a + 1, a + 2) = s /\ s[1] = w[a + 1] /\ s[2] = w[a + 2]
    <3>1. SubSeq(mem, a + 1, a + 2) = s
      BY <2>1, <2>2, Zenon
    <3>2. s[1] = mem[(a + 1) + 1 - 1] /\ s[2] = mem[(a + 1) + 2 - 1]
      OBVIOUS
    <3> QED BY <2>2, <2>3, <3>1, <3>2, Zenon
  <2>6. CRLF[1] = CR /\ CRLF[2] = LF
    BY Separators
  <2>7. s = [j \in 1..2 |-> s[j]]
    OBVIOUS
  <2>8. \A j \in 1..2 : j = 1 \/ j = 2
    OBVIOUS
  <2> HIDE DEF s
  <2>9. ASSUME w[a + 1] = CR, w[a + 2] = LF PROVE s = CRLF
    <3>1. \A j \in 1..2 : s[j] = IF j = 1 THEN CR ELSE LF
      BY <2>5, <2>8, <2>9
    <3> QED BY <3>1, <2>4, <2>7
  <2> QED BY <2>5, <2>6, <2>9
<1>5. EndOfHeaders(Buf(w, a, l), beyond) <=> SubSeq(mem, a + 1, a + 2) = CRLF
  BY DEF EndOfHeaders, Memory, Buf, mem
<1>6. CR # 0 /\ LF # 0 /\ CR # COLON
  BY DEF CR, LF, COLON
<1>7. CASE i = last /\ a + 2 <= l
  <2>1. a + 1 \in 1..l /\ a + 2 \in 1..l
    BY <1>1, <1>7
  <2> QED BY <1>1, <1>4, <1>5, <1>7, <2>1
<1>0. LineStart(e, a)
  BY LineBegins
<1>8. CASE i = last /\ ~(a + 2 <= l)
  <2>1. l # le /\ a + 2 \in (l + 1)..le
    BY <1>1, <1>8
  <2>2. LooksAhead(e, l)
    <3>1. l = a \/ (l = a + 1 /\ l - 1 = a)
      BY <1>1, <1>8
    <3> QED BY <1>0, <1>1, <1>8, <3>1 DEF LooksAhead
  <2> QED BY <1>1, <1>4, <1>5, <1>6, <1>8, <2>1, <2>2
<1>9. CASE i < last
  <2> DEFINE name == r.headers[i + 1][1]  x == Len(name)
  <2>1. i # last
    BY <1>1, <1>9
  <2>2. name \in Seq(Byte) /\ Without(e, a, a + x, CR) /\ e[(a + x) + 1] = COLON
    BY <1>1, <1>9, Zenon DEF LineIn
  <2>3. x \in Nat
    BY <2>2
  <2> HIDE DEF x, name
  <2>4. Without(e, a, a + x, CR) /\ e[(a + x) + 1] = COLON
    BY <2>2, Zenon DEF x, name
  <2> HIDE DEF a
  <2>5. e[a + 1] # CR
    <3>1. x = 0 \/ a + 1 \in (a + 1)..(a + x)
      BY <1>1, <2>3
    <3>2. x = 0 => (a + x) + 1 = a + 1
      BY <1>1, <2>3
    <3> QED BY <3>1, <3>2, <2>4, <1>6 DEF Without
  <2>6. a + 1 \in 1..l \/ (l # le /\ a + 1 \in (l + 1)..le /\ LooksAhead(e, l))
    <3>1. a + 1 \in 1..l \/ (l # le /\ a + 1 \in (l + 1)..le /\ l = a)
      BY <1>1
    <3> QED BY <1>0, <3>1 DEF LooksAhead, a
  <2>7. w[a + 1] # CR
    BY <1>1, <1>6, <2>5, <2>6
  <2> QED BY <1>4, <1>5, <2>1, <2>7 DEF a
<1>10. i = last \/ i < last
  BY <1>1
<1> QED BY <1>7, <1>8, <1>9, <1>10

\* The headers the loop has read after i lines.
HeadersRead(r, at, i) == [read_idx |-> at[i], headers |-> Firsts(r.headers, i)]

\* One turn of the loop of ParseHeaders: the next line if all of it has arrived, and
\* nothing otherwise.
LEMMA HeaderLineParsed ==
    ASSUME NEW r, NEW e, NEW at, Sent(r, e, at), NEW w, NEW l, Arrived(r, e, w, l),
           NEW i \in 0..Len(r.headers), at[i] <= l, NEW beyond \in Beyond, NEW x
    PROVE  /\ i < Len(r.headers) /\ at[i + 1] <= l =>
                HeaderLine(Buf(w, x, l), HeadersRead(r, at, i), beyond) = HeadersRead(r, at, i + 1)
           /\ i = Len(r.headers) \/ l < at[i + 1] =>
                HeaderLine(Buf(w, x, l), HeadersRead(r, at, i), beyond) = HeadersRead(r, at, i)
<1> DEFINE k == Buf(w, x, l)  t == HeadersRead(r, at, i)  a == at[i]  last == Len(r.headers)
           rest == Buf(w, a, l)
           colon == Find(rest, a, <<COLON>>)
           crlf == Find(rest, colon + 1, CRLF)
           from == IF w[colon + 2] = SP THEN colon + 2 ELSE colon + 1
           name == Word(k, a, colon)
           value == Word(k, from, crlf)
           read == [read_idx |-> crlf + 2, headers |-> AddHeader(Firsts(r.headers, i), name, value)]
           stays == EndOfHeaders(rest, beyond) \/ colon = l \/ crlf = l
<1>1. t.read_idx = a /\ t.headers = Firsts(r.headers, i) /\ k.write_idx = l /\ k.buffer = w
  BY DEF HeadersRead, Buf
<1>2. B!DropBytesUntil(k, a) = rest
  BY DEF B!DropBytesUntil, Buf
<1>3. HeaderLine(k, t, beyond) = IF stays THEN t ELSE read
  <2> HIDE DEF k, t, rest, a
  <2> QED BY <1>1, <1>2, Zenon DEF HeaderLine
<1>4. Window(rest, l, e) /\ Window(k, l, e)
  <2>1. Window(Buf(w, 0, l), l, e)
    BY DEF Arrived
  <2> QED BY <2>1, WindowOf, Zenon
<1>5. Room(r, e, at, w, l, i) /\ (EndOfHeaders(rest, beyond) <=> i = last /\ a + 2 <= l)
  BY RoomForEnd, EndOfHeadersSeen, Zenon
<1>6. /\ w \in Seq(Byte) /\ l \in Nat /\ last \in Nat /\ a \in Nat /\ a + 2 <= Len(e)
      /\ Len(e) \in Nat /\ l <= Len(e) /\ a \in 0..l /\ COLON \in Byte /\ COLON # CR
      /\ \A j \in 1..l : w[j] = e[j]
      /\ i = last => e[a + 1] = CR /\ e[a + 2] = LF
      /\ i < last => LineIn(r, e, a, i + 1, at[i + 1]) /\ at[i + 1] \in Nat
  BY <1>5 DEF Room, COLON, CR, Byte
<1> HIDE DEF k, t, rest, a
<1>7. CASE i = last
  <2>1. stays
    <3>1. CASE a + 2 <= l
      BY <3>1, <1>5, <1>7
    <3>2. CASE ~(a + 2 <= l)
      <4>1. a + 1 \in Nat /\ l <= a + 1 /\ a <= a + 1
        BY <1>6, <3>2
      <4>2. Without(e, a, a + 1, COLON)
        <5>1. \A u \in (a + 1)..(a + 1) : u = a + 1
          BY <1>6
        <5> QED BY <5>1, <1>6, <1>7 DEF Without
      <4>3. colon = l
        BY <4>1, <4>2, <1>4, <1>6, FindByte
      <4> QED BY <4>3
    <3> QED BY <3>1, <3>2
  <2>2. ~(i < last)
    BY <1>6, <1>7
  <2> HIDE DEF stays
  <2> QED BY <1>3, <1>7, <2>1, <2>2, Zenon DEF k, t
<1>8. CASE i < last
  <2> DEFINE n == r.headers[i + 1][1]  v == r.headers[i + 1][2]  ln == Len(n)  lv == Len(v)
             c == a + ln  z == c + 2 + lv
  <2>1. /\ n \in Seq(Byte) /\ v \in Seq(Byte)
        /\ At(e, a, n) /\ At(e, c + 2, v)
        /\ Without(e, a, c, COLON) /\ e[c + 1] = COLON /\ e[c + 2] = SP
        /\ Without(e, a, c, CR) /\ Without(e, c + 1, z, CR)
        /\ e[z + 1] = CR /\ e[z + 2] = LF
        /\ at[i + 1] = z + 2 /\ at[i + 1] <= Len(e)
    BY <1>6, <1>8, Zenon DEF LineIn
  <2> HIDE DEF n, v
  <2>2. ln \in Nat /\ lv \in Nat
    <3>1. n \in Seq(Byte) /\ v \in Seq(Byte)
      BY <2>1
    <3> QED BY <3>1
  <2>3. ln = Len(n) /\ lv = Len(v)
    OBVIOUS
  <2> HIDE DEF ln, lv
  <2>4. c \in Nat /\ z \in Nat /\ a <= c /\ c + 2 + lv = z /\ c + 1 <= z /\ i # last /\ c + 2 <= z
    BY <1>6, <1>8, <2>2
  <2> HIDE DEF c, z
  <2>5. CASE l <= c
    <3>1. colon = l
      <4>1. Without(e, a, c, COLON)
        BY <2>1
      <4> QED BY <1>4, <1>6, <4>1, <2>4, <2>5, FindByte
    <3> HIDE DEF colon
    <3>2. stays /\ l < at[i + 1] /\ ~(at[i + 1] <= l)
      BY <1>6, <2>1, <2>4, <2>5, <3>1
    <3> HIDE DEF stays
    <3> QED BY <1>3, <3>2, <2>4, Zenon DEF k, t
  <2>6. CASE c < l
    <3>1. colon = c
      BY <1>4, <1>6, <2>1, <2>4, <2>6, FindByte, SMTT(40)
    <3>2. colon # l /\ c + 1 \in 0..l
      BY <1>6, <2>4, <2>6, <3>1
    <3> HIDE DEF colon
    <3>3. CASE l < at[i + 1]
      <4>1. l < z + 2 /\ ~(at[i + 1] <= l)
        BY <3>3, <2>1, <2>4, <1>6
      <4>2. crlf = l
        BY <1>4, <2>1, <2>4, <3>1, <3>2, <4>1, FindLineEnd
      <4>3. stays
        BY <4>2
      <4> HIDE DEF stays
      <4> QED BY <1>3, <4>1, <4>3, <2>4, Zenon DEF k, t
    <3>4. CASE at[i + 1] <= l
      <4>1. z + 2 <= l /\ ~(l < at[i + 1])
        BY <3>4, <2>1, <2>4, <1>6
      <4>2. crlf = z
        BY <1>4, <2>1, <2>4, <3>1, <3>2, <4>1, FindLineEnd
      <4>3. ~stays
        <5>1. crlf # l
          BY <4>1, <4>2, <2>4, <1>6
        <5> HIDE DEF crlf
        <5> QED BY <5>1, <3>2, <1>5, <2>4
      <4>4. w[colon + 2] = SP
        <5>1. c + 2 \in 1..l
          BY <4>1, <2>4, <1>6
        <5> QED BY <5>1, <3>1, <2>1, <1>6
      <4>5. name = n
        <5>1. a + ln <= l
          BY <2>6, <2>4, <1>6, <2>2 DEF c
        <5>2. Word(k, a, a + ln) = n
          <6>1. n \in Seq(Byte) /\ At(e, a, n) /\ a \in Nat
            BY <2>1, <1>6
          <6> QED BY <1>4, <2>3, <5>1, <6>1, WordIs, Zenon
        <5> QED BY <5>2, <3>1, Zenon DEF c
      <4>6. value = v
        <5>1. c + 2 \in Nat /\ (c + 2) + lv = z /\ (c + 2) + lv <= l
          BY <4>1, <2>4, <2>2, <1>6
        <5>2. Word(k, c + 2, (c + 2) + lv) = v
          <6>1. v \in Seq(Byte) /\ At(e, c + 2, v)
            BY <2>1
          <6> QED BY <1>4, <2>3, <5>1, <6>1, WordIs, Zenon
        <5>3. from = c + 2
          BY <4>4, <3>1
        <5> QED BY <5>1, <5>2, <5>3, <4>2, Zenon
      <4>7. AddHeader(Firsts(r.headers, i), n, v) = Firsts(r.headers, i + 1)
        <5>1. i \in Nat
          BY <1>6
        <5> QED BY <5>1, FirstsStep, Zenon DEF n, v
      <4>8. read = HeadersRead(r, at, i + 1)
        <5> HIDE DEF name, value, crlf
        <5> QED BY <4>2, <4>5, <4>6, <4>7, <2>1, Zenon DEF HeadersRead
      <4> HIDE DEF stays, read
      <4> QED BY <1>3, <4>1, <4>3, <4>8, <2>4, Zenon DEF k, t
    <3> QED BY <3>3, <3>4, <1>6, <1>8
  <2> QED BY <2>5, <2>6, <2>4, <1>6
<1> QED BY <1>6, <1>7, <1>8

\* The lines that have arrived: up to the c-th, which is the last or the one before
\* an incomplete one.
Complete(r, at, l, c) == at[c] <= l /\ (c = Len(r.headers) \/ l < at[c + 1])

\* There is such a line, and as many bytes as lines between two.
LEMMA CompleteLine ==
    ASSUME NEW r, NEW e, NEW at, Sent(r, e, at), NEW w, NEW l, Arrived(r, e, w, l),
           NEW i \in 0..Len(r.headers), at[i] <= l
    PROVE  \E c \in i..Len(r.headers) :
              /\ Complete(r, at, l, c) /\ c - i <= l - at[i]
              /\ \A j \in i..(c - 1) : at[j + 1] <= l
<1> DEFINE last == Len(r.headers)
           C == {c \in i..last : c = last \/ l < at[c + 1]}
<1>1. last \in Nat /\ l \in Nat /\ i \in Nat
  <2>1. Room(r, e, at, w, l, i)
    BY RoomForEnd
  <2> QED BY <2>1 DEF Room
<1>2. C \subseteq Nat /\ last \in C
  BY <1>1
<1>3. PICK c \in C : \A y \in C : c <= y
  <2> HIDE DEF C
  <2>1. C # {}
    BY <1>2
  <2> QED BY <1>2, <2>1, Smallest, Zenon
<1>4. c \in i..last /\ c \in Nat /\ (c = last \/ l < at[c + 1])
  BY <1>1, <1>3
<1>5. ASSUME NEW j \in i..(c - 1) PROVE at[j + 1] <= l /\ j < last /\ at[j] \in Nat /\ at[j + 1] \in Nat
                                       /\ at[j] + 4 <= at[j + 1]
  <2>1. j \in i..last /\ ~(c <= j) /\ j < last /\ j \in 0..last
    BY <1>1, <1>4
  <2>2. j \notin C
    BY <1>3, <2>1
  <2>3. ~(l < at[j + 1])
    BY <2>1, <2>2
  <2>4. at[j] \in Nat /\ at[j + 1] \in Nat /\ at[j] + 4 <= at[j + 1]
    <3>1. Room(r, e, at, w, l, j)
      BY <2>1, RoomForEnd
    <3> QED BY <2>1, <3>1 DEF Room
  <2> QED BY <1>1, <2>1, <2>3, <2>4
<1> HIDE DEF C
<1> DEFINE T == {n \in Nat : i + n <= c => at[i + n] \in Nat /\ at[i] + n <= at[i + n]}
<1>6. 0 \in T
  <2>1. at[i] \in Nat
    <3>1. Room(r, e, at, w, l, i)
      BY RoomForEnd
    <3> QED BY <3>1 DEF Room
  <2>2. i + 0 = i
    BY <1>1
  <2> QED BY <2>1, <2>2
<1>7. ASSUME NEW n \in Nat, n \in T PROVE n + 1 \in T
  <2> SUFFICES ASSUME i + (n + 1) <= c
               PROVE  at[i + (n + 1)] \in Nat /\ at[i] + (n + 1) <= at[i + (n + 1)]
    OBVIOUS
  <2>1. i + n \in i..(c - 1) /\ i + (n + 1) = (i + n) + 1 /\ i + n <= c
    BY <1>1, <1>4
  <2>2. at[i + n] \in Nat /\ at[i] + n <= at[i + n]
    BY <1>7, <2>1
  <2>3. at[(i + n) + 1] \in Nat /\ at[i + n] + 4 <= at[(i + n) + 1]
    BY <1>5, <2>1
  <2>4. at[i] \in Nat
    <3>1. Room(r, e, at, w, l, i)
      BY RoomForEnd
    <3> QED BY <3>1 DEF Room
  <2> QED BY <2>1, <2>2, <2>3, <2>4
<1>8. \A n \in Nat : n \in T
  <2> HIDE DEF T
  <2> QED BY <1>6, <1>7, Induction
<1>9. at[c] \in Nat /\ at[i] + (c - i) <= at[c]
  <2>1. c - i \in Nat /\ i + (c - i) = c
    BY <1>1, <1>4
  <2>2. c - i \in T
    BY <2>1, <1>8
  <2> QED BY <2>1, <2>2, <1>4
<1>10. at[c] <= l
  <2>1. CASE c = i
    BY <2>1
  <2>2. CASE c # i
    <3>1. c - 1 \in i..(c - 1) /\ (c - 1) + 1 = c
      BY <2>2, <1>1, <1>4
    <3> QED BY <3>1, <1>5
  <2> QED BY <2>1, <2>2
<1>11. at[i] \in Nat
  <2>1. Room(r, e, at, w, l, i)
    BY RoomForEnd
  <2> QED BY <2>1 DEF Room
<1>12. c - i <= l - at[i]
  <2> DEFINE x == at[i]  y == at[c]
  <2> HIDE DEF x, y
  <2>1. x \in Nat /\ y \in Nat /\ x + (c - i) <= y /\ y <= l
    BY <1>9, <1>10, <1>11 DEF x, y
  <2>2. c - i <= l - x
    BY <2>1, <1>1, <1>4
  <2> QED BY <2>2 DEF x
<1>13. Complete(r, at, l, c)
  BY <1>4, <1>10 DEF Complete
<1> QED BY <1>4, <1>5, <1>12, <1>13

\* The loop of ParseHeaders reads the lines that have arrived, and no other.
LEMMA HeaderLinesParsed ==
    ASSUME NEW r, NEW e, NEW at, Sent(r, e, at), NEW w, NEW l, Arrived(r, e, w, l),
           NEW i \in 0..Len(r.headers), at[i] <= l, NEW beyond \in Beyond,
           NEW s, NEW m, NEW u, NEW v
    PROVE  LET dec == Dec(Buf(w, at[i], l), s, Building(m, u, v, Firsts(r.headers, i)))
           IN  \E c \in i..Len(r.headers) :
                  Complete(r, at, l, c) /\ HeaderLines(dec, beyond) = HeadersRead(r, at, c)
<1> DEFINE last == Len(r.headers)  k == Buf(w, at[i], l)
           dec == Dec(k, s, Building(m, u, v, Firsts(r.headers, i)))
           turns == l - at[i]
           H(t) == HeaderLine(k, t, beyond)
           begin == [read_idx |-> at[i], headers |-> Firsts(r.headers, i)]
           after[n \in 0..turns] == IF n = 0 THEN begin ELSE H(after[n - 1])
<1>1. /\ last \in Nat /\ l \in Nat /\ i \in Nat /\ at[i] \in Nat /\ turns \in Nat
  <2>1. Room(r, e, at, w, l, i)
    BY RoomForEnd
  <2> QED BY <2>1 DEF Room
<1>2. HeaderLines(dec, beyond) = after[turns]
  <2>1. dec.buf = k /\ B!ReadableBytes(k) = turns /\ k.read_idx = at[i]
        /\ dec.req.headers = Firsts(r.headers, i)
    BY DEF Dec, Buf, B!ReadableBytes, Building, Req
  <2> HIDE DEF dec, k, turns
  <2> QED BY <2>1, Zenon DEF HeaderLines
<1>3. PICK c \in i..last : /\ Complete(r, at, l, c) /\ c - i <= turns
                           /\ \A j \in i..(c - 1) : at[j + 1] <= l
  BY CompleteLine
<1>4. c \in Nat /\ c <= last /\ i <= c
  BY <1>1, <1>3
<1> DEFINE Turn(n) == IF i + n <= c THEN i + n ELSE c
           g == [n \in 0..turns |-> HeadersRead(r, at, Turn(n))]
<1> HIDE DEF turns, k
<1>5. ASSUME NEW j \in i..c, at[j] <= l
      PROVE  H(HeadersRead(r, at, j)) = HeadersRead(r, at, IF j < c THEN j + 1 ELSE c)
  <2>1. j \in 0..last /\ j <= c
    BY <1>1, <1>4
  <2>2. /\ j < last /\ at[j + 1] <= l => H(HeadersRead(r, at, j)) = HeadersRead(r, at, j + 1)
        /\ j = last \/ l < at[j + 1] => H(HeadersRead(r, at, j)) = HeadersRead(r, at, j)
    BY <2>1, <1>5, HeaderLineParsed DEF k
  <2>3. CASE j < c
    <3>1. j \in i..(c - 1) /\ j < last
      BY <2>3, <1>1, <1>4
    <3> QED BY <3>1, <2>2, <2>3, <1>3
  <2>4. CASE ~(j < c)
    <3>1. j = c
      BY <2>1, <2>4, <1>4
    <3> QED BY <3>1, <2>2, <2>4, <1>3 DEF Complete
  <2> QED BY <2>3, <2>4
<1>6. ASSUME NEW j \in i..c PROVE at[j] <= l
  <2>1. CASE j = i
    BY <2>1
  <2>2. CASE j # i
    <3>1. j - 1 \in i..(c - 1) /\ (j - 1) + 1 = j
      BY <2>2, <1>1, <1>4
    <3> QED BY <3>1, <1>3
  <2> QED BY <2>1, <2>2
<1> HIDE DEF H
<1>7. ASSUME NEW n \in 0..turns
      PROVE  g[n] = IF n = 0 THEN begin ELSE H(g[n - 1])
  <2>1. n \in Nat
    BY <1>1
  <2>2. CASE n = 0
    <3>1. Turn(n) = i
      BY <1>1, <1>4, <2>2
    <3>2. g[n] = HeadersRead(r, at, Turn(n))
      OBVIOUS
    <3>3. g[n] = HeadersRead(r, at, i)
      BY <3>1, <3>2, Zenon
    <3> QED BY <3>3, <2>2 DEF HeadersRead
  <2>3. CASE n # 0
    <3> DEFINE j == Turn(n - 1)
    <3>1. n - 1 \in 0..turns /\ j \in i..c /\ Turn(n) = IF j < c THEN j + 1 ELSE c
      BY <1>1, <1>4, <2>1, <2>3
    <3>2. g[n - 1] = HeadersRead(r, at, j) /\ g[n] = HeadersRead(r, at, Turn(n))
      BY <3>1
    <3> HIDE DEF j, Turn
    <3>3. H(HeadersRead(r, at, j)) = HeadersRead(r, at, Turn(n))
      BY <3>1, <1>5, <1>6
    <3> QED BY <3>2, <3>3, <2>3
  <2> QED BY <2>2, <2>3
<1>8. g = [n \in 0..turns |-> IF n = 0 THEN begin ELSE H(g[n - 1])]
  <2>1. g = [n \in 0..turns |-> g[n]]
    OBVIOUS
  <2> HIDE DEF g, begin
  <2> QED BY <1>7, <2>1, Zenon
<1>9. after = [n \in 0..turns |-> IF n = 0 THEN begin ELSE H(after[n - 1])]
  <2> HIDE DEF g, begin
  <2> QED BY <1>8, Zenon DEF after
<1> HIDE DEF after, begin
<1> DEFINE T == {n \in Nat : n <= turns => after[n] = g[n]}
<1>10. 0 \in T
  <2>1. 0 \in 0..turns
    BY <1>1
  <2>2. after[0] = begin
    BY <1>9, <2>1, Zenon
  <2>3. g[0] = begin
    <3> HIDE DEF g
    <3> QED BY <1>7, <2>1
  <2> QED BY <2>2, <2>3
<1>11. ASSUME NEW n \in Nat, n \in T PROVE n + 1 \in T
  <2> SUFFICES ASSUME n + 1 <= turns PROVE after[n + 1] = g[n + 1]
    OBVIOUS
  <2>1. n + 1 \in 0..turns /\ n + 1 # 0 /\ (n + 1) - 1 = n /\ n <= turns
    BY <1>1
  <2>2. after[n] = g[n]
    BY <1>11, <2>1
  <2> HIDE DEF g
  <2>3. after[n + 1] = H(after[n])
    BY <1>9, <2>1
  <2>4. g[n + 1] = H(g[n])
    BY <1>7, <2>1
  <2> QED BY <2>2, <2>3, <2>4
<1>12. \A n \in Nat : n \in T
  <2> HIDE DEF T
  <2> QED BY <1>10, <1>11, Induction
<1>13. after[turns] = g[turns]
  <2>1. turns \in T
    BY <1>1, <1>12
  <2> HIDE DEF g
  <2> QED BY <1>1, <2>1
<1>14. g[turns] = HeadersRead(r, at, c)
  <2>1. Turn(turns) = c /\ turns \in 0..turns
    BY <1>1, <1>3, <1>4
  <2> HIDE DEF Turn
  <2>2. g[turns] = HeadersRead(r, at, Turn(turns))
    BY <2>1
  <2> QED BY <2>1, <2>2
<1> QED BY <1>2, <1>3, <1>13, <1>14, Zenon DEF k

\* The lines of the headers follow each other.
LEMMA LinesInOrder ==
    ASSUME NEW r, NEW e, NEW at, Sent(r, e, at), NEW w, NEW l, Arrived(r, e, w, l),
           NEW i \in 0..Len(r.headers), NEW j \in i..Len(r.headers)
    PROVE  at[i] \in Nat /\ at[j] \in Nat /\ at[i] <= at[j]
<1> DEFINE last == Len(r.headers)
           T == {n \in Nat : i + n <= last => at[i + n] \in Nat /\ at[i] <= at[i + n]}
<1>1. last \in Nat /\ i \in Nat /\ j \in Nat /\ at[i] \in Nat
  <2>1. Room(r, e, at, w, l, i)
    BY RoomForEnd
  <2> QED BY <2>1 DEF Room
<1>2. 0 \in T
  <2>1. i + 0 = i
    BY <1>1
  <2> QED BY <1>1, <2>1
<1>3. ASSUME NEW n \in Nat, n \in T PROVE n + 1 \in T
  <2> SUFFICES ASSUME i + (n + 1) <= last
               PROVE  at[i + (n + 1)] \in Nat /\ at[i] <= at[i + (n + 1)]
    OBVIOUS
  <2>1. i + n \in 0..last /\ i + n < last /\ i + (n + 1) = (i + n) + 1 /\ i + n <= last
    BY <1>1
  <2>2. at[(i + n) + 1] \in Nat /\ at[i + n] + 4 <= at[(i + n) + 1]
    <3>1. Room(r, e, at, w, l, i + n)
      BY <2>1, RoomForEnd
    <3> QED BY <2>1, <3>1 DEF Room
  <2>3. at[i + n] \in Nat /\ at[i] <= at[i + n]
    BY <1>3, <2>1
  <2> QED BY <1>1, <2>1, <2>2, <2>3
<1>4. \A n \in Nat : n \in T
  <2> HIDE DEF T
  <2> QED BY <1>2, <1>3, Induction
<1>5. j - i \in Nat /\ i + (j - i) = j /\ j <= last
  BY <1>1
<1>6. j - i \in T
  BY <1>4, <1>5
<1> QED BY <1>1, <1>5, <1>6

\* What ParseHeaders makes of the headers of r: the lines that have arrived, or all.
HeadersOutcome(dec, r, at, w, l, m, u, v) ==
    LET last == Len(r.headers)
    IN  /\ l < at[last] + 2 =>
                \E c \in 0..last :
                    at[c] <= l /\ dec = Dec(Buf(w, at[c], l), "ExpectHeaders",
                                           Building(m, u, v, Firsts(r.headers, c)))
        /\ at[last] + 2 <= l =>
                dec = Dec(B!DropBytes(Buf(w, at[last], l), 2), "ExpectBody",
                          Building(m, u, v, Firsts(r.headers, last)))

\* ParseHeaders waits until the headers are complete, and then has them all.
LEMMA HeadersParsed ==
    ASSUME NEW r, NEW e, NEW at, Sent(r, e, at), NEW w, NEW l, Arrived(r, e, w, l),
           NEW i \in 0..Len(r.headers), at[i] <= l, NEW beyond \in Beyond,
           NEW m, NEW u, NEW v
    PROVE  HeadersOutcome(ParseHeaders(Dec(Buf(w, at[i], l), "ExpectHeaders",
                                           Building(m, u, v, Firsts(r.headers, i))), beyond),
                          r, at, w, l, m, u, v)
<1> DEFINE last == Len(r.headers)  hs == r.headers
           dec == Dec(Buf(w, at[i], l), "ExpectHeaders", Building(m, u, v, Firsts(hs, i)))
           lines == HeaderLines(dec, beyond)
           read == [dec EXCEPT !.buf = B!DropBytesUntil(@, lines.read_idx),
                               !.req.headers = lines.headers]
           done == [read EXCEPT !.buf = B!DropBytes(@, 2), !.state = "ExpectBody"]
<1>1. PICK c \in i..last : Complete(r, at, l, c) /\ lines = HeadersRead(r, at, c)
  BY HeaderLinesParsed
<1>2. lines.read_idx = at[c] /\ lines.headers = Firsts(hs, c)
  BY <1>1 DEF HeadersRead
<1> HIDE DEF lines
<1>3. last \in Nat /\ l \in Nat /\ c \in 0..last /\ c \in Nat /\ at[last] \in Nat
  <2>1. last \in 0..last => Room(r, e, at, w, l, last)
    BY RoomForEnd
  <2>2. Room(r, e, at, w, l, i)
    BY RoomForEnd
  <2>3. last \in Nat /\ l \in Nat
    BY <2>2 DEF Room
  <2>4. Room(r, e, at, w, l, last)
    BY <2>1, <2>3
  <2> QED BY <2>3, <2>4 DEF Room
<1> DEFINE x == at[c]  f == Firsts(hs, c)  q == Buf(w, x, l)
<1>4. read = Dec(q, "ExpectHeaders", Building(m, u, v, f))
  <2>1. B!DropBytesUntil(Buf(w, at[i], l), x) = q
    BY DEF B!DropBytesUntil, Buf
  <2> DEFINE k == Buf(w, at[i], l)  g == Firsts(hs, i)  s == "ExpectHeaders"
  <2> HIDE DEF k, g, q, f, x, s
  <2>2. dec.buf = k
    BY DEF Dec, k
  <2>3. read = [dec EXCEPT !.buf = q, !.req.headers = f]
    BY <1>2, <2>1, <2>2 DEF k, f, x
  <2>4. dec = Dec(k, s, Building(m, u, v, g))
    BY Zenon DEF k, s, g
  <2> HIDE DEF dec, read
  <2> DEFINE d1 == [dec EXCEPT !.buf = q]
  <2>5. d1 = Dec(q, s, Building(m, u, v, g))
    BY <2>4 DEF Dec
  <2>6. read = [[dec EXCEPT !.buf = q] EXCEPT !.req.headers = f]
    BY <2>3
  <2> HIDE DEF d1
  <2>7. [d1 EXCEPT !.req.headers = f] = Dec(q, s, Building(m, u, v, f))
    BY <2>5 DEF Dec, Building, Req
  <2> QED BY <2>6, <2>7 DEF d1, s
<1> HIDE DEF read
<1>5. read.buf = q
  BY <1>4 DEF Dec
<1>6. ParseHeaders(dec, beyond) = IF EndOfHeaders(q, beyond) THEN done ELSE read
  <2>1. ParseHeaders(dec, beyond) = IF EndOfHeaders(read.buf, beyond) THEN done ELSE read
    BY Zenon DEF ParseHeaders, lines, read
  <2> HIDE DEF done
  <2> QED BY <2>1, <1>5, Zenon
<1>7. EndOfHeaders(q, beyond) <=> c = last /\ x + 2 <= l
  <2>1. at[c] <= l
    BY <1>1 DEF Complete
  <2> QED BY <1>3, <2>1, EndOfHeadersSeen
<1>8. done = Dec(B!DropBytes(q, 2), "ExpectBody", Building(m, u, v, f))
  <2> DEFINE b == Building(m, u, v, f)  k == B!DropBytes(q, 2)
  <2> HIDE DEF b, k, q
  <2>1. read = Dec(q, "ExpectHeaders", b)
    BY <1>4 DEF b
  <2>2. done = [read EXCEPT !.buf = k, !.state = "ExpectBody"]
    BY <1>5 DEF k
  <2>3. [read EXCEPT !.buf = k, !.state = "ExpectBody"] = Dec(k, "ExpectBody", b)
    <3> DEFINE d1 == [read EXCEPT !.buf = k]
    <3>1. d1 = Dec(k, "ExpectHeaders", b)
      BY <2>1 DEF Dec
    <3>2. [read EXCEPT !.buf = k, !.state = "ExpectBody"]
            = [[read EXCEPT !.buf = k] EXCEPT !.state = "ExpectBody"]
      OBVIOUS
    <3> HIDE DEF d1
    <3>3. [d1 EXCEPT !.state = "ExpectBody"] = Dec(k, "ExpectBody", b)
      BY <3>1 DEF Dec
    <3> QED BY <3>2, <3>3 DEF d1
  <2> QED BY <2>2, <2>3 DEF b, k
<1> HIDE DEF done, dec
<1>9. CASE l < at[last] + 2
  <2>1. ~(c = last /\ x + 2 <= l) /\ ~(at[last] + 2 <= l)
    BY <1>3, <1>9
  <2>2. ParseHeaders(dec, beyond) = read
    BY <1>6, <1>7, <2>1
  <2>3. at[c] <= l
    BY <1>1 DEF Complete
  <2> QED BY <1>3, <1>4, <2>1, <2>2, <2>3 DEF dec, HeadersOutcome
<1>10. CASE at[last] + 2 <= l
  <2>1. c = last
    <3> SUFFICES ASSUME c # last PROVE FALSE
      OBVIOUS
    <3>1. l < at[c + 1]
      BY <1>1 DEF Complete
    <3>2. c + 1 \in 0..last /\ last \in (c + 1)..last
      BY <1>3
    <3>3. at[c + 1] \in Nat /\ at[c + 1] <= at[last]
      BY <3>2, LinesInOrder
    <3> QED BY <3>1, <3>3, <1>3, <1>10
  <2>2. ParseHeaders(dec, beyond) = done
    BY <1>6, <1>7, <1>10, <2>1
  <2>3. ~(l < at[last] + 2)
    BY <1>3, <1>10
  <2> QED BY <1>8, <2>1, <2>2, <2>3 DEF dec, HeadersOutcome
<1>11. l < at[last] + 2 \/ at[last] + 2 <= l
  BY <1>3
<1> QED BY <1>9, <1>10, <1>11
-----------------------------------------------------------------------------
(* The body, and the whole of Decode.                                      *)

\* The readable bytes of a buffer that holds the request from offset a on.
LEMMA ReadableFrom ==
    ASSUME NEW w \in Seq(Byte), NEW a \in Nat, NEW l \in Nat, a <= l, l <= Len(w),
           NEW s \in Seq(Byte), Len(s) = l - a, \A j \in 1..Len(s) : w[a + j] = s[j]
    PROVE  B!ToString(Buf(w, a, l)) = s
<1> DEFINE n == Len(s)
<1>1. n \in Nat /\ n = l - a /\ Len(w) \in Nat
  OBVIOUS
<1>2. a + n = l /\ a + n <= Len(w)
  <2> HIDE DEF n
  <2> QED BY <1>1
<1>3. SubSeq(w, a + 1, a + Len(s)) = s
  BY <1>2, SubSeqIs
<1>4. SubSeq(w, a + 1, l) = s
  BY <1>2, <1>3
<1> QED BY <1>4 DEF B!ToString, Buf

\* What the application should see, for a body that is not too long.
LEMMA ExpectedIs ==
    ASSUME NEW r \in Requests
    PROVE  Expected(r) = Req(r.method, r.request_uri, r.version, FirstOf(r.headers), r.body,
                             NotTruncated)
<1> DEFINE b == r.body  n == Len(r.body)
<1>1. b \in Seq(Byte) /\ n \in Nat /\ n <= BodyMaxBytes /\ BodyMaxBytes \in Nat
  BY RequestsAssumption, SizesAssumption
<1>2. (IF n < BodyMaxBytes THEN n ELSE BodyMaxBytes) = n
  <2> HIDE DEF n
  <2> QED BY <1>1
<1>3. SubSeq(b, 1, n) = b
  BY <1>1
<1>4. (n > BodyMaxBytes) = NotTruncated
  <2> HIDE DEF n
  <2>1. ~(n > BodyMaxBytes)
    BY <1>1
  <2> DEFINE p == n > BodyMaxBytes
  <2>2. p \in BOOLEAN /\ ~p
    BY <2>1
  <2> HIDE DEF p
  <2>3. p = FALSE
    BY <2>2, Zenon
  <2> QED BY <2>3, Zenon DEF NotTruncated, p
<1> QED BY <1>2, <1>3, <1>4, Zenon DEF Expected, Req

\* DropAllBytes keeps the vector.
LEMMA AllDropped ==
    ASSUME NEW w, NEW i, NEW l
    PROVE  B!DropAllBytes(Buf(w, i, l)) = Buf(w, 0, 0)
<1> DEFINE k == Buf(w, i, l)  j == [k EXCEPT !.read_idx = 0]
<1>1. j = Buf(w, 0, l)
  BY DEF Buf
<1> HIDE DEF j
<1>2. [j EXCEPT !.write_idx = 0] = Buf(w, 0, 0)
  BY <1>1 DEF Buf
<1> HIDE DEF k
<1>3. B!DropAllBytes(k) = [[k EXCEPT !.read_idx = 0] EXCEPT !.write_idx = 0]
  BY DEF B!DropAllBytes
<1> QED BY <1>2, <1>3 DEF j, k

\* ParseBody takes what has arrived behind the headers.
LEMMA BodyParsed ==
    ASSUME NEW r, NEW e, NEW at, Sent(r, e, at), NEW w, NEW l, Arrived(r, e, w, l),
           at[Len(r.headers)] + 2 <= l
    PROVE  /\ l = Len(e)
           /\ ParseBody(Dec(B!DropBytes(Buf(w, at[Len(r.headers)], l), 2), "ExpectBody",
                            Building(r.method, r.request_uri, r.version,
                                     Firsts(r.headers, Len(r.headers)))))
                = Dec(Buf(w, 0, 0), "ParseFinished", Expected(r))
<1> DEFINE last == Len(r.headers)  a == at[last]  b == r.body  n == Len(b)
           f == Firsts(r.headers, last)
           k == B!DropBytes(Buf(w, a, l), 2)
           dec == Dec(k, "ExpectBody", Building(r.method, r.request_uri, r.version, f))
<1>1. last \in Nat /\ last \in 0..last
  BY DEF Sent, Request
<1>2. /\ w \in Seq(Byte) /\ l \in Nat /\ Len(e) \in Nat /\ l <= Len(e) /\ Len(e) <= Len(w)
      /\ \A j \in 1..l : w[j] = e[j]
      /\ a \in Nat
  <2>1. Room(r, e, at, w, l, last)
    BY <1>1, RoomForEnd
  <2> QED BY <2>1 DEF Room
<1>3. b \in Seq(Byte) /\ n \in Nat /\ n <= BodyMaxBytes /\ BodyMaxBytes \in Nat
  BY RequestsAssumption, SizesAssumption DEF Sent
<1>4. Len(e) = a + 2 + n /\ At(e, a + 2, b)
  BY Zenon DEF Sent, Layout
<1>5. l = Len(e)
  <2> SUFFICES ASSUME l # Len(e) PROVE FALSE
    OBVIOUS
  <2>1. l < Len(e) - n
    BY DEF Arrived
  <2>2. a + 2 <= l
    OBVIOUS
  <2> HIDE DEF n, a
  <2> QED BY <2>1, <2>2, <1>2, <1>3, <1>4
<1>6. \A j \in 1..n : w[(a + 2) + j] = b[j]
  <2>1. \A j \in 1..n : e[(a + 2) + j] = b[j]
    BY <1>4 DEF At
  <2> HIDE DEF n, a
  <2>2. \A j \in 1..n : (a + 2) + j \in 1..l
    BY <1>2, <1>3, <1>4, <1>5
  <2> QED BY <2>1, <2>2, <1>2
<1>7. B!ReadableBytes(Buf(w, a, l)) = l - a
  BY DEF B!ReadableBytes, Buf
<1>8. B!ReadableBytes(k) = n /\ B!ToString(k) = b /\ B!DropAllBytes(k) = Buf(w, 0, 0)
  <2>1. CASE n = 0
    <3>1. 2 >= l - a
      <4> HIDE DEF n, a
      <4> QED BY <2>1, <1>2, <1>4, <1>5
    <3>2. k = B!DropAllBytes(Buf(w, a, l))
      BY <3>1, <1>7 DEF B!DropBytes
    <3>3. k = Buf(w, 0, 0)
      BY <3>2 DEF B!DropAllBytes, Buf
    <3>4. B!ReadableBytes(k) = 0 /\ B!DropAllBytes(k) = Buf(w, 0, 0)
      <4> HIDE DEF k
      <4>1. B!ReadableBytes(k) = 0
        BY <3>3 DEF B!ReadableBytes, Buf
      <4>2. B!DropAllBytes(k) = Buf(w, 0, 0)
        BY <3>3, AllDropped, Zenon
      <4> QED BY <4>1, <4>2
    <3>5. B!ToString(Buf(w, 0, 0)) = b
      <4>1. 0 \in Nat /\ 0 <= 0 /\ 0 <= Len(w) /\ Len(b) = 0 - 0 /\ \A j \in 1..Len(b) : w[0 + j] = b[j]
        BY <2>1, <1>2
      <4> HIDE DEF b
      <4> QED BY <4>1, <1>2, <1>3, ReadableFrom
    <3> HIDE DEF k, n
    <3> QED BY <2>1, <3>3, <3>4, <3>5
  <2>2. CASE n # 0
    <3>1. ~(2 >= l - a) /\ a + 2 <= l /\ l - (a + 2) = n /\ a + 2 \in Nat
      <4> HIDE DEF n, a
      <4> QED BY <2>2, <1>2, <1>3, <1>4, <1>5
    <3>2. k = [Buf(w, a, l) EXCEPT !.read_idx = @ + 2]
      BY <3>1, <1>7 DEF B!DropBytes
    <3>3. k = Buf(w, a + 2, l)
      BY <3>2 DEF Buf
    <3>4. B!ReadableBytes(k) = n /\ B!DropAllBytes(k) = Buf(w, 0, 0)
      <4> HIDE DEF a, n, k
      <4>1. B!ReadableBytes(k) = n
        BY <3>1, <3>3 DEF B!ReadableBytes, Buf
      <4>2. B!DropAllBytes(k) = Buf(w, 0, 0)
        BY <3>3, AllDropped, Zenon
      <4> QED BY <4>1, <4>2
    <3>5. B!ToString(Buf(w, a + 2, l)) = b
      <4>1. l <= Len(w)
        BY <1>2, <1>5
      <4>2. n = Len(b)
        OBVIOUS
      <4> DEFINE c == a + 2
      <4>3. c \in Nat /\ c <= l /\ l \in Nat /\ Len(b) = l - c
        BY <3>1, <1>2, <4>2
      <4>4. \A j \in 1..Len(b) : w[c + j] = b[j]
        BY <1>6, <4>2, Zenon
      <4>5. w \in Seq(Byte) /\ b \in Seq(Byte)
        BY <1>2, <1>3
      <4> HIDE DEF b, a, n, c
      <4>6. B!ToString(Buf(w, c, l)) = b
        BY <4>1, <4>3, <4>4, <4>5, ReadableFrom
      <4> QED BY <4>6 DEF c
    <3> HIDE DEF k, n
    <3> QED BY <3>3, <3>4, <3>5
  <2> QED BY <2>1, <2>2
<1> HIDE DEF k
<1> DEFINE q == Req(r.method, r.request_uri, r.version, f, <<>>, NotTruncated)
           max_size == IF n < BodyMaxBytes THEN n ELSE BodyMaxBytes
           t == dec.req.is_body_truncated \/ max_size > dec.body_max_bytes
<1>9. dec = Dec(k, "ExpectBody", q)
  BY Zenon DEF Building
<1> HIDE DEF dec
<1>10. dec.buf = k /\ dec.body_max_bytes = BodyMaxBytes /\ dec.req = q
  BY <1>9 DEF Dec
<1>11. max_size = n
  <2> HIDE DEF n
  <2> QED BY <1>3
<1>12. t = NotTruncated
  <2>1. ~(max_size > dec.body_max_bytes)
    <3> HIDE DEF n, max_size
    <3> QED BY <1>3, <1>10, <1>11
  <2>2. dec.req.is_body_truncated = NotTruncated
    BY <1>10 DEF Req
  <2> HIDE DEF max_size
  <2> QED BY <2>1, <2>2, Zenon DEF NotTruncated
<1>13. ParseBody(dec) = [dec EXCEPT !.req.is_body_truncated = t,
                                    !.req.body = SubSeq(B!ToString(k), 1, max_size),
                                    !.state = "ParseFinished",
                                    !.buf = B!DropAllBytes(k)]
  <2> HIDE DEF n, f, q
  <2> QED BY <1>8, <1>10, Zenon DEF ParseBody
<1>14. SubSeq(B!ToString(k), 1, max_size) = b
  <2>1. SubSeq(b, 1, n) = b
    BY <1>3
  <2> HIDE DEF max_size, n, b
  <2> QED BY <2>1, <1>8, <1>11
<1> HIDE DEF t, max_size
<1>15. ParseBody(dec) = Dec(Buf(w, 0, 0), "ParseFinished",
                            Req(r.method, r.request_uri, r.version, f, b, NotTruncated))
  <2> DEFINE z == Buf(w, 0, 0)  s == "ParseFinished"  mm == r.method  uu == r.request_uri  vv == r.version
             ex == <<>>
             d1 == [dec EXCEPT !.req.is_body_truncated = NotTruncated]
             d2 == [d1 EXCEPT !.req.body = b]
             d3 == [d2 EXCEPT !.state = s]
  <2>1. ParseBody(dec) = [d3 EXCEPT !.buf = z]
    <3>1. ParseBody(dec) = [dec EXCEPT !.req.is_body_truncated = NotTruncated, !.req.body = b,
                                       !.state = s, !.buf = z]
      <4> HIDE DEF b, k
      <4> QED BY <1>8, <1>12, <1>13, <1>14, Zenon
    <3> HIDE DEF b, z, s
    <3> QED BY <3>1
  <2>2. dec = Dec(k, "ExpectBody", Req(mm, uu, vv, f, ex, NotTruncated))
    BY <1>9, Zenon
  <2> HIDE DEF z, s, b, f, mm, uu, vv, ex
  <2>3. d1 = Dec(k, "ExpectBody", Req(mm, uu, vv, f, ex, NotTruncated))
    BY <2>2 DEF Dec, Req
  <2> HIDE DEF d1
  <2>4. d2 = Dec(k, "ExpectBody", Req(mm, uu, vv, f, b, NotTruncated))
    BY <2>3 DEF Dec, Req
  <2> HIDE DEF d2
  <2>5. d3 = Dec(k, s, Req(mm, uu, vv, f, b, NotTruncated))
    BY <2>4 DEF Dec
  <2> HIDE DEF d3
  <2>6. [d3 EXCEPT !.buf = z] = Dec(z, s, Req(mm, uu, vv, f, b, NotTruncated))
    BY <2>5 DEF Dec
  <2> QED BY <2>1, <2>6, Zenon DEF z, s, b, f, mm, uu, vv
<1>16. f = FirstOf(r.headers) /\ r \in Requests
  BY FirstOfIs DEF Sent, Request
<1>17. Req(r.method, r.request_uri, r.version, f, b, NotTruncated) = Expected(r)
  BY <1>16, ExpectedIs, Zenon
<1> QED BY <1>5, <1>15, <1>17, Zenon DEF dec, k

\* The decoder waits for the rest of the request r, of which l bytes have arrived.
Waiting(dec, r, at, w, l) ==
    \/ \E m, u, v : dec = Dec(Buf(w, 0, l), "ExpectRequestLine", Building(m, u, v, <<>>))
    \/ \E i \in 0..Len(r.headers) :
          /\ at[i] <= l
          /\ dec = Dec(Buf(w, at[i], l), "ExpectHeaders",
                       Building(r.method, r.request_uri, r.version, Firsts(r.headers, i)))

\* Decode from the headers on.
LEMMA DecodedFromHeaders ==
    ASSUME NEW r, NEW e, NEW at, Sent(r, e, at), NEW w, NEW l, Arrived(r, e, w, l),
           NEW beyond \in Beyond, NEW i \in 0..Len(r.headers), at[i] <= l,
           NEW dec, dec = Dec(Buf(w, at[i], l), "ExpectHeaders",
                              Building(r.method, r.request_uri, r.version, Firsts(r.headers, i)))
    PROVE  /\ l # Len(e) => Waiting(AtBody(AtHeaders(dec, beyond)), r, at, w, l)
           /\ l = Len(e) => AtBody(AtHeaders(dec, beyond)) = Dec(Buf(w, 0, 0), "ParseFinished", Expected(r))
<1> DEFINE last == Len(r.headers)
           next == ParseHeaders(Dec(Buf(w, at[i], l), "ExpectHeaders",
                                    Building(r.method, r.request_uri, r.version,
                                             Firsts(r.headers, i))), beyond)
           k == B!DropBytes(Buf(w, at[last], l), 2)
           q == Building(r.method, r.request_uri, r.version, Firsts(r.headers, last))
<1>1. AtHeaders(dec, beyond) = next
  <2>1. dec.state = "ExpectHeaders"
    BY DEF Dec
  <2> QED BY <2>1, Zenon DEF AtHeaders
<1>2. /\ l < at[last] + 2 =>
            \E c \in 0..last :
                at[c] <= l /\ next = Dec(Buf(w, at[c], l), "ExpectHeaders",
                    Building(r.method, r.request_uri, r.version, Firsts(r.headers, c)))
      /\ at[last] + 2 <= l => next = Dec(k, "ExpectBody", q)
  <2>1. HeadersOutcome(next, r, at, w, l, r.method, r.request_uri, r.version)
    BY HeadersParsed, Zenon
  <2> HIDE DEF next
  <2> QED BY <2>1, Zenon DEF HeadersOutcome
<1>3. last \in Nat /\ last \in 0..last
  BY DEF Sent, Request
<1>4. at[last] \in Nat /\ l \in Nat /\ Len(e) \in Nat /\ at[last] + 2 <= Len(e)
  <2>1. Room(r, e, at, w, l, last)
    BY <1>3, RoomForEnd
  <2> QED BY <2>1 DEF Room
<1> HIDE DEF next
<1>5. CASE l < at[last] + 2
  <2>1. PICK c \in 0..last :
                at[c] <= l /\ next = Dec(Buf(w, at[c], l), "ExpectHeaders",
                    Building(r.method, r.request_uri, r.version, Firsts(r.headers, c)))
    BY <1>2, <1>5
  <2>2. next.state = "ExpectHeaders"
    BY <2>1 DEF Dec
  <2>3. AtBody(next) = next
    BY <2>2 DEF AtBody
  <2>4. Waiting(next, r, at, w, l)
    BY <2>1, Zenon DEF Waiting
  <2>5. l # Len(e)
    BY <1>4, <1>5
  <2> QED BY <1>1, <2>3, <2>4, <2>5
<1>6. CASE at[last] + 2 <= l
  <2>1. next = Dec(k, "ExpectBody", q)
    BY <1>2, <1>6
  <2>2. next.state = "ExpectBody"
    BY <2>1 DEF Dec
  <2>3. AtBody(next) = ParseBody(next)
    BY <2>2 DEF AtBody
  <2>4. l = Len(e) /\ ParseBody(Dec(k, "ExpectBody", q)) = Dec(Buf(w, 0, 0), "ParseFinished", Expected(r))
    BY <1>6, BodyParsed
  <2>5. AtBody(next) = Dec(Buf(w, 0, 0), "ParseFinished", Expected(r))
    BY <2>1, <2>3, <2>4, Zenon
  <2> QED BY <1>1, <2>4, <2>5
<1> QED BY <1>4, <1>5, <1>6

\* One call of Decode: the request as it was sent when all of it has arrived, and
\* otherwise a decoder that waits for the rest.
LEMMA Decoded ==
    ASSUME NEW r, NEW e, NEW at, Sent(r, e, at), NEW w, NEW l, Arrived(r, e, w, l),
           NEW beyond \in Beyond, NEW dec, Waiting(dec, r, at, w, l)
    PROVE  /\ l # Len(e) => Waiting(DecodeLoop(dec, beyond), r, at, w, l)
           /\ l = Len(e) => DecodeLoop(dec, beyond) = Dec(Buf(w, 0, 0), "ParseFinished", Expected(r))
<1> DEFINE line == AtRequestLine(dec)
<1>1. DecodeLoop(dec, beyond) = AtBody(AtHeaders(line, beyond))
  BY DEF DecodeLoop
<1>2. 0 \in 0..Len(r.headers) /\ at[0] \in Nat /\ at[0] + 2 <= Len(e) /\ l \in Nat /\ Len(e) \in Nat
  <2>1. 0 \in 0..Len(r.headers)
    BY DEF Sent, Request
  <2>2. Room(r, e, at, w, l, 0)
    BY <2>1, RoomForEnd
  <2> QED BY <2>1, <2>2 DEF Room
<1>3. ASSUME NEW i \in 0..Len(r.headers), at[i] <= l,
             dec = Dec(Buf(w, at[i], l), "ExpectHeaders",
                       Building(r.method, r.request_uri, r.version, Firsts(r.headers, i)))
      PROVE  /\ l # Len(e) => Waiting(DecodeLoop(dec, beyond), r, at, w, l)
             /\ l = Len(e) => DecodeLoop(dec, beyond) = Dec(Buf(w, 0, 0), "ParseFinished", Expected(r))
  <2>1. dec.state = "ExpectHeaders"
    BY <1>3 DEF Dec
  <2>2. line = dec
    BY <2>1 DEF AtRequestLine
  <2> HIDE DEF line
  <2>3. /\ l # Len(e) => Waiting(AtBody(AtHeaders(dec, beyond)), r, at, w, l)
        /\ l = Len(e) => AtBody(AtHeaders(dec, beyond)) = Dec(Buf(w, 0, 0), "ParseFinished", Expected(r))
    BY <1>3, DecodedFromHeaders
  <2> QED BY <1>1, <2>2, <2>3
<1>4. ASSUME NEW m, NEW u, NEW v,
             dec = Dec(Buf(w, 0, l), "ExpectRequestLine", Building(m, u, v, <<>>))
      PROVE  /\ l # Len(e) => Waiting(DecodeLoop(dec, beyond), r, at, w, l)
             /\ l = Len(e) => DecodeLoop(dec, beyond) = Dec(Buf(w, 0, 0), "ParseFinished", Expected(r))
  <2>1. dec.state = "ExpectRequestLine"
    BY <1>4 DEF Dec
  <2>2. line = ParseRequestLine(dec)
    BY <2>1 DEF AtRequestLine
  <2>3. /\ l < at[0] =>
            \E m1, u1 : ParseRequestLine(dec) =
                Dec(Buf(w, 0, l), "ExpectRequestLine", Building(m1, u1, v, <<>>))
        /\ at[0] <= l =>
            ParseRequestLine(dec) =
                Dec(Buf(w, at[0], l), "ExpectHeaders",
                    Building(r.method, r.request_uri, r.version, <<>>))
    BY <1>4, RequestLineParsed
  <2> HIDE DEF line
  <2>4. CASE l < at[0]
    <3>1. PICK m1, u1 : line = Dec(Buf(w, 0, l), "ExpectRequestLine", Building(m1, u1, v, <<>>))
      BY <2>2, <2>3, <2>4, Zenon
    <3>2. line.state = "ExpectRequestLine"
      BY <3>1 DEF Dec
    <3>3. AtBody(AtHeaders(line, beyond)) = line
      BY <3>2 DEF AtHeaders, AtBody
    <3>4. Waiting(line, r, at, w, l)
      BY <3>1, Zenon DEF Waiting
    <3>5. l # Len(e)
      BY <1>2, <2>4
    <3> QED BY <1>1, <3>3, <3>4, <3>5
  <2>5. CASE at[0] <= l
    <3>1. line = Dec(Buf(w, at[0], l), "ExpectHeaders",
                     Building(r.method, r.request_uri, r.version, Firsts(r.headers, 0)))
      <4>1. Firsts(r.headers, 0) = <<>>
        BY FirstsOfNone
      <4> QED BY <2>2, <2>3, <2>5, <4>1
    <3>2. /\ l # Len(e) => Waiting(AtBody(AtHeaders(line, beyond)), r, at, w, l)
          /\ l = Len(e) => AtBody(AtHeaders(line, beyond)) = Dec(Buf(w, 0, 0), "ParseFinished", Expected(r))
      BY <3>1, <2>5, <1>2, DecodedFromHeaders
    <3> QED BY <1>1, <3>2
  <2> QED BY <2>4, <2>5, <1>2
<1> QED BY <1>3, <1>4, Zenon DEF Waiting

-----------------------------------------------------------------------------
(* Reading.                                                                *)

\* BaseBufferProofs, of the buffers of HttpReqDecoder.
BP == INSTANCE BaseBufferProofs
      WITH b <- <<>>, call <- <<>>, Bytes <- 0..255, SslSpace <- 0, MaxData <- 0, MaxSize <- 0

\* What BaseBufferProofs shows of a read.
LEMMA ReadAppends ==
    ASSUME NEW k, B!InRange(k), NEW data \in Seq(Byte)
    PROVE  /\ B!InRange(B!ReadBytesFromFd(k, data))
           /\ B!ToString(B!ReadBytesFromFd(k, data)) = B!ToString(k) \o data
<1>1. BP!InRange(k)
  BY DEF B!InRange, BP!InRange
<1>2. /\ BP!InRange(BP!ReadBytesFromFd(k, data))
      /\ BP!ToString(BP!ReadBytesFromFd(k, data)) = BP!ToString(k) \o data
  BY <1>1, BufferAssumption, BP!ReadIsConcatenation DEF Byte
<1>3. BP!ReadBytesFromFd(k, data) = B!ReadBytesFromFd(k, data)
  BY DEF BP!ReadBytesFromFd, B!ReadBytesFromFd, BP!AppendData, B!AppendData,
         BP!EnsureWritableSpace, B!EnsureWritableSpace, BP!Store, B!Store,
         BP!WritableBytes, B!WritableBytes, BP!ReadableBytes, B!ReadableBytes,
         BP!MovedToFront, B!MovedToFront, BP!Reallocated, B!Reallocated,
         BP!Zeros, B!Zeros, BP!NewSize, B!NewSize, BP!ToString, B!ToString
<1> QED
  BY <1>2, <1>3 DEF B!InRange, BP!InRange, B!ToString, BP!ToString

\* The buffer after a read of data behind l, w being the bytes before it.
Stored(w, x, l, data, v) ==
    /\ B!ReadBytesFromFd(Buf(w, x, l), data) = Buf(v, x, l + Len(data))
    /\ Len(v) = Len(w)
    /\ \A i \in 1..Len(w) :
          v[i] = IF l < i /\ i <= l + Len(data) THEN data[i - l] ELSE w[i]

\* A read that fits goes behind write_idx.
LEMMA ReadFits ==
    ASSUME NEW w \in Seq(Byte), NEW x, NEW l \in Nat, NEW data \in Seq(Byte),
           l + Len(data) <= Len(w)
    PROVE  \E v \in Seq(Byte) : Stored(w, x, l, data, v)
<1> DEFINE n == Len(data)  m == Len(w)  v == B!Store(w, l, data)  k == Buf(w, x, l)
<1>1. n \in Nat /\ m \in Nat /\ l + n <= m
  OBVIOUS
<1>2. v = [i \in 1..m |-> IF l < i /\ i <= l + n THEN data[i - l] ELSE w[i]]
  BY Zenon DEF B!Store
<1>3. \A i \in 1..m : v[i] = IF l < i /\ i <= l + n THEN data[i - l] ELSE w[i]
  <2> HIDE DEF v
  <2> QED BY <1>2
<1>4. v \in Seq(Byte) /\ Len(v) = m
  <2>1. \A i \in 1..m : v[i] \in Byte
    <3> SUFFICES ASSUME NEW i \in 1..m PROVE v[i] \in Byte
      OBVIOUS
    <3>1. CASE l < i /\ i <= l + n
      <4>1. i - l \in 1..n
        BY <1>1, <3>1
      <4>2. data[i - l] \in Byte
        BY <4>1
      <4> HIDE DEF v, m, n
      <4> QED BY <1>3, <3>1, <4>2
    <3>2. CASE ~(l < i /\ i <= l + n)
      <4>1. w[i] \in Byte
        OBVIOUS
      <4> HIDE DEF v, m, n
      <4> QED BY <1>3, <3>2, <4>1
    <3> QED BY <3>1, <3>2
  <2> HIDE DEF v
  <2>2. v \in [1..m -> Byte]
    <3> HIDE DEF m, n
    <3> QED BY <1>2, <2>1
  <2> HIDE DEF m
  <2> QED BY <2>2, <1>1, SeqDef
<1>5. B!ReadBytesFromFd(k, data) = Buf(v, x, l + n)
  <2>1. k.buffer = w /\ k.write_idx = l
    BY DEF Buf
  <2>2. n <= B!WritableBytes(k)
    <3>1. B!WritableBytes(k) = m - l
      BY DEF B!WritableBytes, Buf
    <3> HIDE DEF n, m, k
    <3> QED BY <1>1, <3>1
  <2> DEFINE k1 == [k EXCEPT !.buffer = B!Store(@, l, data)]
  <2>3. B!ReadBytesFromFd(k, data) =
            [k EXCEPT !.buffer = B!Store(@, k.write_idx, data), !.write_idx = @ + n]
    <3> HIDE DEF k
    <3> QED BY <2>2 DEF B!ReadBytesFromFd
  <2>4. B!ReadBytesFromFd(k, data) =
            [[k EXCEPT !.buffer = v] EXCEPT !.write_idx = l + n]
    <3> HIDE DEF k, v, n
    <3> QED BY <2>1, <2>3 DEF v
  <2> DEFINE j == [k EXCEPT !.buffer = v]
  <2> HIDE DEF v, n
  <2>5. j = Buf(v, x, l)
    BY DEF Buf
  <2> HIDE DEF j
  <2>6. [j EXCEPT !.write_idx = l + n] = Buf(v, x, l + n)
    BY <2>5 DEF Buf
  <2> HIDE DEF k
  <2> QED BY <2>4, <2>6 DEF j
<1> HIDE DEF v
<1>6. Stored(w, x, l, data, v)
  BY <1>3, <1>4, <1>5 DEF Stored
<1> QED BY <1>4, <1>6

\* A read into an empty buffer, however large, is at its front.
LEMMA ReadGrows ==
    ASSUME NEW w \in Seq(Byte), NEW data \in Seq(Byte)
    PROVE  \E v \in Seq(Byte) :
              /\ B!ReadBytesFromFd(Buf(w, 0, 0), data) = Buf(v, 0, Len(data))
              /\ Len(data) <= Len(v) /\ \A i \in 1..Len(data) : v[i] = data[i]
              /\ Len(w) <= Len(v)
<1> DEFINE k == Buf(w, 0, 0)  j == B!ReadBytesFromFd(k, data)  n == Len(data)
<1>1. B!InRange(k) /\ n \in Nat /\ k.read_idx = 0 /\ k.write_idx = 0 /\ k.buffer = w
  <2>1. k \in [buffer : Seq(Byte), read_idx : Nat, write_idx : Nat]
    BY DEF Buf
  <2>2. k.read_idx = 0 /\ k.write_idx = 0 /\ k.buffer = w /\ 0 <= Len(w)
    BY DEF Buf
  <2> HIDE DEF k
  <2> QED BY <2>1, <2>2 DEF B!InRange, Byte
<1>2. B!InRange(j) /\ B!ToString(j) = B!ToString(k) \o data
  BY <1>1, ReadAppends
<1>3. B!ToString(k) \o data = data
  <2>1. B!ToString(k) = <<>>
    <3>1. SubSeq(w, 0 + 1, 0) = <<>>
      OBVIOUS
    <3> HIDE DEF k
    <3> QED BY <1>1, <3>1 DEF B!ToString
  <2> QED BY <2>1, ConcatEmptySeq
<1>4. j.read_idx = 0
  <2> HIDE DEF k
  <2> DEFINE room == B!WritableBytes(k)
             full == [k EXCEPT !.buffer = B!Store(@, k.write_idx, SubSeq(data, 1, room)),
                               !.write_idx = Len(k.buffer)]
             more == SubSeq(data, room + 1, Len(data))
             space == B!EnsureWritableSpace(full, Len(more))
  <2>1. k \in [buffer : Seq(Byte), read_idx : Nat, write_idx : Nat]
    BY <1>1 DEF B!InRange, Byte
  <2>2. CASE Len(data) <= room
    <3>1. j = [k EXCEPT !.buffer = B!Store(@, k.write_idx, data), !.write_idx = @ + Len(data)]
      BY <2>2 DEF B!ReadBytesFromFd
    <3> QED BY <1>1, <2>1, <3>1
  <2>3. CASE ~(Len(data) <= room)
    <3>1. j = B!AppendData(full, more)
      <4> HIDE DEF full, more
      <4> QED BY <2>3, Zenon DEF B!ReadBytesFromFd, full, more
    <3>2. full.read_idx = 0 /\ DOMAIN full = {"buffer", "read_idx", "write_idx"}
      BY <1>1, <2>1
    <3> HIDE DEF full, more
    <3>3. space.read_idx = 0
      <4>1. space = full \/ space = B!MovedToFront(full) \/ space = B!Reallocated(full, Len(more))
        BY Zenon DEF B!EnsureWritableSpace
      <4>2. B!MovedToFront(full).read_idx = 0
        BY DEF B!MovedToFront
      <4>3. B!Reallocated(full, Len(more)).read_idx = 0
        <5>1. B!Reallocated(full, Len(more)).read_idx = full.read_idx
          BY <3>2 DEF B!Reallocated
        <5> QED BY <5>1, <3>2
      <4> HIDE DEF space
      <4> QED BY <4>1, <4>2, <4>3, <3>2
    <3>4. DOMAIN space = {"buffer", "read_idx", "write_idx"}
      <4>1. space = full \/ space = B!MovedToFront(full) \/ space = B!Reallocated(full, Len(more))
        BY Zenon DEF B!EnsureWritableSpace
      <4>2. DOMAIN B!MovedToFront(full) = {"buffer", "read_idx", "write_idx"}
        BY DEF B!MovedToFront
      <4>3. DOMAIN B!Reallocated(full, Len(more)) = DOMAIN full
        BY DEF B!Reallocated
      <4> HIDE DEF space
      <4> QED BY <4>1, <4>2, <4>3, <3>2
    <3>5. CASE more = <<>>
      BY <3>1, <3>2, <3>5 DEF B!AppendData
    <3>6. CASE more # <<>>
      <4>1. j = [space EXCEPT !.buffer = B!Store(@, space.write_idx, more), !.write_idx = @ + Len(more)]
        <5> HIDE DEF space
        <5> QED BY <3>1, <3>6 DEF B!AppendData, space
      <4> HIDE DEF j, space
      <4> QED BY <4>1, <3>3, <3>4
    <3> QED BY <3>5, <3>6
  <2> QED BY <2>2, <2>3
<1> HIDE DEF j, k
<1>5. /\ j \in [buffer : Seq(Byte), read_idx : Nat, write_idx : Nat]
      /\ j.write_idx <= Len(j.buffer) /\ SubSeq(j.buffer, 1, j.write_idx) = data
  <2>1. /\ j \in [buffer : Seq(Byte), read_idx : Nat, write_idx : Nat]
        /\ j.write_idx <= Len(j.buffer)
    BY <1>2 DEF B!InRange, Byte
  <2>2. SubSeq(j.buffer, 0 + 1, j.write_idx) = data
    BY <1>2, <1>3, <1>4 DEF B!ToString
  <2> QED BY <2>1, <2>2
<1> DEFINE v == j.buffer  m == j.write_idx
<1>6. v \in Seq(Byte) /\ m \in Nat /\ m <= Len(v) /\ j = Buf(v, 0, m) /\ Len(v) \in Nat
  BY <1>4, <1>5 DEF Buf
<1>7. SubSeq(v, 1, m) = data
  BY <1>5
<1> HIDE DEF v, m
<1>8. SubSeq(v, 1, m) = [i \in 1..m |-> v[i]]
  BY <1>6
<1>9. n = m /\ \A i \in 1..m : v[i] = data[i]
  <2>1. data = [i \in 1..m |-> v[i]]
    BY <1>7, <1>8, Zenon
  <2>2. DOMAIN data = 1..m
    BY <2>1, Zenon
  <2>3. n = m
    <3>1. data \in Seq(Byte)
      BY <1>1
    <3>2. Len(data) = m
      BY <2>2, <3>1, <1>6
    <3> QED BY <3>2, <1>1
  <2> QED BY <2>1, <2>3
<1>10. Len(w) <= Len(v)
  <2>1. CASE n <= Len(w)
    <3>1. 0 + Len(data) <= Len(w)
      BY <2>1, <1>1
    <3>2. PICK u \in Seq(Byte) : Stored(w, 0, 0, data, u)
      BY <3>1, ReadFits
    <3>3. j = Buf(u, 0, 0 + Len(data)) /\ Len(u) = Len(w)
      BY <3>2, Zenon DEF Stored, j, k
    <3>4. v = u
      BY <1>6, <3>3 DEF Buf
    <3> QED BY <3>3, <3>4
  <2>2. CASE ~(n <= Len(w))
    <3>1. Len(w) \in Nat
      OBVIOUS
    <3> QED BY <2>2, <3>1, <1>1, <1>6, <1>9
  <2> QED BY <2>1, <2>2
<1> QED BY <1>6, <1>9, <1>10 DEF j, k

\* The rest of a sequence.
LEMMA RestIs ==
    ASSUME NEW S, NEW s \in Seq(S), NEW n \in Nat, n <= Len(s)
    PROVE  SubSeq(s, n + 1, Len(s)) = [i \in 1..(Len(s) - n) |-> s[n + i]]
<1> DEFINE m == Len(s)  t == SubSeq(s, n + 1, m)
<1>1. m \in Nat /\ n <= m
  OBVIOUS
<1>2. t \in Seq(S) /\ Len(t) = m - n
  BY <1>1
<1>3. \A i \in 1..(m - n) : t[i] = s[n + i]
  BY <1>1
<1> HIDE DEF t
<1>4. t = [i \in 1..(m - n) |-> t[i]]
  <2> HIDE DEF m
  <2> QED BY <1>1, <1>2
<1>5. [i \in 1..(m - n) |-> t[i]] = [i \in 1..(m - n) |-> s[n + i]]
  BY <1>3, Zenon
<1> QED BY <1>4, <1>5 DEF t

\* The bytes of e behind the first l, as the client sends them.
WireFrom(e, cut, l) ==
    [i \in 1..(Len(e) - l) |-> [byte |-> e[l + i], cut |-> l + i \in cut \/ l + i = Len(e)]]

\* The wire before the first read.
LEMMA WireOfRequest ==
    ASSUME NEW e \in Seq(Byte), NEW cut
    PROVE  Marked(e, cut) = WireFrom(e, cut, 0)
<1>1. DOMAIN e = 1..Len(e) /\ Len(e) - 0 = Len(e) /\ \A i \in 1..Len(e) : 0 + i = i
  OBVIOUS
<1> QED BY <1>1, Zenon DEF Marked, WireFrom

\* The first n bytes of ws are the ones of e behind l, and the others are left.
Taken(ws, n, e, cut, l) ==
    /\ n \in Nat /\ 0 < n /\ l + n <= Len(e)
    /\ ws[n].cut => l + n \in cut \/ l + n = Len(e)
    /\ [i \in 1..n |-> ws[i].byte] = [i \in 1..n |-> e[l + i]]
    /\ SubSeq(ws, n + 1, Len(ws)) = WireFrom(e, cut, l + n)

\* What n bytes from the wire are, and what is left behind them.
LEMMA WireRead ==
    ASSUME NEW e \in Seq(Byte), NEW cut, NEW l \in Nat, l < Len(e),
           NEW n \in DOMAIN WireFrom(e, cut, l)
    PROVE  Taken(WireFrom(e, cut, l), n, e, cut, l)
<1> DEFINE ws == WireFrom(e, cut, l)  le == Len(e)
           M(i) == [byte |-> e[i], cut |-> i \in cut \/ i = le]
<1>1. le \in Nat /\ le - l \in Nat
  OBVIOUS
<1>2. ws = [i \in 1..(le - l) |-> M(l + i)]
  BY Zenon DEF WireFrom
<1>3. DOMAIN ws = 1..(le - l) /\ n \in 1..(le - l)
  BY <1>2
<1> HIDE DEF le
<1>4. n \in Nat /\ 0 < n /\ l + n <= le
  BY <1>1, <1>3
<1>5. \A i \in 1..(le - l) : ws[i] = M(l + i)
  BY <1>2, Zenon
<1> HIDE DEF ws
<1>6. ws[n].cut => l + n \in cut \/ l + n = le
  <2> DEFINE c == l + n \in cut \/ l + n = le  x == e[l + n]
  <2>1. ws[n] = [byte |-> x, cut |-> c]
    BY <1>3, <1>5, Zenon
  <2> HIDE DEF c, x
  <2>2. ws[n].cut = c
    BY <2>1
  <2>3. ws[n].cut => c
    BY <2>2, Zenon
  <2> QED BY <2>3 DEF c
<1>7. [i \in 1..n |-> ws[i].byte] = [i \in 1..n |-> e[l + i]]
  <2> SUFFICES ASSUME NEW i \in 1..n PROVE ws[i].byte = e[l + i]
    BY Zenon
  <2> DEFINE c == l + i \in cut \/ l + i = le
  <2>1. i \in 1..(le - l)
    BY <1>1, <1>3
  <2>2. ws[i] = [byte |-> e[l + i], cut |-> c]
    BY <2>1, <1>5, Zenon
  <2> HIDE DEF c
  <2> QED BY <2>2
<1>8. SubSeq(ws, n + 1, Len(ws)) = WireFrom(e, cut, l + n)
  <2> DEFINE m == le - l
  <2>1. m \in Nat /\ n <= m /\ ws = [i \in 1..m |-> ws[i]]
    <3>1. ws = [i \in 1..(le - l) |-> ws[i]]
      BY <1>2
    <3> QED BY <1>1, <1>3, <3>1
  <2> HIDE DEF m
  <2>2. ws \in Seq({ws[i] : i \in 1..m}) /\ Len(ws) = m
    <3> DEFINE Items == {ws[i] : i \in 1..m}
    <3>1. ws \in [1..m -> Items]
      BY <2>1
    <3> HIDE DEF Items
    <3>2. ws \in Seq(Items)
      BY <2>1, <3>1, SeqDef
    <3>3. Len(ws) = m
      BY <2>1, <3>1, <3>2
    <3> QED BY <3>2, <3>3 DEF Items
  <2>3. SubSeq(ws, n + 1, m) = [i \in 1..(m - n) |-> ws[n + i]]
    <3> DEFINE R0 == {ws[i] : i \in 1..m}
    <3>1. ws \in Seq(R0)
      BY <2>2
    <3> HIDE DEF R0
    <3>2. SubSeq(ws, n + 1, Len(ws)) = [i \in 1..(Len(ws) - n) |-> ws[n + i]]
      BY <2>1, <2>2, <3>1, <1>4, RestIs
    <3> QED BY <2>2, <3>2, Zenon
  <2>4. m - n = le - (l + n)
    BY <1>1, <1>4 DEF m
  <2>5. ASSUME NEW i \in 1..(le - (l + n)) PROVE ws[n + i] = M((l + n) + i)
    <3>1. n + i \in 1..(le - l) /\ l + (n + i) = (l + n) + i
      BY <1>1, <1>4
    <3>2. ws[n + i] = M(l + (n + i))
      BY <3>1, <1>5, Zenon
    <3> HIDE DEF M
    <3> QED BY <3>1, <3>2
  <2>6. SubSeq(ws, n + 1, m) = [i \in 1..(le - (l + n)) |-> M((l + n) + i)]
    <3> HIDE DEF M
    <3> QED BY <2>3, <2>4, <2>5, Zenon
  <2> QED BY <2>2, <2>6, Zenon DEF WireFrom, le
<1> QED BY <1>4, <1>6, <1>7, <1>8, Zenon DEF ws, le, Taken

\* No line of the headers is at the front of the request.
LEMMA LinesBehind ==
    ASSUME NEW r, NEW e, NEW at, Sent(r, e, at), NEW i \in 0..Len(r.headers)
    PROVE  0 < at[i]
<1> DEFINE last == Len(r.headers)
<1>1. /\ last \in Nat /\ Len(r.method) \in Nat /\ Len(r.request_uri) \in Nat /\ Len(r.version) \in Nat
      /\ \A j \in 1..last : Len(r.headers[j][1]) \in Nat /\ Len(r.headers[j][2]) \in Nat
  <2>1. r \in Request
    BY DEF Sent
  <2>2. last \in Nat /\ Len(r.method) \in Nat /\ Len(r.request_uri) \in Nat /\ Len(r.version) \in Nat
    BY <2>1 DEF Request
  <2>3. r.headers \in Seq(Seq(Byte) \X Seq(Byte))
    BY <2>1 DEF Request
  <2> DEFINE hs == r.headers
  <2> HIDE DEF hs
  <2>4. ASSUME NEW j \in 1..last PROVE Len(hs[j][1]) \in Nat /\ Len(hs[j][2]) \in Nat
    <3>1. hs[j] \in Seq(Byte) \X Seq(Byte)
      BY <2>3 DEF hs
    <3>2. hs[j][1] \in Seq(Byte) /\ hs[j][2] \in Seq(Byte)
      BY <3>1
    <3> QED BY <3>2
  <2> QED BY <2>2, <2>4 DEF hs
<1>2. /\ at \in [0..last -> Nat]
      /\ at[0] = Len(r.method) + 1 + Len(r.request_uri) + 1 + Len(r.version) + 2
  BY Zenon DEF Sent, Layout
<1>3. ASSUME NEW j \in 1..last
      PROVE  at[j] = at[j - 1] + Len(r.headers[j][1]) + 2 + Len(r.headers[j][2]) + 2
  BY Zenon DEF Sent, Layout
<1>4. CASE i = 0
  <2> DEFINE lm == Len(r.method)  lu == Len(r.request_uri)  lv == Len(r.version)
  <2>1. lm \in Nat /\ lu \in Nat /\ lv \in Nat /\ at[0] = lm + 1 + lu + 1 + lv + 2
    BY <1>1, <1>2
  <2> HIDE DEF lm, lu, lv
  <2> QED BY <1>4, <2>1
<1>5. CASE i # 0
  <2> DEFINE ln == Len(r.headers[i][1])  lv == Len(r.headers[i][2])
  <2> HIDE DEF last
  <2>1. i \in 1..last /\ i - 1 \in 0..last
    BY <1>1, <1>5 DEF last
  <2>2. ln \in Nat /\ lv \in Nat /\ at[i] = at[i - 1] + ln + 2 + lv + 2
    BY <2>1, <1>1, <1>3, Zenon
  <2>3. at[i - 1] \in Nat
    BY <2>1, <1>2
  <2> HIDE DEF ln, lv
  <2> QED BY <2>2, <2>3
<1> QED BY <1>4, <1>5

\* Behind the first l bytes, a read may end behind the p-th.
MayEnd(r, e, w, l, p) ==
    p # Len(e) => p < Len(e) - Len(r.body) /\ (Clear(e, w, l) \/ ~LooksAhead(e, p))

\* What is in the buffer after a read that fits.
LEMMA MoreArrived ==
    ASSUME NEW r, NEW e, NEW w \in Seq(Byte), NEW l \in Nat, Arrived(r, e, w, l), l < Len(e),
           NEW n \in Nat, l + n <= Len(e), MayEnd(r, e, w, l, l + n),
           NEW v \in Seq(Byte), Len(v) = Len(w),
           \A i \in 1..Len(w) : v[i] = IF l < i /\ i <= l + n THEN e[l + (i - l)] ELSE w[i]
    PROVE  Arrived(r, e, v, l + n) /\ (Clear(e, w, l) => Clear(e, v, l + n))
<1> DEFINE le == Len(e)  lw == Len(w)  a == l + n
<1>1. /\ e \in Seq(Byte) /\ le \in Nat /\ lw \in Nat /\ l < le /\ a <= le /\ le <= lw /\ a \in Nat
      /\ Len(r.method) < MethodLimit /\ Len(v) = lw
      /\ \A i \in 1..l : w[i] = e[i]
  BY DEF Arrived, Window, Buf
<1>2. \A i \in 1..lw : v[i] = IF l < i /\ i <= a THEN e[l + (i - l)] ELSE w[i]
  OBVIOUS
<1> HIDE DEF le, lw, a
<1>3. \A i \in 1..a : v[i] = e[i]
  <2> SUFFICES ASSUME NEW i \in 1..a PROVE v[i] = e[i]
    OBVIOUS
  <2>1. i \in 1..lw /\ l + (i - l) = i
    BY <1>1
  <2>2. CASE l < i
    <3>1. i <= a
      BY <1>1
    <3>2. v[i] = e[l + (i - l)]
      BY <1>2, <2>1, <2>2, <3>1
    <3> QED BY <2>1, <3>2
  <2>3. CASE ~(l < i)
    <3>1. i \in 1..l
      BY <1>1, <2>3
    <3>2. v[i] = w[i]
      BY <1>2, <2>1, <2>3
    <3> QED BY <1>1, <3>1, <3>2
  <2> QED BY <2>2, <2>3
<1>4. ASSUME Clear(e, w, l) PROVE Clear(e, v, a)
  <2>0. \A i \in (l + 1)..le : w[i] = 0
    BY <1>4 DEF Clear, le
  <2> SUFFICES ASSUME NEW i \in (a + 1)..le PROVE v[i] = 0
    BY DEF Clear, le
  <2>1. i \in 1..lw /\ i \in (l + 1)..le /\ ~(i <= a)
    BY <1>1 DEF a
  <2>2. v[i] = w[i]
    BY <1>2, <2>1
  <2> QED BY <2>0, <2>1, <2>2
<1>5. Window(Buf(v, 0, a), a, e)
  <2>1. Buf(v, 0, a).buffer = v /\ Buf(v, 0, a).write_idx = a
    BY DEF Buf
  <2>2. a <= Len(v)
    BY <1>1
  <2> QED BY <2>1, <2>2, <1>1, <1>3, Zenon DEF Window, le
<1>6. le <= Len(v)
  BY <1>1
<1>7. a # Len(e) => a < Len(e) - Len(r.body) /\ (Clear(e, v, a) \/ ~LooksAhead(e, a))
  BY <1>4, Zenon DEF MayEnd, a
<1> QED BY <1>1, <1>4, <1>5, <1>6, <1>7 DEF Arrived, le, a

\* The decoder after a read.
LEMMA DecRead ==
    ASSUME NEW k, NEW s, NEW q, NEW data
    PROVE  [Dec(k, s, q) EXCEPT !.buf = B!ReadBytesFromFd(@, data)]
              = Dec(B!ReadBytesFromFd(k, data), s, q)
<1> DEFINE j == B!ReadBytesFromFd(k, data)  dec == Dec(k, s, q)
<1>1. dec.buf = k
  BY DEF Dec
<1>2. [dec EXCEPT !.buf = j] = Dec(j, s, q)
  <2> HIDE DEF j
  <2> QED BY DEF Dec
<1>3. [dec EXCEPT !.buf = B!ReadBytesFromFd(@, data)] = [dec EXCEPT !.buf = B!ReadBytesFromFd(dec.buf, data)]
  <2> HIDE DEF dec
  <2> QED OBVIOUS
<1> HIDE DEF dec
<1> QED BY <1>1, <1>2, <1>3 DEF j, dec

\* The buffer w with the first l bytes becomes v with the first p: it does not shrink,
\* and the zeros behind are not touched.
Arrives(r, e, w, l, v, p) ==
    Arrived(r, e, v, p) /\ (Clear(e, w, l) => Clear(e, v, p)) /\ Len(w) <= Len(v)

\* A read of the next n bytes of the request: all of them in one read when the decoder
\* does not wait in the middle of it.
LEMMA ReadArrives ==
    ASSUME NEW r, NEW e, NEW at, Sent(r, e, at), NEW w \in Seq(Byte), NEW l \in Nat, l < Len(e),
           NEW n \in Nat, 0 < n, l + n <= Len(e), NEW dec, Waiting(dec, r, at, w, l),
           (Arrived(r, e, w, l) /\ MayEnd(r, e, w, l, l + n)) \/ (l = 0 /\ n = Len(e)),
           NEW data, data = [i \in 1..n |-> e[l + i]]
    PROVE  \E v \in Seq(Byte) :
              /\ Arrives(r, e, w, l, v, l + n)
              /\ Waiting([dec EXCEPT !.buf = B!ReadBytesFromFd(@, data)], r, at, v, l + n)
<1> DEFINE next == [dec EXCEPT !.buf = B!ReadBytesFromFd(@, data)]
<1>1. e \in Seq(Byte) /\ Len(e) \in Nat
  BY DEF Sent, Layout
<1>2. data \in Seq(Byte) /\ Len(data) = n /\ \A i \in 1..n : data[i] = e[l + i]
  <2> DEFINE le == Len(e)
  <2>1. le \in Nat /\ l + n <= le
    BY <1>1
  <2>2. \A i \in 1..n : data[i] = e[l + i]
    BY Zenon
  <2>3. \A i \in 1..n : e[l + i] \in Byte
    <3> SUFFICES ASSUME NEW i \in 1..n PROVE e[l + i] \in Byte
      OBVIOUS
    <3>1. l + i \in 1..le
      <4> HIDE DEF le
      <4> QED BY <2>1
    <3> QED BY <1>1, <3>1
  <2>4. data \in [1..n -> Byte]
    BY <2>3
  <2>5. data \in Seq(Byte)
    BY <2>4, SeqDef
  <2>6. DOMAIN data = 1..n
    BY <2>4
  <2>7. Len(data) = n
    BY <2>5, <2>6
  <2> QED BY <2>2, <2>5, <2>7
<1> DEFINE Fits(x, v) == /\ B!ReadBytesFromFd(Buf(w, x, l), data) = Buf(v, x, l + n)
                         /\ Arrives(r, e, w, l, v, l + n)
<1>3. ASSUME NEW x, Arrived(r, e, w, l), MayEnd(r, e, w, l, l + n)
      PROVE  \E v \in Seq(Byte) : Fits(x, v)
  <2>1. Len(e) <= Len(w) /\ Len(w) \in Nat
    BY <1>1, <1>3 DEF Arrived
  <2>2. l + Len(data) <= Len(w)
    BY <1>1, <1>2, <2>1
  <2>0. PICK v \in Seq(Byte) : Stored(w, x, l, data, v)
    BY <1>2, <2>2, ReadFits
  <2>3. /\ B!ReadBytesFromFd(Buf(w, x, l), data) = Buf(v, x, l + Len(data))
        /\ Len(v) = Len(w)
        /\ \A i \in 1..Len(w) :
              v[i] = IF l < i /\ i <= l + Len(data) THEN data[i - l] ELSE w[i]
    BY <2>0, Zenon DEF Stored
  <2> DEFINE lw == Len(w)
  <2>4. ASSUME NEW i \in 1..lw
        PROVE  v[i] = IF l < i /\ i <= l + n THEN e[l + (i - l)] ELSE w[i]
    <3>1. v[i] = IF l < i /\ i <= l + n THEN data[i - l] ELSE w[i]
      BY <2>3, <1>2, Zenon
    <3>2. l < i /\ i <= l + n => i - l \in 1..n
      <4>1. i \in Int
        BY <2>1
      <4> QED BY <4>1
    <3> QED BY <3>1, <3>2, <1>2
  <2>5. Arrived(r, e, v, l + n) /\ (Clear(e, w, l) => Clear(e, v, l + n))
    BY <1>3, <2>3, <2>4, MoreArrived
  <2>6. Arrives(r, e, w, l, v, l + n)
    BY <2>1, <2>3, <2>5 DEF Arrives
  <2> QED BY <2>3, <2>6, <1>2
<1>4. ASSUME l = 0, n = Len(e) PROVE \E v \in Seq(Byte) : Fits(0, v)
  <2>1. PICK v \in Seq(Byte) :
              /\ B!ReadBytesFromFd(Buf(w, 0, 0), data) = Buf(v, 0, Len(data))
              /\ Len(data) <= Len(v) /\ \A i \in 1..Len(data) : v[i] = data[i]
              /\ Len(w) <= Len(v)
    BY <1>2, ReadGrows
  <2>2. /\ B!ReadBytesFromFd(Buf(w, 0, l), data) = Buf(v, 0, l + n)
        /\ n <= Len(v) /\ \A i \in 1..n : v[i] = data[i]
    <3>1. l + n = n
      BY <1>4
    <3> QED BY <1>2, <1>4, <2>1, <3>1
  <2>3. \A i \in 1..n : v[i] = e[i]
    <3>1. \A i \in 1..n : l + i = i
      BY <1>4
    <3> QED BY <1>2, <2>2, <3>1
  <2>4. Window(Buf(v, 0, n), n, e)
    BY <1>1, <1>4, <2>2, <2>3 DEF Window, Buf
  <2>5. Arrived(r, e, v, l + n)
    <3>1. l + n = n
      BY <1>4
    <3> QED BY <1>4, <2>4, <3>1 DEF Arrived
  <2>6. Clear(e, v, l + n)
    <3>1. ((l + n) + 1)..Len(e) = {}
      BY <1>1, <1>4
    <3> QED BY <3>1 DEF Clear
  <2>7. Arrives(r, e, w, l, v, l + n)
    BY <2>1, <2>5, <2>6 DEF Arrives
  <2> QED BY <2>2, <2>7
<1>5. ASSUME NEW x, NEW s, NEW q, dec = Dec(Buf(w, x, l), s, q),
             NEW v, Fits(x, v)
      PROVE  next = Dec(Buf(v, x, l + n), s, q)
  <2>1. next = Dec(B!ReadBytesFromFd(Buf(w, x, l), data), s, q)
    <3> DEFINE D == Dec(Buf(w, x, l), s, q)
    <3>1. [D EXCEPT !.buf = B!ReadBytesFromFd(@, data)]
              = Dec(B!ReadBytesFromFd(Buf(w, x, l), data), s, q)
      BY DecRead
    <3>2. dec = D
      BY <1>5
    <3> HIDE DEF D
    <3> QED BY <3>1, <3>2
  <2> HIDE DEF next
  <2> QED BY <2>1, <1>5, Zenon
<1> HIDE DEF next
<1>6. ASSUME NEW m, NEW u, NEW z,
             dec = Dec(Buf(w, 0, l), "ExpectRequestLine", Building(m, u, z, <<>>))
      PROVE  \E v \in Seq(Byte) : Arrives(r, e, w, l, v, l + n) /\ Waiting(next, r, at, v, l + n)
  <2>1. PICK v \in Seq(Byte) : Fits(0, v)
    <3> HIDE DEF Fits
    <3> QED BY <1>3, <1>4, Zenon
  <2>2. next = Dec(Buf(v, 0, l + n), "ExpectRequestLine", Building(m, u, z, <<>>))
    <3> HIDE DEF Fits
    <3> QED BY <1>5, <1>6, <2>1, Zenon
  <2>3. Waiting(next, r, at, v, l + n)
    BY <2>2, Zenon DEF Waiting
  <2> QED BY <2>1, <2>3, Zenon
<1>7. ASSUME NEW i \in 0..Len(r.headers), at[i] <= l,
             dec = Dec(Buf(w, at[i], l), "ExpectHeaders",
                       Building(r.method, r.request_uri, r.version, Firsts(r.headers, i)))
      PROVE  \E v \in Seq(Byte) : Arrives(r, e, w, l, v, l + n) /\ Waiting(next, r, at, v, l + n)
  <2>1. 0 < at[i] /\ at[i] \in Nat
    <3>1. at \in [0..Len(r.headers) -> Nat]
      BY Zenon DEF Sent, Layout
    <3> QED BY <3>1, LinesBehind
  <2>2. l # 0 /\ at[i] <= l + n
    BY <2>1, <1>7
  <2>3. PICK v \in Seq(Byte) : Fits(at[i], v)
    <3> HIDE DEF Fits
    <3> QED BY <1>3, <2>2, Zenon
  <2>4. next = Dec(Buf(v, at[i], l + n), "ExpectHeaders",
                   Building(r.method, r.request_uri, r.version, Firsts(r.headers, i)))
    <3> HIDE DEF Fits
    <3> QED BY <1>5, <1>7, <2>3, Zenon
  <2>5. Waiting(next, r, at, v, l + n)
    BY <2>2, <2>4, Zenon DEF Waiting
  <2> QED BY <2>3, <2>5, Zenon
<1> QED BY <1>6, <1>7, Zenon DEF Waiting, next
-----------------------------------------------------------------------------
(* The response.                                                           *)

\* The response after each of the calls.
Builds(calls, f) ==
    f = [n \in 0..Len(calls) |-> IF n = 0 THEN R!NewResp ELSE R!Call(f[n - 1], calls[n])]

\* There is such a function.
LEMMA BuildsExists ==
    ASSUME NEW calls, Len(calls) \in Nat
    PROVE  \E f : Builds(calls, f)
<1> DEFINE P(f, n) == f = [i \in 0..n |-> IF i = 0 THEN R!NewResp ELSE R!Call(f[i - 1], calls[i])]
           T == {n \in Nat : \E f : P(f, n)}
<1>1. 0 \in T
  <2>1. P([i \in 0..0 |-> R!NewResp], 0)
    OBVIOUS
  <2> QED BY <2>1
<1>2. ASSUME NEW n \in Nat, n \in T PROVE n + 1 \in T
  <2>1. PICK f : P(f, n)
    BY <1>2
  <2> DEFINE new == R!Call(f[n], calls[n + 1])
             g == [i \in 0..(n + 1) |-> IF i = n + 1 THEN new ELSE f[i]]
  <2>2. ASSUME NEW i \in 0..(n + 1)
        PROVE  g[i] = IF i = 0 THEN R!NewResp ELSE R!Call(g[i - 1], calls[i])
    <3> HIDE DEF new
    <3>1. CASE i = 0
      <4>1. g[i] = f[0] /\ f[0] = R!NewResp
        BY <2>1, <3>1
      <4> QED BY <4>1, <3>1
    <3>2. CASE i = n + 1
      <4>1. g[n + 1] = new /\ g[n] = f[n] /\ i # 0 /\ i - 1 = n
        BY <3>2
      <4> HIDE DEF g
      <4> QED BY <4>1, <3>2, Zenon DEF new
    <3>3. CASE i # 0 /\ i # n + 1
      <4>1. i \in 0..n /\ i - 1 \in 0..n
        BY <3>3
      <4>2. g[i] = f[i] /\ g[i - 1] = f[i - 1]
        BY <4>1
      <4>3. f[i] = R!Call(f[i - 1], calls[i])
        BY <2>1, <4>1, <3>3
      <4> HIDE DEF g
      <4> QED BY <4>2, <4>3, <3>3
    <3> QED BY <3>1, <3>2, <3>3
  <2>3. g = [i \in 0..(n + 1) |-> IF i = 0 THEN R!NewResp ELSE R!Call(g[i - 1], calls[i])]
    <3>1. g = [i \in 0..(n + 1) |-> g[i]]
      OBVIOUS
    <3> HIDE DEF g
    <3> QED BY <2>2, <3>1, Zenon
  <2>4. P(g, n + 1)
    BY <2>3, Zenon
  <2> HIDE DEF P, g
  <2> QED BY <2>4
<1>3. Len(calls) \in T
  <2> HIDE DEF T
  <2> QED BY <1>1, <1>2, Induction
<1> QED BY <1>3, Zenon DEF Builds

\* The loop of the calls.
LEMMA BuiltIs ==
    ASSUME NEW calls, Len(calls) \in Nat
    PROVE  \E f : /\ f[0] = R!NewResp /\ R!Built(calls) = f[Len(calls)]
                  /\ \A n \in 0..Len(calls) : n # Len(calls) => f[n + 1] = R!Call(f[n], calls[n + 1])
<1> DEFINE m == Len(calls)
           after[n \in 0..m] == IF n = 0 THEN R!NewResp ELSE R!Call(after[n - 1], calls[n])
<1>1. PICK f : f = [n \in 0..m |-> IF n = 0 THEN R!NewResp ELSE R!Call(f[n - 1], calls[n])]
  BY BuildsExists, Zenon DEF Builds
<1>2. R!Built(calls) = after[m]
  BY Zenon DEF R!Built
<1>3. after = [n \in 0..m |-> IF n = 0 THEN R!NewResp ELSE R!Call(after[n - 1], calls[n])]
  <2> HIDE DEF m
  <2> QED BY <1>1, Zenon DEF after
<1> HIDE DEF after
<1>4. m \in Nat
  OBVIOUS
<1> HIDE DEF m
<1>5. after[0] = R!NewResp
  BY <1>3, <1>4
<1>6. ASSUME NEW n \in 0..m, n # m PROVE after[n + 1] = R!Call(after[n], calls[n + 1])
  <2>1. n + 1 \in 0..m /\ n + 1 # 0 /\ (n + 1) - 1 = n
    BY <1>4, <1>6
  <2>2. after[n + 1] = R!Call(after[(n + 1) - 1], calls[n + 1])
    BY <1>3, <2>1, Zenon
  <2> QED BY <2>1, <2>2
<1> QED BY <1>2, <1>5, <1>6, Zenon DEF m

\* The members of HttpResp.
RespFields == {"headers", "status_code", "body"}

\* What AddHeader makes of the headers.
Put(hs, name, value, several) ==
    IF several \/ R!Lines(hs, name) = {} THEN R!Emplace(hs, name, value)
    ELSE [hs EXCEPT ![Min(R!Lines(hs, name))][2] = value]

\* AddHeader changes the headers and nothing else.
LEMMA AddHeaderIs ==
    ASSUME NEW r, DOMAIN r = RespFields, NEW name, NEW value, NEW several \in BOOLEAN
    PROVE  /\ DOMAIN R!AddHeader(r, name, value, several) = RespFields
           /\ R!AddHeader(r, name, value, several).headers = Put(r.headers, name, value, several)
           /\ R!AddHeader(r, name, value, several).body = r.body
<1> DEFINE hs == r.headers  found == R!Lines(hs, name)  i == Min(found)
           s == R!AddHeader(r, name, value, several)
           new == R!Emplace(hs, name, value)
           over == [hs EXCEPT ![i][2] = value]
<1>1. s = IF several \/ found = {} THEN [r EXCEPT !.headers = new]
          ELSE [r EXCEPT !.headers[i][2] = value]
  <2>1. R!Min(found) = i
    BY Zenon DEF R!Min, Min
  <2>2. s = IF several \/ found = {} THEN [r EXCEPT !.headers = new]
            ELSE [r EXCEPT !.headers[R!Min(found)][2] = value]
    BY Zenon DEF R!AddHeader, R!Lines
  <2> QED BY <2>1, <2>2, Zenon
<1> HIDE DEF i, s, found, new
<1>2. [r EXCEPT !.headers[i][2] = value] = [r EXCEPT !.headers = over]
  OBVIOUS
<1>3. Put(hs, name, value, several) = IF several \/ found = {} THEN new ELSE over
  BY Zenon DEF Put, found, i, new
<1> HIDE DEF over
<1>4. CASE several \/ found = {}
  <2>1. s = [r EXCEPT !.headers = new] /\ Put(hs, name, value, several) = new
    BY <1>1, <1>3, <1>4, Zenon
  <2> QED BY <2>1 DEF RespFields, s
<1>5. CASE ~(several \/ found = {})
  <2>1. s = [r EXCEPT !.headers = over] /\ Put(hs, name, value, several) = over
    BY <1>1, <1>2, <1>3, <1>5, Zenon
  <2> QED BY <2>1 DEF RespFields, s
<1> QED BY <1>4, <1>5, Zenon

\* What a call makes of the headers and of the body.
HeadersAfter(hs, call) ==
    IF R!NameOf(call) = R!NoName THEN hs
    ELSE Put(hs, R!NameOf(call), R!ValueOf(call), R!IsOneOfSeveral(call))

BodyAfter(b, call) ==
    IF call[1] = "SetBody" THEN call[2]
    ELSE IF call[1] = "AppendBody" THEN b \o call[2] ELSE b

Called(r, s, call) ==
    DOMAIN s = RespFields /\ s.headers = HeadersAfter(r.headers, call) /\ s.body = BodyAfter(r.body, call)

\* What each of the calls an application makes does to the response.
LEMMA CallIs ==
    ASSUME NEW r, DOMAIN r = RespFields, NEW call, R!IsCall(call)
    PROVE  Called(r, R!Call(r, call), call)
<1> DEFINE s == R!Call(r, call)  hs == r.headers  b == r.body
<1> SUFFICES Called(r, s, call)
  OBVIOUS
<1>1. ASSUME NEW q, DOMAIN q = RespFields, q.headers = hs, q.body = b,
             NEW name, NEW value, NEW several \in BOOLEAN,
             s = R!AddHeader(q, name, value, several),
             R!NameOf(call) = name, name # R!NoName, R!ValueOf(call) = value,
             R!IsOneOfSeveral(call) = several, BodyAfter(b, call) = b
      PROVE  Called(r, s, call)
  <2> HIDE DEF s
  <2>1. /\ DOMAIN s = RespFields /\ s.headers = Put(hs, name, value, several) /\ s.body = b
    <3> DEFINE x == R!AddHeader(q, name, value, several)
    <3>1. /\ DOMAIN x = RespFields /\ x.headers = Put(q.headers, name, value, several)
          /\ x.body = q.body
      BY <1>1, AddHeaderIs
    <3>2. s = x
      BY <1>1
    <3> HIDE DEF x
    <3> QED BY <1>1, <3>1, <3>2, Zenon
  <2>2. HeadersAfter(hs, call) = Put(hs, name, value, several)
    BY <1>1, Zenon DEF HeadersAfter
  <2> QED BY <2>1, <2>2, <1>1, Zenon DEF Called
<1>2. CASE call[1] = "AddHeader"
  <2>1. /\ s = R!AddHeader(r, call[2], call[3], call[4]) /\ R!NameOf(call) = call[2]
        /\ R!ValueOf(call) = call[3] /\ BodyAfter(b, call) = b
    BY <1>2 DEF R!Call, R!NameOf, R!ValueOf, BodyAfter
  <2>2. call[2] # R!NoName /\ call[4] \in BOOLEAN
    BY <1>2 DEF R!IsCall, R!NoName
  <2>3. R!IsOneOfSeveral(call) <=> call[4]
    BY <1>2 DEF R!IsOneOfSeveral
  <2>4. R!IsOneOfSeveral(call) = call[4]
    BY <2>2, <2>3, Zenon DEF R!IsOneOfSeveral
  <2> HIDE DEF s
  <2> QED BY <1>1, <2>1, <2>2, <2>4, Zenon
<1>3. CASE call[1] = "SetContentType"
  <2>1. /\ s = R!AddHeader(r, R!ContentType, call[2], FALSE) /\ R!NameOf(call) = R!ContentType
        /\ R!ValueOf(call) = call[2] /\ BodyAfter(b, call) = b /\ R!ContentType # R!NoName
    BY <1>3 DEF R!Call, R!SetContentType, R!NameOf, R!ValueOf, BodyAfter, R!ContentType, R!NoName
  <2>2. R!IsOneOfSeveral(call) = FALSE
    BY <1>3 DEF R!IsOneOfSeveral
  <2> HIDE DEF s
  <2> QED BY <1>1, <2>1, <2>2, Zenon
<1>4. CASE call[1] = "SetServer"
  <2>1. /\ s = R!AddHeader(r, R!Server, call[2], FALSE) /\ R!NameOf(call) = R!Server
        /\ R!ValueOf(call) = call[2] /\ BodyAfter(b, call) = b /\ R!Server # R!NoName
    BY <1>4 DEF R!Call, R!SetServer, R!NameOf, R!ValueOf, BodyAfter, R!Server, R!NoName
  <2>2. R!IsOneOfSeveral(call) = FALSE
    BY <1>4 DEF R!IsOneOfSeveral
  <2> HIDE DEF s
  <2> QED BY <1>1, <2>1, <2>2, Zenon
<1>5. CASE call[1] = "SetRedirect"
  <2> DEFINE q == [r EXCEPT !.status_code = call[3]]
  <2>1. /\ s = R!AddHeader(q, R!Location, call[2], FALSE) /\ R!NameOf(call) = R!Location
        /\ R!ValueOf(call) = call[2] /\ BodyAfter(b, call) = b /\ R!Location # R!NoName
    <3> HIDE DEF q
    <3> QED BY <1>5 DEF R!Call, R!SetRedirect, R!NameOf, R!ValueOf, BodyAfter, R!Location, R!NoName, q
  <2>2. R!IsOneOfSeveral(call) = FALSE
    BY <1>5 DEF R!IsOneOfSeveral
  <2>3. DOMAIN q = RespFields /\ q.headers = hs /\ q.body = b
    BY DEF RespFields
  <2> HIDE DEF s, q
  <2> QED BY <1>1, <2>1, <2>2, <2>3, Zenon
<1>6. CASE call[1] = "AddEtag"
  <2>1. /\ s = R!AddHeader(r, R!Etag, call[2], TRUE) /\ R!NameOf(call) = R!Etag
        /\ R!ValueOf(call) = call[2] /\ BodyAfter(b, call) = b /\ R!Etag # R!NoName
    BY <1>6 DEF R!Call, R!AddEtag, R!NameOf, R!ValueOf, BodyAfter, R!Etag, R!NoName
  <2>2. R!IsOneOfSeveral(call) = TRUE
    BY <1>6, Zenon DEF R!IsOneOfSeveral
  <2> HIDE DEF s
  <2> QED BY <1>1, <2>1, <2>2, Zenon
<1>7. CASE call[1] = "SetKeepAlive"
  <2>1. /\ s = R!AddHeader(r, R!Connection, R!KeepAlive, FALSE) /\ R!NameOf(call) = R!Connection
        /\ R!ValueOf(call) = R!KeepAlive /\ BodyAfter(b, call) = b /\ R!Connection # R!NoName
    BY <1>7 DEF R!Call, R!SetKeepAlive, R!NameOf, R!ValueOf, BodyAfter, R!Connection, R!NoName
  <2>2. R!IsOneOfSeveral(call) = FALSE
    BY <1>7 DEF R!IsOneOfSeveral
  <2> HIDE DEF s
  <2> QED BY <1>1, <2>1, <2>2, Zenon
<1>8. CASE call[1] = "SetStatus"
  <2>1. s = [r EXCEPT !.status_code = call[2]] /\ R!NameOf(call) = R!NoName /\ BodyAfter(b, call) = b
    BY <1>8 DEF R!Call, R!SetStatus, R!NameOf, BodyAfter
  <2>2. HeadersAfter(hs, call) = hs
    BY <2>1, Zenon DEF HeadersAfter
  <2> HIDE DEF s
  <2> QED BY <2>1, <2>2 DEF Called, RespFields
<1>9. CASE call[1] = "SetBody"
  <2>1. s = [r EXCEPT !.body = call[2]] /\ R!NameOf(call) = R!NoName /\ BodyAfter(b, call) = call[2]
    BY <1>9 DEF R!Call, R!SetBody, R!NameOf, BodyAfter
  <2>2. HeadersAfter(hs, call) = hs
    BY <2>1, Zenon DEF HeadersAfter
  <2> HIDE DEF s
  <2> QED BY <2>1, <2>2 DEF Called, RespFields
<1>10. CASE call[1] = "AppendBody"
  <2> DEFINE c == b \o call[2]
  <2>1. s = [r EXCEPT !.body = c] /\ R!NameOf(call) = R!NoName /\ BodyAfter(b, call) = c
    BY <1>10 DEF R!Call, R!AppendBody, R!NameOf, BodyAfter
  <2>2. HeadersAfter(hs, call) = hs
    BY <2>1, Zenon DEF HeadersAfter
  <2> HIDE DEF s, c
  <2> QED BY <2>1, <2>2 DEF Called, RespFields
<1>11. call[1] \in {"AddHeader", "SetContentType", "SetServer", "SetRedirect", "AddEtag",
                    "SetKeepAlive", "SetStatus", "SetBody", "AppendBody"}
  BY DEF R!IsCall
<1> HIDE DEF s
<1> QED BY <1>2, <1>3, <1>4, <1>5, <1>6, <1>7, <1>8, <1>9, <1>10, <1>11

\* The headers of a response.
Pairs == Nat \X Nat
Sorted(hs) == \A i, j \in DOMAIN hs : i <= j => hs[i][1] <= hs[j][1]

\* hs2 is hs with the pair at p, behind the names that are not greater.
Emplaced(hs, hs2, p, name, value) ==
    /\ hs \in Seq(Pairs) /\ hs2 \in Seq(Pairs) /\ Len(hs) \in Nat /\ Len(hs2) = Len(hs) + 1
    /\ p \in 1..(Len(hs) + 1) /\ hs2[p] = <<name, value>>
    /\ \A i \in 1..Len(hs) : i < p => hs2[i] = hs[i] /\ hs[i][1] <= name
    /\ \A i \in 1..Len(hs) : p <= i => hs2[i + 1] = hs[i] /\ name < hs[i][1]

\* The name and the value of a header.
LEMMA PairIs ==
    ASSUME NEW x \in Pairs
    PROVE  x[1] \in Nat /\ x[2] \in Nat /\ x = <<x[1], x[2]>>
BY DEF Pairs

\* emplace keeps the pairs in their order and puts the new one behind its equals.
LEMMA EmplaceIs ==
    ASSUME NEW hs \in Seq(Pairs), Sorted(hs), NEW name \in Nat, NEW value \in Nat
    PROVE  \E p : Emplaced(hs, R!Emplace(hs, name, value), p, name, value)
<1> DEFINE m == Len(hs)
           T == {i \in Nat : 1 <= i /\ (i <= m => name < hs[i][1])}
           before == {i \in DOMAIN hs : hs[i][1] <= name}
<1>1. m \in Nat /\ DOMAIN hs = 1..m /\ \A i \in 1..m : hs[i] \in Pairs /\ hs[i][1] \in Nat
  <2>1. m \in Nat /\ DOMAIN hs = 1..m /\ \A i \in 1..m : hs[i] \in Pairs
    OBVIOUS
  <2> QED BY <2>1, PairIs
<1> HIDE DEF m
<1>2. PICK p \in T : \A y \in T : p <= y
  <2>1. m + 1 \in T /\ T \subseteq Nat
    BY <1>1
  <2>2. T # {}
    BY <2>1
  <2> HIDE DEF T
  <2> QED BY <2>1, <2>2, Smallest
<1>3. p \in 1..(m + 1)
  <2>1. m + 1 \in T
    BY <1>1
  <2> QED BY <1>1, <1>2, <2>1
<1>4. \A i \in 1..m : i < p => hs[i][1] <= name
  <2> SUFFICES ASSUME NEW i \in 1..m, i < p PROVE hs[i][1] <= name
    OBVIOUS
  <2>1. i \notin T
    <3> HIDE DEF T
    <3>1. i \in Nat /\ p \in Nat
      BY <1>1, <1>3
    <3> QED BY <1>2, <3>1
  <2>2. hs[i][1] \in Nat
    BY <1>1
  <2> QED BY <1>1, <2>1, <2>2
<1>5. \A i \in 1..m : p <= i => name < hs[i][1]
  <2> SUFFICES ASSUME NEW i \in 1..m, p <= i PROVE name < hs[i][1]
    OBVIOUS
  <2>1. p \in 1..m
    BY <1>1, <1>3
  <2>2. name < hs[p][1] /\ hs[p][1] <= hs[i][1] /\ hs[p][1] \in Nat /\ hs[i][1] \in Nat
    BY <1>1, <1>2, <2>1 DEF Sorted
  <2> QED BY <2>2
<1>6. before = 1..(p - 1)
  <2>1. \A i \in 1..m : hs[i][1] <= name <=> i < p
    <3> SUFFICES ASSUME NEW i \in 1..m PROVE hs[i][1] <= name <=> i < p
      OBVIOUS
    <3>1. hs[i][1] \in Nat /\ p \in Nat /\ i \in Nat
      BY <1>1, <1>3
    <3> QED BY <1>4, <1>5, <3>1
  <2> QED BY <1>1, <1>3, <2>1
<1>7. R!Cardinality(before) + 1 = p
  <2>1. R!Cardinality(before) = Cardinality(before)
    BY Zenon DEF R!Cardinality, Cardinality
  <2>2. Cardinality(1..(p - 1)) = IF 1 > p - 1 THEN 0 ELSE (p - 1) - 1 + 1
    <3>1. p - 1 \in Int /\ 1 \in Int
      BY <1>1, <1>3
    <3> QED BY <3>1, FS_Interval
  <2> HIDE DEF before
  <2> QED BY <1>1, <1>3, <1>6, <2>1, <2>2
<1> DEFINE e == <<name, value>>  left == SubSeq(hs, 1, p - 1)  right == SubSeq(hs, p, m)
           hs2 == left \o <<e>> \o right
<1>8. R!Emplace(hs, name, value) = hs2
  <2>1. R!Emplace(hs, name, value) = R!InsertAt(hs, R!Cardinality(before) + 1, e)
    BY Zenon DEF R!Emplace
  <2>2. R!InsertAt(hs, p, e) = SubSeq(hs, 1, p - 1) \o <<e>> \o SubSeq(hs, p, Len(hs))
    BY Zenon DEF R!InsertAt
  <2> HIDE DEF before
  <2> QED BY <2>1, <2>2, <1>7, Zenon DEF m
<1>9. /\ left \in Seq(Pairs) /\ Len(left) = p - 1 /\ \A i \in 1..(p - 1) : left[i] = hs[i]
  <2>1. p - 1 \in Nat /\ p - 1 <= m
    BY <1>1, <1>3
  <2> QED BY <2>1 DEF m
<1>10. right \in Seq(Pairs) /\ Len(right) = m + 1 - p /\ \A i \in 1..(m + 1 - p) : right[i] = hs[p - 1 + i]
  <2> DEFINE n == p - 1
  <2>1. n \in Nat /\ n <= m /\ p = n + 1
    BY <1>1, <1>3
  <2> HIDE DEF n
  <2>2. SubSeq(hs, n + 1, m) \in Seq(Pairs) /\ Len(SubSeq(hs, n + 1, m)) = m - n
    BY <2>1 DEF m
  <2>3. \A i \in 1..(m - n) : SubSeq(hs, n + 1, m)[i] = hs[n + i]
    BY <2>1 DEF m
  <2>4. m - n = m + 1 - p /\ right = SubSeq(hs, n + 1, m)
    BY <1>1, <2>1
  <2> HIDE DEF right
  <2> QED BY <2>2, <2>3, <2>4 DEF n
<1> HIDE DEF left, right
<1>11. e \in Pairs /\ <<e>> \in Seq(Pairs) /\ Len(<<e>>) = 1 /\ <<e>>[1] = e
  <2>1. e \in Pairs
    BY DEF Pairs
  <2> HIDE DEF e
  <2> QED BY <2>1
<1> HIDE DEF e
<1> DEFINE front == left \o <<e>>
<1>12. /\ front \in Seq(Pairs) /\ Len(front) = p /\ front[p] = e
       /\ \A i \in 1..(p - 1) : front[i] = hs[i]
  <2>1. front \in Seq(Pairs) /\ Len(front) = (p - 1) + 1
    BY <1>9, <1>11
  <2>2. (p - 1) + 1 = p /\ p - 1 \in Nat /\ p \in Nat
    BY <1>1, <1>3
  <2>3. \A i \in 1..(p - 1) : front[i] = left[i]
    BY <1>9, <1>11, <2>2
  <2>4. front[p] = e
    BY <1>9, <1>11, <2>2
  <2> QED BY <1>9, <2>1, <2>2, <2>3, <2>4
<1> HIDE DEF front
<1>13. /\ hs2 \in Seq(Pairs) /\ Len(hs2) = m + 1
       /\ \A i \in 1..p : hs2[i] = front[i]
       /\ \A i \in 1..(m + 1 - p) : hs2[p + i] = hs[p - 1 + i]
  <2>1. hs2 = front \o right
    BY DEF front
  <2> HIDE DEF hs2
  <2>2. hs2 \in Seq(Pairs) /\ Len(hs2) = p + (m + 1 - p)
    <3>1. front \in Seq(Pairs) /\ right \in Seq(Pairs)
      BY <1>10, <1>12
    <3>2. hs2 \in Seq(Pairs) /\ Len(hs2) = Len(front) + Len(right)
      BY <2>1, <3>1, ConcatProperties
    <3> QED BY <1>10, <1>12, <3>2
  <2>3. p + (m + 1 - p) = m + 1
    BY <1>1, <1>3
  <2>4. \A i \in 1..p : hs2[i] = front[i]
    BY <1>10, <1>12, <2>1
  <2>5. \A i \in 1..(m + 1 - p) : hs2[p + i] = right[i]
    BY <1>10, <1>12, <2>1
  <2> QED BY <1>10, <2>2, <2>3, <2>4, <2>5
<1> HIDE DEF hs2
<1>14. hs2[p] = e
  BY <1>3, <1>12, <1>13
<1>15. ASSUME NEW i \in 1..m, i < p PROVE hs2[i] = hs[i]
  <2>1. i \in 1..p /\ i \in 1..(p - 1)
    BY <1>1, <1>3, <1>15
  <2> QED BY <1>12, <1>13, <2>1
<1>16. ASSUME NEW i \in 1..m, p <= i PROVE hs2[i + 1] = hs[i]
  <2> DEFINE j == i + 1 - p
  <2>1. j \in 1..(m + 1 - p) /\ p + j = i + 1 /\ p - 1 + j = i
    BY <1>1, <1>3, <1>16
  <2> HIDE DEF j
  <2> QED BY <1>13, <2>1
<1>17. Emplaced(hs, hs2, p, name, value)
  BY <1>1, <1>3, <1>4, <1>5, <1>13, <1>14, <1>15, <1>16 DEF Emplaced, m, e
<1> QED BY <1>8, <1>17, Zenon

\* The headers stay sorted.
LEMMA EmplacedSorted ==
    ASSUME NEW hs, NEW hs2, NEW p, NEW name \in Nat, NEW value \in Nat,
           Emplaced(hs, hs2, p, name, value), Sorted(hs)
    PROVE  Sorted(hs2)
<1> DEFINE m == Len(hs)
<1>1. /\ hs \in Seq(Pairs) /\ m \in Nat /\ p \in 1..(m + 1) /\ DOMAIN hs2 = 1..(m + 1)
      /\ DOMAIN hs = 1..m /\ \A i \in 1..m : hs[i][1] \in Nat
  <2>1. hs \in Seq(Pairs) /\ m \in Nat /\ p \in 1..(m + 1) /\ hs2 \in Seq(Pairs) /\ Len(hs2) = m + 1
    BY Zenon DEF Emplaced
  <2>2. DOMAIN hs2 = 1..(m + 1) /\ DOMAIN hs = 1..m /\ \A i \in 1..m : hs[i] \in Pairs
    BY <2>1
  <2> QED BY <2>1, <2>2, PairIs
<1>2. /\ hs2[p][1] = name
      /\ \A i \in 1..m : i < p => hs2[i] = hs[i] /\ hs[i][1] <= name
      /\ \A i \in 1..m : p <= i => hs2[i + 1] = hs[i] /\ name < hs[i][1]
  BY DEF Emplaced
<1>3. \A i, j \in 1..m : i <= j => hs[i][1] <= hs[j][1]
  BY <1>1 DEF Sorted
<1> HIDE DEF m
<1> SUFFICES ASSUME NEW i \in 1..(m + 1), NEW j \in 1..(m + 1), i <= j
             PROVE  hs2[i][1] <= hs2[j][1]
  BY <1>1 DEF Sorted
<1>4. ASSUME NEW x \in 1..(m + 1), x < p PROVE x \in 1..m /\ hs2[x] = hs[x] /\ hs[x][1] <= name /\ hs[x][1] \in Nat
  <2>1. x \in 1..m
    BY <1>1, <1>4
  <2> QED BY <2>1, <1>1, <1>2, <1>4
<1>5. ASSUME NEW x \in 1..(m + 1), p < x
      PROVE  x - 1 \in 1..m /\ hs2[x] = hs[x - 1] /\ name < hs[x - 1][1] /\ hs[x - 1][1] \in Nat
  <2>1. x - 1 \in 1..m /\ p <= x - 1 /\ (x - 1) + 1 = x
    BY <1>1, <1>5
  <2>2. hs2[(x - 1) + 1] = hs[x - 1] /\ name < hs[x - 1][1] /\ hs[x - 1][1] \in Nat
    BY <2>1, <1>1, <1>2
  <2> QED BY <2>1, <2>2
<1>6. CASE i < p
  <2>1. hs2[i] = hs[i] /\ hs[i][1] <= name /\ hs[i][1] \in Nat /\ i \in 1..m
    BY <1>4, <1>6
  <2>2. CASE j < p
    <3>1. hs2[j] = hs[j] /\ j \in 1..m
      BY <1>4, <2>2
    <3> QED BY <1>3, <2>1, <3>1
  <2>3. CASE j = p
    BY <1>2, <2>1, <2>3
  <2>4. CASE p < j
    <3>1. hs2[j] = hs[j - 1] /\ name < hs[j - 1][1] /\ hs[j - 1][1] \in Nat
      BY <1>5, <2>4
    <3>2. hs[i][1] <= hs[j - 1][1]
      BY <2>1, <3>1
    <3> QED BY <2>1, <3>1, <3>2
  <2> QED BY <1>1, <2>2, <2>3, <2>4
<1>7. CASE i = p
  <2>1. CASE j = p
    BY <1>2, <1>7, <2>1
  <2>2. CASE p < j
    <3>1. hs2[j] = hs[j - 1] /\ name < hs[j - 1][1] /\ hs[j - 1][1] \in Nat
      BY <1>5, <2>2
    <3> QED BY <1>2, <1>7, <3>1
  <2> QED BY <1>1, <1>7, <2>1, <2>2
<1>8. CASE p < i
  <2>1. p < j
    BY <1>1, <1>8
  <2>2. hs2[i] = hs[i - 1] /\ hs2[j] = hs[j - 1] /\ i - 1 \in 1..m /\ j - 1 \in 1..m /\ i - 1 <= j - 1
    BY <1>1, <1>5, <1>8, <2>1
  <2> QED BY <1>3, <2>2
<1> QED BY <1>1, <1>6, <1>7, <1>8

\* The calls up to the n-th that give a value to a header, and what they leave.
GivenBy(calls, n, name) == {i \in 1..n : R!NameOf(calls[i]) = name}

Single(calls, given, hs, lines) ==
    \E k \in lines : lines = {k} /\ hs[k][2] = R!ValueOf(calls[Max(given)])

GivenLines(calls, n, hs, name) ==
    LET given == GivenBy(calls, n, name)
        lines == R!Lines(hs, name)
    IN  /\ (\A i \in given : R!IsOneOfSeveral(calls[i])) =>
              R!InOrderOfCalls(calls, given, hs, lines)
        /\ given # {} /\ (\A i \in given : ~R!IsOneOfSeveral(calls[i])) =>
              Single(calls, given, hs, lines)

\* Lines that move in their order.
LEMMA LinesMoved ==
    ASSUME NEW calls, NEW given, NEW hs, NEW hs2, NEW lines, lines \subseteq Nat, NEW lines2,
           NEW to \in [lines -> lines2], lines2 = {to[i] : i \in lines},
           \A i, j \in lines : i < j => to[i] < to[j],
           \A i \in lines : hs2[to[i]][2] = hs[i][2]
    PROVE  /\ R!InOrderOfCalls(calls, given, hs, lines) => R!InOrderOfCalls(calls, given, hs2, lines2)
           /\ Single(calls, given, hs, lines) => Single(calls, given, hs2, lines2)
<1>1. ASSUME R!InOrderOfCalls(calls, given, hs, lines)
      PROVE  R!InOrderOfCalls(calls, given, hs2, lines2)
  <2>1. PICK line \in [given -> lines] :
          /\ lines = {line[i] : i \in given}
          /\ \A i, j \in given : i < j => line[i] < line[j]
          /\ \A i \in given : hs[line[i]][2] = R!ValueOf(calls[i])
    BY <1>1 DEF R!InOrderOfCalls
  <2> DEFINE line2 == [i \in given |-> to[line[i]]]
  <2>2. line2 \in [given -> lines2] /\ \A i \in given : line2[i] = to[line[i]] /\ line[i] \in lines
    BY <2>1
  <2> HIDE DEF line2
  <2>3. lines2 = {line2[i] : i \in given}
    <3>1. ASSUME NEW x \in lines2 PROVE \E i \in given : x = line2[i]
      <4>1. PICK k \in lines : x = to[k]
        OBVIOUS
      <4>2. PICK i \in given : k = line[i]
        BY <2>1
      <4> QED BY <2>2, <4>1, <4>2
    <3>2. \A i \in given : line2[i] \in lines2
      BY <2>2
    <3> QED BY <3>1, <3>2
  <2>4. \A i, j \in given : i < j => line2[i] < line2[j]
    BY <2>1, <2>2
  <2>5. \A i \in given : hs2[line2[i]][2] = R!ValueOf(calls[i])
    BY <2>1, <2>2
  <2> QED BY <2>2, <2>3, <2>4, <2>5 DEF R!InOrderOfCalls
<1>2. ASSUME Single(calls, given, hs, lines) PROVE Single(calls, given, hs2, lines2)
  <2>1. PICK k \in lines : lines = {k} /\ hs[k][2] = R!ValueOf(calls[Max(given)])
    BY <1>2 DEF Single
  <2>2. lines2 = {to[k]} /\ to[k] \in lines2 /\ hs2[to[k]][2] = R!ValueOf(calls[Max(given)])
    BY <2>1
  <2> QED BY <2>2, Zenon DEF Single
<1> QED BY <1>1, <1>2

\* A call that gives another header, or none, leaves the lines of this one.
LEMMA OtherLines ==
    ASSUME NEW calls, NEW n \in Nat, NEW name, R!NameOf(calls[n + 1]) # name,
           NEW hs, NEW hs2, GivenLines(calls, n, hs, name), R!Lines(hs, name) \subseteq Nat,
           NEW to \in [R!Lines(hs, name) -> R!Lines(hs2, name)],
           R!Lines(hs2, name) = {to[i] : i \in R!Lines(hs, name)},
           \A i, j \in R!Lines(hs, name) : i < j => to[i] < to[j],
           \A i \in R!Lines(hs, name) : hs2[to[i]][2] = hs[i][2]
    PROVE  GivenLines(calls, n + 1, hs2, name)
<1> DEFINE given == GivenBy(calls, n, name)  lines == R!Lines(hs, name)  lines2 == R!Lines(hs2, name)
<1>1. GivenBy(calls, n + 1, name) = given
  <2>1. 1..(n + 1) = (1..n) \union {n + 1}
    OBVIOUS
  <2> QED BY <2>1 DEF GivenBy
<1> HIDE DEF given, lines, lines2
<1>2. /\ R!InOrderOfCalls(calls, given, hs, lines) => R!InOrderOfCalls(calls, given, hs2, lines2)
      /\ Single(calls, given, hs, lines) => Single(calls, given, hs2, lines2)
  BY LinesMoved DEF lines, lines2
<1> QED BY <1>1, <1>2, Zenon DEF GivenLines, given, lines, lines2

\* The lines stay where they are.
LEMMA SameLines ==
    ASSUME NEW calls, NEW n \in Nat, NEW name, R!NameOf(calls[n + 1]) # name,
           NEW hs, NEW hs2, GivenLines(calls, n, hs, name), R!Lines(hs, name) \subseteq Nat,
           R!Lines(hs2, name) = R!Lines(hs, name),
           \A i \in R!Lines(hs, name) : hs2[i][2] = hs[i][2]
    PROVE  GivenLines(calls, n + 1, hs2, name)
<1> DEFINE ls == R!Lines(hs, name)  to == [i \in ls |-> i]
<1> HIDE DEF ls
<1>1. /\ to \in [ls -> ls] /\ ls = {to[i] : i \in ls}
      /\ \A i, j \in ls : i < j => to[i] < to[j]
  OBVIOUS
<1>2. \A i \in ls : hs2[to[i]][2] = hs[i][2]
  BY DEF ls
<1> HIDE DEF to
<1> QED BY <1>1, <1>2, OtherLines DEF ls

\* The name and the value a call gives are numbers.
LEMMA NameAndValue ==
    ASSUME NEW call, R!IsCall(call), R!NameOf(call) # R!NoName
    PROVE  R!NameOf(call) \in Nat /\ R!ValueOf(call) \in Nat
<1>1. CASE call[1] = "AddHeader"
  BY <1>1 DEF R!IsCall, R!NameOf, R!ValueOf
<1>2. CASE call[1] = "SetContentType"
  BY <1>2 DEF R!IsCall, R!NameOf, R!ValueOf, R!ContentType
<1>3. CASE call[1] = "SetServer"
  BY <1>3 DEF R!IsCall, R!NameOf, R!ValueOf, R!Server
<1>4. CASE call[1] = "SetRedirect"
  BY <1>4 DEF R!IsCall, R!NameOf, R!ValueOf, R!Location
<1>5. CASE call[1] = "AddEtag"
  BY <1>5 DEF R!IsCall, R!NameOf, R!ValueOf, R!Etag
<1>6. CASE call[1] = "SetKeepAlive"
  BY <1>6 DEF R!IsCall, R!NameOf, R!ValueOf, R!Connection, R!KeepAlive
<1>7. CASE call[1] \in {"SetStatus", "SetBody", "AppendBody"}
  BY <1>7 DEF R!NameOf
<1>8. call[1] \in {"AddHeader", "SetContentType", "SetServer", "SetRedirect", "AddEtag",
                   "SetKeepAlive", "SetStatus", "SetBody", "AppendBody"}
  BY DEF R!IsCall
<1> QED BY <1>1, <1>2, <1>3, <1>4, <1>5, <1>6, <1>7, <1>8

\* The largest number of a set.
LEMMA MaxIs ==
    ASSUME NEW T, NEW x \in T, T \subseteq Nat, \A y \in T : y <= x
    PROVE  Max(T) = x
<1> DEFINE m == Max(T)
<1>1. \E z \in T : \A y \in T : z >= y
  OBVIOUS
<1>2. m \in T /\ \A y \in T : m >= y
  BY <1>1, Zenon DEF Max
<1> HIDE DEF m
<1>3. m \in Nat /\ x \in Nat /\ m <= x /\ x <= m
  BY <1>2
<1>4. m = x
  BY <1>3
<1> QED BY <1>4 DEF m

\* The last call is the one that was made last.
LEMMA OneMoreGiven ==
    ASSUME NEW calls, NEW n \in Nat, NEW name, R!NameOf(calls[n + 1]) = name
    PROVE  /\ GivenBy(calls, n + 1, name) = GivenBy(calls, n, name) \union {n + 1}
           /\ Max(GivenBy(calls, n + 1, name)) = n + 1
           /\ GivenBy(calls, n, name) \subseteq 1..n
<1>1. GivenBy(calls, n + 1, name) = GivenBy(calls, n, name) \union {n + 1}
  <2>1. 1..(n + 1) = (1..n) \union {n + 1}
    OBVIOUS
  <2> QED BY <2>1 DEF GivenBy
<1>2. GivenBy(calls, n, name) \subseteq 1..n
  BY DEF GivenBy
<1>3. Max(GivenBy(calls, n + 1, name)) = n + 1
  <2> DEFINE T == GivenBy(calls, n, name) \union {n + 1}
  <2>1. n + 1 \in T /\ T \subseteq Nat /\ \A y \in T : y <= n + 1
    BY <1>2
  <2> HIDE DEF T
  <2>2. Max(T) = n + 1
    BY <2>1, MaxIs
  <2> QED BY <1>1, <2>2 DEF T
<1> QED BY <1>1, <1>2, <1>3

\* A new line is behind those of its name, and the others are where they were or one
\* place further down.
LEMMA EmplacedLines ==
    ASSUME NEW calls, NEW n \in Nat, NEW hs, NEW hs2, NEW p, NEW name \in Nat, NEW value \in Nat,
           Emplaced(hs, hs2, p, name, value), NEW other \in Nat,
           GivenLines(calls, n, hs, other), R!NameOf(calls[n + 1]) = name,
           R!ValueOf(calls[n + 1]) = value,
           R!IsOneOfSeveral(calls[n + 1]) \/ R!Lines(hs, name) = {}
    PROVE  GivenLines(calls, n + 1, hs2, other)
<1> DEFINE m == Len(hs)  lines == R!Lines(hs, other)  lines2 == R!Lines(hs2, other)
           To(i) == IF i < p THEN i ELSE i + 1
           to == [i \in lines |-> To(i)]
<1>1. /\ hs \in Seq(Pairs) /\ m \in Nat /\ p \in 1..(m + 1) /\ DOMAIN hs2 = 1..(m + 1)
      /\ DOMAIN hs = 1..m /\ \A i \in 1..m : hs[i][1] \in Nat
  <2>1. hs \in Seq(Pairs) /\ m \in Nat /\ p \in 1..(m + 1) /\ hs2 \in Seq(Pairs) /\ Len(hs2) = m + 1
    BY Zenon DEF Emplaced
  <2>2. DOMAIN hs2 = 1..(m + 1) /\ DOMAIN hs = 1..m /\ \A i \in 1..m : hs[i] \in Pairs
    BY <2>1
  <2> QED BY <2>1, <2>2, PairIs
<1>2. /\ hs2[p][1] = name /\ hs2[p][2] = value
      /\ \A i \in 1..m : i < p => hs2[i] = hs[i] /\ hs[i][1] <= name
      /\ \A i \in 1..m : p <= i => hs2[i + 1] = hs[i] /\ name < hs[i][1]
  BY DEF Emplaced
<1> HIDE DEF m
<1>3. \A i \in 1..m : hs2[To(i)] = hs[i] /\ To(i) \in 1..(m + 1) /\ To(i) # p
  BY <1>1, <1>2
<1>4. \A j \in 1..(m + 1) : j = p \/ \E i \in 1..m : j = To(i)
  <2> SUFFICES ASSUME NEW j \in 1..(m + 1), j # p PROVE \E i \in 1..m : j = To(i)
    OBVIOUS
  <2>1. CASE j < p
    <3>1. j \in 1..m /\ j = To(j)
      BY <1>1, <2>1
    <3> QED BY <3>1
  <2>2. CASE p < j
    <3>1. j - 1 \in 1..m /\ j = To(j - 1)
      BY <1>1, <2>2
    <3> QED BY <3>1
  <2> QED BY <1>1, <2>1, <2>2
<1>5. lines = {i \in 1..m : hs[i][1] = other} /\ lines2 = {i \in 1..(m + 1) : hs2[i][1] = other}
  BY <1>1 DEF R!Lines
<1>6. \A i, j \in 1..m : i < j => To(i) < To(j)
  BY <1>1
<1> HIDE DEF lines, lines2
<1>7. lines \subseteq 1..m /\ lines \subseteq Nat
  BY <1>1, <1>5
<1>8. \A i \in lines : hs2[To(i)][2] = hs[i][2] /\ To(i) \in lines2
  BY <1>3, <1>5
<1>9. ASSUME NEW j \in lines2, j # p PROVE \E i \in lines : j = To(i)
  <2>1. j \in 1..(m + 1) /\ hs2[j][1] = other
    BY <1>5
  <2>2. PICK i \in 1..m : j = To(i)
    BY <1>4, <1>9, <2>1
  <2>3. i \in lines
    BY <1>3, <1>5, <2>1, <2>2
  <2> QED BY <2>2, <2>3
<1>10. CASE other # name
  <2>1. p \notin lines2
    BY <1>2, <1>5, <1>10
  <2>2. \A i \in lines : to[i] = To(i)
    OBVIOUS
  <2>3. to \in [lines -> lines2]
    BY <1>8
  <2> HIDE DEF to, To
  <2>4. lines2 = {to[i] : i \in lines}
    <3>1. \A j \in lines2 : \E i \in lines : j = to[i]
      BY <1>9, <2>1, <2>2
    <3>2. \A i \in lines : to[i] \in lines2
      BY <2>3
    <3> QED BY <3>1, <3>2
  <2>5. \A i, j \in lines : i < j => to[i] < to[j]
    BY <1>6, <1>7, <2>2
  <2>6. \A i \in lines : hs2[to[i]][2] = hs[i][2]
    BY <1>8, <2>2
  <2> QED BY <1>7, <1>10, <2>3, <2>4, <2>5, <2>6, OtherLines DEF lines, lines2
<1>11. CASE other = name
  <2> DEFINE given == GivenBy(calls, n, name)  given2 == GivenBy(calls, n + 1, name)
  <2>1. given2 = given \union {n + 1} /\ Max(given2) = n + 1 /\ given \subseteq 1..n
    BY OneMoreGiven
  <2> HIDE DEF given, given2
  <2>2. \A i \in lines : i < p /\ To(i) = i
    <3> SUFFICES ASSUME NEW i \in lines PROVE i < p /\ To(i) = i
      OBVIOUS
    <3>1. i \in 1..m /\ hs[i][1] = name
      BY <1>5, <1>11
    <3>2. i < p
      BY <1>1, <1>2, <3>1
    <3> QED BY <3>2
  <2>3. p \in lines2 /\ lines2 = lines \union {p}
    <3>1. p \in lines2
      BY <1>1, <1>2, <1>5, <1>11
    <3>2. \A j \in lines2 : j = p \/ j \in lines
      <4> HIDE DEF To
      <4> QED BY <1>9, <2>2
    <3>3. \A i \in lines : i \in lines2
      <4> HIDE DEF To
      <4> QED BY <1>8, <2>2
    <3> QED BY <3>1, <3>2, <3>3
  <2>4. \A i \in lines : hs2[i][2] = hs[i][2]
    <3> HIDE DEF To
    <3> QED BY <1>8, <2>2
  <2>5. ASSUME \A i \in given2 : R!IsOneOfSeveral(calls[i])
        PROVE  R!InOrderOfCalls(calls, given2, hs2, lines2)
    <3>1. R!InOrderOfCalls(calls, given, hs, lines)
      <4>1. \A i \in given : R!IsOneOfSeveral(calls[i])
        BY <2>1, <2>5, Zenon
      <4> QED BY <4>1, <1>11, Zenon DEF GivenLines, given, lines
    <3>2. PICK line \in [given -> lines] :
            /\ lines = {line[i] : i \in given}
            /\ \A i, j \in given : i < j => line[i] < line[j]
            /\ \A i \in given : hs[line[i]][2] = R!ValueOf(calls[i])
      BY <3>1 DEF R!InOrderOfCalls
    <3> DEFINE line2 == [i \in given2 |-> IF i = n + 1 THEN p ELSE line[i]]
    <3>3. /\ line2[n + 1] = p
          /\ \A i \in given : line2[i] = line[i] /\ line[i] \in lines /\ i < n + 1 /\ i \in Nat
      <4>1. \A i \in given : i # n + 1 /\ i < n + 1 /\ i \in Nat
        BY <2>1
      <4> QED BY <2>1, <3>2, <4>1
    <3>4. line2 \in [given2 -> lines2]
      BY <2>1, <2>3, <3>2
    <3> HIDE DEF line2
    <3>5. lines2 = {line2[i] : i \in given2}
      <4>1. ASSUME NEW x \in lines PROVE \E i \in given2 : x = line2[i]
        <5>1. PICK i \in given : x = line[i]
          BY <3>2
        <5> QED BY <2>1, <3>3, <5>1
      <4>2. \E i \in given2 : p = line2[i]
        BY <2>1, <3>3
      <4>3. \A i \in given2 : line2[i] \in lines2
        BY <3>4
      <4> QED BY <2>3, <4>1, <4>2, <4>3
    <3>6. \A i, j \in given2 : i < j => line2[i] < line2[j]
      <4> SUFFICES ASSUME NEW i \in given2, NEW j \in given2, i < j PROVE line2[i] < line2[j]
        OBVIOUS
      <4>1. i \in given
        BY <2>1, <3>3
      <4>2. CASE j \in given
        BY <3>2, <3>3, <4>1, <4>2
      <4>3. CASE j = n + 1
        BY <2>2, <3>3, <4>1, <4>3
      <4> QED BY <2>1, <4>2, <4>3
    <3>7. \A i \in given2 : hs2[line2[i]][2] = R!ValueOf(calls[i])
      <4>1. \A i \in given : hs2[line2[i]][2] = R!ValueOf(calls[i])
        BY <2>4, <3>2, <3>3
      <4>2. hs2[line2[n + 1]][2] = R!ValueOf(calls[n + 1])
        BY <1>2, <3>3
      <4> QED BY <2>1, <4>1, <4>2, Zenon
    <3> QED BY <3>4, <3>5, <3>6, <3>7 DEF R!InOrderOfCalls
  <2>6. ASSUME \A i \in given2 : ~R!IsOneOfSeveral(calls[i]) PROVE Single(calls, given2, hs2, lines2)
    <3>1. ~R!IsOneOfSeveral(calls[n + 1])
      BY <2>1, <2>6, Zenon
    <3>2. lines = {}
      BY <1>11, <3>1, Zenon DEF lines
    <3>3. lines2 = {p}
      BY <2>3, <3>2
    <3>4. hs2[p][2] = R!ValueOf(calls[Max(given2)])
      BY <1>2, <2>1
    <3> QED BY <3>3, <3>4 DEF Single
  <2> QED BY <2>5, <2>6, <1>11, Zenon DEF GivenLines, given2, lines2
<1> QED BY <1>10, <1>11

\* A value that is not one of several overwrites the line of its name.
LEMMA OverwrittenLines ==
    ASSUME NEW calls, NEW n \in Nat, NEW hs \in Seq(Pairs), Sorted(hs),
           NEW name \in Nat, NEW value \in Nat,
           R!NameOf(calls[n + 1]) = name, R!ValueOf(calls[n + 1]) = value,
           ~R!IsOneOfSeveral(calls[n + 1]), R!Lines(hs, name) # {},
           GivenLines(calls, n, hs, name),
           NEW hs2, hs2 = [hs EXCEPT ![Min(R!Lines(hs, name))][2] = value]
    PROVE  /\ hs2 \in Seq(Pairs) /\ Sorted(hs2)
           /\ GivenLines(calls, n + 1, hs2, name)
           /\ \A other \in Nat : other # name /\ GivenLines(calls, n, hs, other)
                                    => GivenLines(calls, n + 1, hs2, other)
<1> DEFINE m == Len(hs)  lines == R!Lines(hs, name)  k == Min(lines)
<1>1. m \in Nat /\ DOMAIN hs = 1..m /\ \A i \in 1..m : hs[i] \in Pairs /\ hs[i][1] \in Nat
  <2>1. m \in Nat /\ DOMAIN hs = 1..m /\ \A i \in 1..m : hs[i] \in Pairs
    OBVIOUS
  <2> QED BY <2>1, PairIs
<1>2. lines = {i \in 1..m : hs[i][1] = name} /\ lines # {}
  BY <1>1 DEF R!Lines
<1> HIDE DEF m, lines
<1>3. k \in lines
  <2>1. lines \subseteq Nat
    BY <1>1, <1>2
  <2>2. PICK x \in lines : \A y \in lines : x <= y
    BY <1>2, <2>1, Smallest
  <2> QED BY <2>1, <2>2, MinIs
<1> HIDE DEF k
<1>4. hs2 = [hs EXCEPT ![k] = <<hs[k][1], value>>]
  <2>1. hs2 = [hs EXCEPT ![k][2] = value]
    BY Zenon DEF k, lines
  <2>2. k \in 1..m /\ hs[k] \in Pairs
    BY <1>1, <1>2, <1>3
  <2>3. [hs[k] EXCEPT ![2] = value] = <<hs[k][1], value>>
    <3>1. hs[k] = <<hs[k][1], hs[k][2]>>
      BY <2>2, PairIs
    <3> DEFINE a == hs[k][1]  b == hs[k][2]
    <3>2. [<<a, b>> EXCEPT ![2] = value] = <<a, value>>
      <4> HIDE DEF a, b
      <4> QED OBVIOUS
    <3> QED BY <3>1, <3>2
  <2>4. [hs EXCEPT ![k][2] = value] = [hs EXCEPT ![k] = [hs[k] EXCEPT ![2] = value]]
    OBVIOUS
  <2> QED BY <2>1, <2>3, <2>4, Zenon
<1>5. k \in 1..m /\ hs[k][1] = name
  BY <1>2, <1>3
<1>6. hs2 \in Seq(Pairs) /\ DOMAIN hs2 = 1..m
  <2>1. <<hs[k][1], value>> \in Pairs
    BY <1>1, <1>5 DEF Pairs
  <2> DEFINE new == <<hs[k][1], value>>
  <2> HIDE DEF new
  <2>2. k \in 1..Len(hs) /\ new \in Pairs
    BY <1>5, <2>1 DEF m, new
  <2>3. [hs EXCEPT ![k] = new] \in Seq(Pairs)
    BY <2>2, ExceptSeq
  <2>4. hs2 = [hs EXCEPT ![k] = new]
    BY <1>4 DEF new
  <2> QED BY <1>1, <2>3, <2>4
<1>7. /\ hs2[k] = <<name, value>> /\ \A i \in 1..m : i # k => hs2[i] = hs[i]
  BY <1>1, <1>4, <1>5
<1>8. \A i \in 1..m : hs2[i][1] = hs[i][1]
  BY <1>5, <1>7
<1>9. Sorted(hs2)
  BY <1>1, <1>6, <1>8 DEF Sorted
<1>10. \A other \in Nat : R!Lines(hs2, other) = R!Lines(hs, other)
  BY <1>1, <1>6, <1>8 DEF R!Lines
<1>11. ASSUME NEW other \in Nat, other # name, GivenLines(calls, n, hs, other)
       PROVE  GivenLines(calls, n + 1, hs2, other)
  <2> DEFINE ls == R!Lines(hs, other)
  <2>1. R!Lines(hs2, other) = ls
    BY <1>10, <1>11
  <2>2. ls \subseteq 1..m /\ \A i \in ls : hs[i][1] = other
    BY <1>1 DEF R!Lines
  <2> HIDE DEF ls
  <2>3. ls \subseteq Nat /\ \A i \in ls : i # k
    BY <1>1, <1>5, <1>11, <2>2
  <2>4. \A i \in ls : hs2[i][2] = hs[i][2]
    BY <1>7, <2>2, <2>3
  <2>5. R!NameOf(calls[n + 1]) # other
    BY <1>11
  <2> QED BY <1>11, <2>1, <2>3, <2>4, <2>5, SameLines DEF ls
<1>12. GivenLines(calls, n + 1, hs2, name)
  <2> DEFINE given == GivenBy(calls, n, name)  given2 == GivenBy(calls, n + 1, name)
  <2>1. given2 = given \union {n + 1} /\ Max(given2) = n + 1 /\ given \subseteq 1..n
    BY OneMoreGiven
  <2> HIDE DEF given, given2
  <2>2. ~\A i \in given2 : R!IsOneOfSeveral(calls[i])
    BY <2>1, Zenon
  <2>3. ASSUME \A i \in given2 : ~R!IsOneOfSeveral(calls[i]) PROVE Single(calls, given2, hs2, lines)
    <3>1. lines = {k}
      <4>1. CASE given = {}
        <5>1. R!InOrderOfCalls(calls, given, hs, lines)
          BY <4>1, Zenon DEF GivenLines, given, lines
        <5>2. PICK line : lines = {line[i] : i \in given}
          BY <5>1, Zenon DEF R!InOrderOfCalls
        <5> QED BY <1>3, <4>1, <5>2
      <4>2. CASE given # {}
        <5>1. \A i \in given : ~R!IsOneOfSeveral(calls[i])
          BY <2>1, <2>3, Zenon
        <5>2. Single(calls, given, hs, lines)
          BY <4>2, <5>1, Zenon DEF GivenLines, given, lines
        <5>3. PICK x : lines = {x}
          BY <5>2, Zenon DEF Single
        <5> QED BY <1>3, <5>3
      <4> QED BY <4>1, <4>2
    <3>2. hs2[k][2] = R!ValueOf(calls[Max(given2)])
      BY <1>7, <2>1
    <3> QED BY <3>1, <3>2 DEF Single
  <2>4. R!Lines(hs2, name) = lines
    BY <1>10 DEF lines
  <2> QED BY <2>2, <2>3, <2>4, Zenon DEF GivenLines, given2
<1> QED BY <1>6, <1>9, <1>11, <1>12, Zenon

\* The headers after n of the calls.
HeadersGiven(calls, n, hs) ==
    /\ hs \in Seq(Pairs) /\ Sorted(hs)
    /\ \A name \in Nat \ {0} : GivenLines(calls, n, hs, name)

\* There are none before the first call.
LEMMA NoHeaders ==
    ASSUME NEW calls
    PROVE  HeadersGiven(calls, 0, <<>>)
<1>1. <<>> \in Seq(Pairs) /\ Sorted(<<>>) /\ \A name : R!Lines(<<>>, name) = {}
  BY DEF Sorted, R!Lines
<1>2. ASSUME NEW name \in Nat \ {0} PROVE GivenLines(calls, 0, <<>>, name)
  <2> DEFINE e == <<>>
  <2>1. GivenBy(calls, 0, name) = {}
    BY DEF GivenBy
  <2>2. R!Lines(e, name) = {}
    BY <1>1
  <2>3. R!InOrderOfCalls(calls, {}, e, {})
    <3> DEFINE line == [i \in {} |-> 0]
    <3>1. line \in [{} -> {}]
      OBVIOUS
    <3>2. {} = {line[i] : i \in {}}
      OBVIOUS
    <3> HIDE DEF line, e
    <3> QED BY <3>1, <3>2 DEF R!InOrderOfCalls
  <2> HIDE DEF e
  <2>4. GivenLines(calls, 0, e, name)
    BY <2>1, <2>2, <2>3, Zenon DEF GivenLines
  <2> QED BY <2>4 DEF e
<1> QED BY <1>1, <1>2, Zenon DEF HeadersGiven

\* A call keeps them as they were given.
LEMMA HeadersStep ==
    ASSUME NEW calls, NEW n \in Nat, NEW hs, HeadersGiven(calls, n, hs), R!IsCall(calls[n + 1])
    PROVE  HeadersGiven(calls, n + 1, HeadersAfter(hs, calls[n + 1]))
<1> DEFINE call == calls[n + 1]  name == R!NameOf(call)  value == R!ValueOf(call)
           several == R!IsOneOfSeveral(call)  hs2 == HeadersAfter(hs, call)
<1>1. hs \in Seq(Pairs) /\ Sorted(hs) /\ \A x \in Nat \ {0} : GivenLines(calls, n, hs, x)
  BY Zenon DEF HeadersGiven
<1>2. CASE name = R!NoName
  <2>1. hs2 = hs
    BY <1>2, Zenon DEF HeadersAfter
  <2>2. ASSUME NEW x \in Nat \ {0} PROVE GivenLines(calls, n + 1, hs, x)
    <3>1. R!Lines(hs, x) \subseteq Nat
      BY <1>1 DEF R!Lines
    <3>2. name # x
      BY <1>2 DEF R!NoName
    <3>3. GivenLines(calls, n, hs, x)
      BY <1>1
    <3> HIDE DEF name
    <3> QED BY <3>1, <3>2, <3>3, SameLines DEF name
  <2> HIDE DEF hs2
  <2> QED BY <1>1, <2>1, <2>2, Zenon DEF HeadersGiven, hs2
<1>3. CASE name # R!NoName
  <2>1. name \in Nat \ {0} /\ value \in Nat
    BY <1>3, NameAndValue DEF R!NoName
  <2>2. hs2 = Put(hs, name, value, several)
    BY <1>3, Zenon DEF HeadersAfter
  <2> HIDE DEF hs2
  <2>3. CASE several \/ R!Lines(hs, name) = {}
    <3>1. hs2 = R!Emplace(hs, name, value)
      BY <2>2, <2>3, Zenon DEF Put
    <3>2. PICK p : Emplaced(hs, hs2, p, name, value)
      <4> HIDE DEF name, value
      <4> QED BY <1>1, <2>1, <3>1, EmplaceIs
    <3>3. hs2 \in Seq(Pairs) /\ Sorted(hs2)
      <4> HIDE DEF name, value
      <4>1. hs2 \in Seq(Pairs)
        BY <3>2, Zenon DEF Emplaced
      <4> QED BY <4>1, <1>1, <2>1, <3>2, EmplacedSorted
    <3>4. ASSUME NEW x \in Nat \ {0} PROVE GivenLines(calls, n + 1, hs2, x)
      <4>1. GivenLines(calls, n, hs, x)
        BY <1>1
      <4>2. R!NameOf(calls[n + 1]) = name /\ R!ValueOf(calls[n + 1]) = value
            /\ (R!IsOneOfSeveral(calls[n + 1]) \/ R!Lines(hs, name) = {})
        BY <2>3
      <4>3. x \in Nat /\ name \in Nat
        BY <2>1
      <4> HIDE DEF name, value, several, call
      <4> QED BY <2>1, <3>2, <4>1, <4>2, <4>3, EmplacedLines
    <3> QED BY <3>3, <3>4, Zenon DEF HeadersGiven, hs2
  <2>4. CASE ~(several \/ R!Lines(hs, name) = {})
    <3>1. hs2 = [hs EXCEPT ![Min(R!Lines(hs, name))][2] = value]
      BY <2>2, <2>4, Zenon DEF Put
    <3>2. /\ R!NameOf(calls[n + 1]) = name /\ R!ValueOf(calls[n + 1]) = value
          /\ ~R!IsOneOfSeveral(calls[n + 1]) /\ R!Lines(hs, name) # {}
      BY <2>4
    <3>3. GivenLines(calls, n, hs, name) /\ name \in Nat
      BY <1>1, <2>1
    <3> HIDE DEF name, value, several, call
    <3>4. /\ hs2 \in Seq(Pairs) /\ Sorted(hs2)
          /\ GivenLines(calls, n + 1, hs2, name)
          /\ \A other \in Nat : other # name /\ GivenLines(calls, n, hs, other)
                                    => GivenLines(calls, n + 1, hs2, other)
      BY <1>1, <2>1, <3>1, <3>2, <3>3, OverwrittenLines
    <3>5. \A x \in Nat \ {0} : GivenLines(calls, n + 1, hs2, x)
      BY <1>1, <3>4
    <3> QED BY <3>4, <3>5, Zenon DEF HeadersGiven, hs2, call
  <2> QED BY <2>3, <2>4
<1> QED BY <1>2, <1>3

\* The calls OnRequest may make.
AreCalls(calls) ==
    /\ Len(calls) \in Nat /\ DOMAIN calls = 1..Len(calls)
    /\ \A i \in DOMAIN calls : R!IsCall(calls[i])

\* f is the response after each of the calls.
BuildUp(calls, f) ==
    /\ f[0] = R!NewResp
    /\ \A n \in 0..Len(calls) : n # Len(calls) => f[n + 1] = R!Call(f[n], calls[n + 1])

\* The response before the first call, and after one more.
LEMMA BuildUpStep ==
    ASSUME NEW calls, AreCalls(calls), NEW f, BuildUp(calls, f)
    PROVE  /\ DOMAIN f[0] = RespFields /\ f[0].headers = <<>> /\ f[0].body = <<>>
           /\ \A n \in 0..Len(calls) : n # Len(calls) /\ DOMAIN f[n] = RespFields
                => n + 1 \in 1..Len(calls) /\ Called(f[n], f[n + 1], calls[n + 1])
<1>1. DOMAIN f[0] = RespFields /\ f[0].headers = <<>> /\ f[0].body = <<>>
  BY DEF BuildUp, R!NewResp, RespFields
<1>2. ASSUME NEW n \in 0..Len(calls), n # Len(calls), DOMAIN f[n] = RespFields
      PROVE  n + 1 \in 1..Len(calls) /\ Called(f[n], f[n + 1], calls[n + 1])
  <2>1. n + 1 \in 1..Len(calls)
    <3> DEFINE m == Len(calls)
    <3>1. m \in Nat
      BY Zenon DEF AreCalls
    <3> HIDE DEF m
    <3>2. n \in 0..m /\ n # m
      BY <1>2 DEF m
    <3> QED BY <3>1, <3>2 DEF m
  <2>2. R!IsCall(calls[n + 1])
    BY <2>1 DEF AreCalls
  <2>3. f[n + 1] = R!Call(f[n], calls[n + 1])
    BY <1>2 DEF BuildUp
  <2> QED BY <1>2, <2>1, <2>2, <2>3, CallIs
<1> QED BY <1>1, <1>2

\* The headers are as given after each of the calls.
LEMMA BuiltHeaders ==
    ASSUME NEW calls, AreCalls(calls), NEW f, BuildUp(calls, f)
    PROVE  \A n \in 0..Len(calls) : DOMAIN f[n] = RespFields /\ HeadersGiven(calls, n, f[n].headers)
<1> DEFINE m == Len(calls)
           Q(n) == DOMAIN f[n] = RespFields /\ HeadersGiven(calls, n, f[n].headers)
           T == {n \in Nat : n <= m => Q(n)}
<1>1. m \in Nat /\ \A i \in 1..m : R!IsCall(calls[i])
  BY DEF AreCalls
<1>2. 0 \in T
  <2>1. DOMAIN f[0] = RespFields /\ f[0].headers = <<>>
    BY BuildUpStep
  <2>2. HeadersGiven(calls, 0, f[0].headers)
    BY <2>1, NoHeaders, Zenon
  <2> QED BY <2>1, <2>2
<1>3. ASSUME NEW n \in Nat, n \in T PROVE n + 1 \in T
  <2> SUFFICES ASSUME n + 1 <= m PROVE Q(n + 1)
    <3> HIDE DEF Q
    <3> QED OBVIOUS
  <2>1. n \in 0..m /\ n # m /\ n + 1 \in 1..m
    BY <1>1
  <2>2. Q(n)
    <3> HIDE DEF Q
    <3> QED BY <1>1, <1>3
  <2>3. Called(f[n], f[n + 1], calls[n + 1])
    BY <2>1, <2>2, BuildUpStep
  <2>4. R!IsCall(calls[n + 1])
    BY <1>1, <2>1
  <2>5. HeadersGiven(calls, n + 1, HeadersAfter(f[n].headers, calls[n + 1]))
    BY <2>2, <2>4, HeadersStep
  <2>6. DOMAIN f[n + 1] = RespFields /\ f[n + 1].headers = HeadersAfter(f[n].headers, calls[n + 1])
    BY <2>3, Zenon DEF Called
  <2> QED BY <2>5, <2>6, Zenon
<1>4. \A n \in Nat : n \in T
  <2> HIDE DEF T
  <2> QED BY <1>2, <1>3, Induction
<1> HIDE DEF Q
<1>5. \A n \in 0..m : Q(n)
  BY <1>1, <1>4
<1> QED BY <1>5, Zenon DEF Q, m

\* A set of numbers that are not above m has a largest one.
LEMMA Largest ==
    ASSUME NEW m \in Nat, NEW T, T \subseteq 0..m, T # {}
    PROVE  \E x \in T : \A y \in T : y <= x
<1> DEFINE U == {i \in Nat : \E x \in T : i = m - x}
<1>1. U # {} /\ U \subseteq Nat
  <2>1. PICK x \in T : TRUE
    OBVIOUS
  <2>2. m - x \in U
    BY <2>1
  <2> QED BY <2>2
<1>2. PICK u \in U : \A v \in U : u <= v
  <2> HIDE DEF U
  <2> QED BY <1>1, Smallest
<1>3. PICK x \in T : u = m - x
  BY <1>2
<1>4. ASSUME NEW y \in T PROVE y <= x
  <2>1. m - y \in U
    OBVIOUS
  <2>2. u <= m - y
    BY <1>2, <2>1
  <2> QED BY <1>3, <2>2
<1> QED BY <1>4

\* The body is as given.
LEMMA BuiltBody ==
    ASSUME NEW calls, AreCalls(calls), NEW f, BuildUp(calls, f)
    PROVE  R!BodyAsGiven(calls, f[Len(calls)].body)
<1> DEFINE m == Len(calls)
           sets == {i \in DOMAIN calls : calls[i][1] = "SetBody"}
           from == IF sets = {} THEN 0 ELSE Max(sets)
           Part(i) == IF i >= from /\ calls[i][1] \in {"SetBody", "AppendBody"} THEN calls[i][2] ELSE <<>>
           parts == [i \in DOMAIN calls |-> Part(i)]
<1>1. m \in Nat /\ DOMAIN calls = 1..m /\ \A i \in 1..m : R!IsCall(calls[i])
  BY DEF AreCalls
<1> HIDE DEF m
<1>2. /\ from \in 0..m /\ (from # 0 => calls[from][1] = "SetBody")
      /\ \A i \in 1..m : i > from => calls[i][1] # "SetBody"
  <2>1. CASE sets = {}
    BY <1>1, <2>1
  <2>2. CASE sets # {}
    <3>1. sets \subseteq 0..m /\ sets \subseteq Nat
      BY <1>1
    <3> HIDE DEF sets
    <3>2. PICK x \in sets : \A y \in sets : y <= x
      BY <1>1, <2>2, <3>1, Largest
    <3>3. Max(sets) = x
      BY <3>1, <3>2, MaxIs
    <3>4. from = x
      BY <2>2, <3>3
    <3>5. x \in 1..m /\ calls[x][1] = "SetBody" /\ \A y \in 1..m : calls[y][1] = "SetBody" => y <= x
      BY <1>1, <3>2 DEF sets
    <3> HIDE DEF from
    <3> QED BY <1>1, <3>4, <3>5
  <2> QED BY <2>1, <2>2
<1>3. R!BodyAsGiven(calls, f[Len(calls)].body) <=> f[m].body = FlattenSeq(parts)
  <2>1. R!Max(sets) = Max(sets) /\ R!FlattenSeq(parts) = FlattenSeq(parts)
    BY Zenon DEF R!Max, Max, R!FlattenSeq, FlattenSeq
  <2>2. R!BodyAsGiven(calls, f[Len(calls)].body) <=> f[m].body = R!FlattenSeq(parts)
    <3>1. from = IF sets = {} THEN 0 ELSE R!Max(sets)
      BY <2>1, Zenon
    <3> HIDE DEF from
    <3> QED BY <3>1, Zenon DEF R!BodyAsGiven, m
  <2> HIDE DEF parts
  <2> QED BY <2>1, <2>2, Zenon
<1> HIDE DEF from, sets
<1>4. \A i \in 1..m : Part(i) \in Seq(Byte)
  <2> SUFFICES ASSUME NEW i \in 1..m PROVE Part(i) \in Seq(Byte)
    OBVIOUS
  <2>1. R!IsCall(calls[i])
    BY <1>1
  <2>2. calls[i][1] \in {"SetBody", "AppendBody"} => calls[i][2] \in Seq(Byte)
    BY <2>1 DEF R!IsCall, Byte
  <2>3. <<>> \in Seq(Byte)
    OBVIOUS
  <2> QED BY <2>2, <2>3
<1>5. parts \in Seq(Seq(Byte)) /\ Len(parts) = m /\ \A i \in 1..m : parts[i] = Part(i)
  <2> HIDE DEF Part
  <2> QED BY <1>1, <1>4
<1> HIDE DEF parts
<1>6. PICK F : Flattens(parts, F)
  BY <1>5, FlattensExists
<1>7. /\ F[0] = <<>> /\ \A i \in 0..m : F[i] \in Seq(Byte)
      /\ \A i \in 1..m : F[i] = F[i - 1] \o Part(i)
  <2> HIDE DEF Part
  <2>1. /\ F[0] = <<>> /\ \A i \in 0..Len(parts) : F[i] \in Seq(Byte)
        /\ \A i \in 1..Len(parts) : F[i] = F[i - 1] \o parts[i]
    BY <1>5, <1>6, FlattensStep
  <2> QED BY <1>5, <2>1
<1>8. FlattenSeq(parts) = F[m]
  <2>1. FlattenSeq(parts) = F[Len(parts)]
    BY <1>5, <1>6, FlattenIs
  <2> QED BY <1>5, <2>1
<1> DEFINE Q(n) == (n < from => F[n] = <<>>) /\ (n >= from => f[n].body = F[n])
           T == {n \in Nat : n <= m => Q(n)}
<1>9. 0 \in T
  <2>1. f[0].body = <<>>
    BY BuildUpStep
  <2> QED BY <1>7, <2>1
<1>10. ASSUME NEW n \in Nat, n \in T PROVE n + 1 \in T
  <2> SUFFICES ASSUME n + 1 <= m PROVE Q(n + 1)
    <3> HIDE DEF Q
    <3> QED OBVIOUS
  <2>1. n \in 0..m /\ n # m /\ n + 1 \in 1..m
    BY <1>1
  <2>2. Q(n)
    <3> HIDE DEF Q
    <3> QED BY <1>1, <1>10
  <2> DEFINE call == calls[n + 1]
  <2>3. f[n + 1].body = BodyAfter(f[n].body, call)
    <3>1. DOMAIN f[n] = RespFields
      BY <2>1, BuiltHeaders DEF m
    <3>2. Called(f[n], f[n + 1], call)
      BY <2>1, <3>1, BuildUpStep DEF m
    <3> QED BY <3>2, Zenon DEF Called
  <2>4. F[n + 1] = F[n] \o Part(n + 1) /\ F[n] \in Seq(Byte) /\ Part(n + 1) \in Seq(Byte)
    <3> HIDE DEF Part
    <3>1. F[n + 1] = F[(n + 1) - 1] \o Part(n + 1)
      BY <1>7, <2>1
    <3>2. (n + 1) - 1 = n
      OBVIOUS
    <3>3. F[n + 1] = F[n] \o Part(n + 1)
      BY <3>1, <3>2
    <3> QED BY <1>4, <1>7, <2>1, <3>3
  <2>5. CASE n + 1 < from
    <3>1. Part(n + 1) = <<>> /\ F[n] = <<>>
      BY <1>2, <2>2, <2>5
    <3> HIDE DEF Part
    <3> QED BY <1>2, <2>4, <2>5, <3>1
  <2>6. CASE n + 1 = from
    <3>1. call[1] = "SetBody" /\ F[n] = <<>>
      BY <1>2, <2>2, <2>6
    <3>2. Part(n + 1) = call[2] /\ f[n + 1].body = call[2]
      BY <2>3, <2>6, <3>1 DEF BodyAfter
    <3> HIDE DEF Part
    <3>3. F[n + 1] = Part(n + 1)
      BY <2>4, <3>1
    <3> QED BY <1>2, <2>6, <3>2, <3>3
  <2>7. CASE n + 1 > from
    <3>1. f[n].body = F[n] /\ call[1] # "SetBody"
      BY <1>2, <2>1, <2>2, <2>7
    <3>2. CASE call[1] = "AppendBody"
      <4>1. Part(n + 1) = call[2]
        BY <1>2, <2>7, <3>2
      <4>2. f[n + 1].body = f[n].body \o call[2]
        BY <2>3, <3>1, <3>2, Zenon DEF BodyAfter
      <4> HIDE DEF Part
      <4>3. f[n + 1].body = F[n + 1]
        BY <2>4, <3>1, <4>1, <4>2, Zenon
      <4> QED BY <1>2, <2>7, <4>3
    <3>3. CASE call[1] # "AppendBody"
      <4>1. Part(n + 1) = <<>> /\ f[n + 1].body = f[n].body
        BY <2>3, <3>1, <3>3 DEF BodyAfter
      <4> HIDE DEF Part
      <4>2. F[n] \o <<>> = F[n]
        BY <2>4
      <4>3. f[n + 1].body = F[n + 1]
        BY <2>4, <3>1, <4>1, <4>2, Zenon
      <4> QED BY <1>2, <2>7, <4>3
    <3> QED BY <3>2, <3>3
  <2> HIDE DEF Q
  <2> QED BY <1>2, <2>5, <2>6, <2>7
<1>11. m \in T
  <2> HIDE DEF T
  <2> QED BY <1>1, <1>9, <1>10, Induction
<1>12. f[m].body = F[m]
  BY <1>1, <1>2, <1>11
<1> QED BY <1>3, <1>8, <1>12

\* The headers of the text, behind those that were given.
WithLength(hs, len, headers) ==
    headers = hs \o <<<<R!ContentLength, len>>, <<R!DateName, 0>>>>

\* They leave the headers as given, and Content-Length is there once.
LEMMA TextHeaders ==
    ASSUME NEW calls, AreCalls(calls), NEW hs, HeadersGiven(calls, Len(calls), hs), NEW len,
           NEW headers, WithLength(hs, len, headers)
    PROVE  /\ \A name \in {R!Connection, R!ContentType, R!Etag, R!Location, R!Server} :
                  R!HeaderAsGiven(calls, headers, name)
           /\ \E n \in DOMAIN headers : R!Lines(headers, R!ContentLength) = {n} /\ headers[n][2] = len
<1> DEFINE m == Len(calls)  k == Len(hs)
           a == <<R!ContentLength, len>>  b == <<R!DateName, 0>>
<1>1. /\ m \in Nat /\ DOMAIN calls = 1..m /\ \A i \in 1..m : R!IsCall(calls[i])
  BY DEF AreCalls
<1>2. hs \in Seq(Pairs) /\ \A name \in Nat \ {0} : GivenLines(calls, m, hs, name)
  BY Zenon DEF HeadersGiven
<1>3. k \in Nat /\ DOMAIN hs = 1..k
  BY <1>2
<1> HIDE DEF m
<1>4. /\ DOMAIN headers = 1..(k + 2) /\ \A i \in 1..k : headers[i] = hs[i]
      /\ headers[k + 1] = a /\ headers[k + 2] = b
  <2> DEFINE S == Pairs \union {a, b}  tail == <<a, b>>
  <2>1. a \in S /\ b \in S
    OBVIOUS
  <2> HIDE DEF a, b
  <2>2. tail \in Seq(S) /\ Len(tail) = 2 /\ tail[1] = a /\ tail[2] = b
    BY <2>1
  <2>3. hs \in Seq(S)
    BY <1>2
  <2>4. headers = hs \o tail
    BY Zenon DEF a, b, WithLength
  <2> HIDE DEF tail, S
  <2>5. /\ headers \in Seq(S) /\ Len(headers) = k + 2
        /\ \A i \in 1..k : headers[i] = hs[i]
        /\ \A i \in 1..2 : headers[k + i] = tail[i]
    <3> DEFINE cat == hs \o tail
    <3>1. /\ cat \in Seq(S) /\ Len(cat) = k + Len(tail)
          /\ \A i \in 1..(k + Len(tail)) : cat[i] = IF i <= k THEN hs[i] ELSE tail[i - k]
      BY <2>2, <2>3, ConcatProperties, Zenon
    <3>2. headers = cat
      BY <2>4
    <3> HIDE DEF cat, k
    <3>3. /\ cat \in Seq(S) /\ Len(cat) = k + 2
          /\ \A i \in 1..(k + 2) : cat[i] = IF i <= k THEN hs[i] ELSE tail[i - k]
      BY <2>2, <3>1
    <3>4. \A i \in 1..k : cat[i] = hs[i]
      BY <1>3, <3>3
    <3>5. \A i \in 1..2 : cat[k + i] = tail[i]
      BY <1>3, <3>3
    <3> QED BY <3>2, <3>3, <3>4, <3>5, Zenon
  <2> HIDE DEF k
  <2>6. DOMAIN headers = 1..(k + 2)
    BY <2>5, <1>3
  <2> QED BY <2>2, <2>5, <2>6
<1>5. a[1] = 2 /\ a[2] = len /\ b[1] = 4
  BY DEF R!ContentLength, R!DateName
<1> HIDE DEF a, b, k
<1>6. ASSUME NEW name \in Nat \ {0, 2, 4}
      PROVE  R!HeaderAsGiven(calls, headers, name)
  <2> DEFINE given == GivenBy(calls, m, name)  lines == R!Lines(hs, name)  to == [i \in lines |-> i]
  <2>1. R!Lines(headers, name) = lines
    <3>1. \A i \in 1..(k + 2) : i \in 1..k \/ i = k + 1 \/ i = k + 2
      BY <1>3
    <3>2. \A i \in 1..k : i \in 1..(k + 2)
      BY <1>3
    <3> QED BY <1>3, <1>4, <1>5, <3>1, <3>2 DEF R!Lines
  <2>2. lines \subseteq 1..k /\ lines \subseteq Nat
    BY <1>3 DEF R!Lines
  <2>3. given = {i \in DOMAIN calls : R!NameOf(calls[i]) = name}
    BY <1>1 DEF GivenBy
  <2>4. R!Max(given) = Max(given)
    BY Zenon DEF R!Max, Max
  <2> HIDE DEF lines, given
  <2>5. /\ to \in [lines -> lines] /\ lines = {to[i] : i \in lines}
        /\ \A i, j \in lines : i < j => to[i] < to[j]
    OBVIOUS
  <2>6. \A i \in lines : headers[to[i]][2] = hs[i][2]
    BY <1>4, <2>2
  <2> HIDE DEF to
  <2>7. /\ R!InOrderOfCalls(calls, given, hs, lines) => R!InOrderOfCalls(calls, given, headers, lines)
        /\ Single(calls, given, hs, lines) => Single(calls, given, headers, lines)
    BY <2>2, <2>5, <2>6, LinesMoved
  <2>8. GivenLines(calls, m, hs, name)
    BY <1>2
  <2>9. /\ (\A i \in given : R!IsOneOfSeveral(calls[i])) =>
              R!InOrderOfCalls(calls, given, headers, lines)
        /\ given # {} /\ (\A i \in given : ~R!IsOneOfSeveral(calls[i])) =>
              Single(calls, given, headers, lines)
    BY <2>7, <2>8, Zenon DEF GivenLines, given, lines
  <2>10. Single(calls, given, headers, lines)
           <=> \E n \in lines : lines = {n} /\ headers[n][2] = R!ValueOf(calls[R!Max(given)])
    BY <2>4, Zenon DEF Single
  <2> QED BY <2>1, <2>3, <2>9, <2>10, Zenon DEF R!HeaderAsGiven
<1>7. R!Lines(headers, 2) = {k + 1}
  <2>1. GivenBy(calls, m, 2) = {}
    <3>1. ASSUME NEW i \in 1..m PROVE R!NameOf(calls[i]) # 2
      <4> DEFINE call == calls[i]
      <4>1. R!IsCall(call)
        BY <1>1
      <4> HIDE DEF call
      <4>2. R!NameOf(call) # 2
        BY <4>1 DEF R!IsCall, R!NameOf, R!NoName, R!Connection, R!ContentType, R!Etag,
                    R!Location, R!Server, R!ContentLength
      <4> QED BY <4>2 DEF call
    <3> QED BY <3>1 DEF GivenBy
  <2>2. R!InOrderOfCalls(calls, {}, hs, R!Lines(hs, 2))
    <3>1. GivenLines(calls, m, hs, 2)
      BY <1>2
    <3> QED BY <2>1, <3>1, Zenon DEF GivenLines
  <2>3. R!Lines(hs, 2) = {}
    <3>1. PICK line : R!Lines(hs, 2) = {line[i] : i \in {}}
      BY <2>2, Zenon DEF R!InOrderOfCalls
    <3> QED BY <3>1
  <2>4. \A i \in 1..k : hs[i][1] # 2
    BY <1>3, <2>3 DEF R!Lines
  <2>5. \A i \in 1..(k + 2) : i \in 1..k \/ i = k + 1 \/ i = k + 2
    BY <1>3
  <2>6. k + 1 \in 1..(k + 2) /\ k + 1 # k + 2
    BY <1>3
  <2> QED BY <1>4, <1>5, <2>4, <2>5, <2>6 DEF R!Lines
<1>8. k + 1 \in DOMAIN headers /\ headers[k + 1][2] = len
  BY <1>3, <1>4, <1>5
<1>9. R!ContentLength = 2 /\ {R!Connection, R!ContentType, R!Etag, R!Location, R!Server}
        \subseteq Nat \ {0, 2, 4}
  BY DEF R!Connection, R!ContentLength, R!ContentType, R!Etag, R!Location, R!Server
<1> QED BY <1>6, <1>7, <1>8, <1>9, Zenon

\* The text of a response is what the calls gave.
LEMMA TextAsGiven ==
    ASSUME NEW calls, AreCalls(calls)
    PROVE  R!AsGiven(calls, R!RespToString(R!Built(calls)))
<1> DEFINE m == Len(calls)
<1>1. PICK f : BuildUp(calls, f) /\ R!Built(calls) = f[m]
  <2>1. Len(calls) \in Nat
    BY Zenon DEF AreCalls
  <2> QED BY <2>1, BuiltIs, Zenon DEF BuildUp
<1> DEFINE r == f[m]  text == R!RespToString(r)  len == Len(r.body)
<1>2. HeadersGiven(calls, m, r.headers)
  <2>1. m \in 0..m
    BY DEF AreCalls
  <2> HIDE DEF m
  <2> QED BY <1>1, <2>1, BuiltHeaders DEF m
<1>3. R!BodyAsGiven(calls, r.body)
  BY <1>1, BuiltBody
<1> HIDE DEF r
<1>4. /\ text.headers = r.headers \o <<<<R!ContentLength, len>>, <<R!DateName, 0>>>>
      /\ text.body = r.body
  BY DEF R!RespToString, R!GetContentLength
<1> DEFINE headers == text.headers
<1> HIDE DEF text
<1>5. /\ \A name \in {R!Connection, R!ContentType, R!Etag, R!Location, R!Server} :
            R!HeaderAsGiven(calls, headers, name)
      /\ \E n \in DOMAIN headers : R!Lines(headers, R!ContentLength) = {n} /\ headers[n][2] = len
  <2> HIDE DEF headers, len
  <2>1. WithLength(r.headers, len, headers)
    BY <1>4, Zenon DEF headers, WithLength
  <2> QED BY <1>2, <2>1, TextHeaders
<1>6. R!LengthIsThere(text)
  BY <1>4, <1>5, Zenon DEF R!LengthIsThere
<1>7. R!AsGiven(calls, text)
  BY <1>3, <1>4, <1>5, <1>6, Zenon DEF R!AsGiven
<1> QED BY <1>1, <1>7 DEF text, r

-----------------------------------------------------------------------------
(* The server.                                                             *)

\* Nothing is left of the bytes behind the last one, and something otherwise.
LEMMA WireEnds ==
    ASSUME NEW e \in Seq(Byte), NEW cut, NEW l \in Nat, l <= Len(e)
    PROVE  /\ l = Len(e) => WireFrom(e, cut, l) = <<>>
           /\ l < Len(e) => WireFrom(e, cut, l) # <<>>
<1> DEFINE le == Len(e)  ws == WireFrom(e, cut, l)
           F(i) == [byte |-> e[l + i], cut |-> l + i \in cut \/ l + i = le]
<1>1. le \in Nat /\ l <= le /\ ws = [i \in 1..(le - l) |-> F(i)]
  <2>1. le \in Nat /\ l <= le
    OBVIOUS
  <2>2. ws = [i \in 1..(le - l) |-> F(i)]
    BY Zenon DEF WireFrom
  <2> QED BY <2>1, <2>2
<1> HIDE DEF le, ws, F
<1>2. DOMAIN ws = 1..(le - l)
  BY <1>1
<1>3. ASSUME l = le PROVE ws = <<>>
  <2>1. 1..(le - l) = {}
    BY <1>1, <1>3
  <2>2. ws \in [1..0 -> {}]
    BY <1>1, <1>2, <2>1
  <2>3. ws \in Seq({})
    BY <2>2, SeqDef
  <2>4. Len(ws) = 0
    BY <2>2, <2>3
  <2> QED BY <2>3, <2>4, EmptySeq
<1>4. ASSUME l < le PROVE ws # <<>>
  <2>1. 1 \in 1..(le - l)
    BY <1>1, <1>4
  <2>2. 1 \in DOMAIN ws /\ 1 \notin DOMAIN <<>>
    BY <1>2, <2>1
  <2> QED BY <2>2
<1> QED BY <1>3, <1>4 DEF ws, le

\* A decoder between two requests; before the first one the vector is untouched.
Ready(dec, fresh) ==
    \E w \in Seq(Byte) : \E m, u, v :
        /\ dec = Dec(Buf(w, 0, 0), "ExpectRequestLine", Building(m, u, v, <<>>))
        /\ InitSize <= Len(w)
        /\ fresh => w = B!Zeros(InitSize)

\* A decoder that has seen the first l bytes of a request, of which ws has the rest.
\* A request that no read may cut is there as a whole or not at all.
Pending(dec, ws, r, cut) ==
    \E at : \E w \in Seq(Byte), l \in Nat :
        /\ Sent(r, Encode(r), at) /\ l < Len(Encode(r)) /\ ws = WireFrom(Encode(r), cut, l)
        /\ InitSize <= Len(w)
        /\ cut # {} => Arrived(r, Encode(r), w, l)
        /\ \A p \in cut : MayEnd(r, Encode(r), w, l, p)
        /\ cut = {} => l = 0
        /\ Waiting(dec, r, at, w, l)

\* A decoder that waits has nothing to hand out.
LEMMA WaitingState ==
    ASSUME NEW dec, NEW r, NEW at, NEW w, NEW l, Waiting(dec, r, at, w, l)
    PROVE  dec.state # "ParseFinished" /\ dec.state # "Thrown"
BY DEF Waiting, Dec

\* A new connection.
LEMMA FreshReady == Ready(NewDecoder(NewBuffer, BodyMaxBytes), TRUE)
<1> DEFINE w == B!Zeros(InitSize)
<1>1. w \in Seq(Byte)
  <2>1. w \in [1..InitSize -> Byte]
    BY BufferAssumption DEF B!Zeros, Byte
  <2> HIDE DEF w
  <2> QED BY <2>1, BufferAssumption, SeqDef
<1>2. NewBuffer = Buf(w, 0, 0)
  BY Zenon DEF NewBuffer, Buf
<1>3. EmptyReq = Building(<<>>, <<>>, <<>>, <<>>)
  BY Zenon DEF EmptyReq, Building, Req, NotTruncated
<1>4. NewDecoder(NewBuffer, BodyMaxBytes)
         = Dec(Buf(w, 0, 0), "ExpectRequestLine", Building(<<>>, <<>>, <<>>, <<>>))
  BY <1>2, <1>3, Zenon DEF NewDecoder, Dec
<1>5. InitSize <= Len(w)
  <2>1. DOMAIN w = 1..InitSize
    BY DEF B!Zeros
  <2> HIDE DEF w
  <2>2. Len(w) = InitSize
    BY <1>1, <2>1, BufferAssumption
  <2> QED BY <2>2, BufferAssumption
<1> HIDE DEF w
<1> QED BY <1>1, <1>4, <1>5, Zenon DEF Ready, w

\* A request is not empty.
LEMMA RequestHasBytes ==
    ASSUME NEW r, NEW e, NEW at, Sent(r, e, at)
    PROVE  e \in Seq(Byte) /\ Len(e) \in Nat /\ 0 < Len(e)
<1>1. e \in Seq(Byte) /\ Len(e) \in Nat
  BY DEF Sent, Layout
<1>2. At(e, Len(r.method), <<SP>>) /\ Len(r.method) \in Nat
  <2>1. r \in Request
    BY DEF Sent
  <2>2. Len(r.method) \in Nat
    BY <2>1 DEF Request
  <2> QED BY <2>2, Zenon DEF Sent, Layout
<1>3. Len(r.method) + 1 <= Len(e)
  BY <1>2, Separators DEF At
<1> QED BY <1>1, <1>2, <1>3

\* Before the first byte of a request is read.
LEMMA RequestPending ==
    ASSUME NEW dec, NEW fresh, Ready(dec, fresh), NEW r \in Requests, NEW cut,
           cut # {} => Len(r.method) < MethodLimit /\ Len(Encode(r)) <= InitSize,
           \A p \in cut : /\ p < Len(Encode(r)) - Len(r.body)
                          /\ fresh \/ ~LooksAhead(Encode(r), p)
    PROVE  Pending(dec, Marked(Encode(r), cut), r, cut) /\ Marked(Encode(r), cut) # <<>>
<1> DEFINE e == Encode(r)
<1>1. PICK at : Sent(r, e, at)
  BY RequestsSent
<1>2. PICK w \in Seq(Byte) : \E m, u, v :
        /\ dec = Dec(Buf(w, 0, 0), "ExpectRequestLine", Building(m, u, v, <<>>))
        /\ InitSize <= Len(w)
        /\ fresh => w = B!Zeros(InitSize)
  BY DEF Ready
<1>3. e \in Seq(Byte) /\ Len(e) \in Nat /\ 0 < Len(e)
  BY <1>1, RequestHasBytes
<1> HIDE DEF e
<1>4. Waiting(dec, r, at, w, 0)
  BY <1>2, Zenon DEF Waiting
<1>5. ASSUME cut # {} PROVE Arrived(r, e, w, 0)
  <2>1. Len(r.method) < MethodLimit /\ Len(e) <= InitSize
    BY <1>5 DEF e
  <2>2. Len(e) <= Len(w)
    BY <1>2, <1>3, <2>1, BufferAssumption
  <2>3. 0 < Len(e) - Len(r.body)
    <3> DEFINE a == at[Len(r.headers)]  n == Len(r.body)
    <3>1. Len(e) = a + 2 + n
      BY <1>1, Zenon DEF Sent, Layout
    <3>2. a \in Nat
      <4>1. Len(r.headers) \in Nat /\ at \in [0..Len(r.headers) -> Nat]
        BY <1>1 DEF Sent, Request, Layout
      <4> QED BY <4>1
    <3>3. n \in Nat
      BY <1>1 DEF Sent, Request
    <3> HIDE DEF a, n
    <3>4. 0 < Len(e) - n
      BY <3>1, <3>2, <3>3
    <3> QED BY <3>4 DEF n
  <2>4. ~LooksAhead(e, 0)
    BY DEF LooksAhead, LineStart
  <2>5. Window(Buf(w, 0, 0), 0, e)
    BY <1>3 DEF Window, Buf
  <2> QED BY <2>1, <2>2, <2>3, <2>4, <2>5 DEF Arrived
<1>8. ASSUME NEW p \in cut PROVE MayEnd(r, e, w, 0, p)
  <2>1. p < Len(e) - Len(r.body) /\ (fresh \/ ~LooksAhead(e, p)) /\ Len(e) <= InitSize
    BY DEF e
  <2>2. ASSUME fresh PROVE Clear(e, w, 0)
    <3>1. w = [i \in 1..InitSize |-> 0]
      BY <1>2, <2>2, Zenon DEF B!Zeros
    <3>2. \A i \in 1..InitSize : w[i] = 0
      BY <3>1
    <3>3. \A i \in (0 + 1)..Len(e) : i \in 1..InitSize
      BY <1>3, <2>1, BufferAssumption
    <3> QED BY <3>2, <3>3 DEF Clear
  <2> QED BY <2>1, <2>2, Zenon DEF MayEnd
<1>6. Marked(e, cut) = WireFrom(e, cut, 0) /\ WireFrom(e, cut, 0) # <<>>
  BY <1>3, WireOfRequest, WireEnds
<1>7. Pending(dec, Marked(e, cut), r, cut)
  <2>1. 0 \in Nat
    OBVIOUS
  <2> QED BY <1>1, <1>2, <1>3, <1>4, <1>5, <1>6, <1>8, <2>1, Zenon DEF Pending, e
<1> QED BY <1>6, <1>7 DEF e

\* The request is handed out as it was sent and nothing is left of it.
Handed(dec, ws, r) ==
    /\ ws = <<>>
    /\ \E w \in Seq(Byte) :
          dec = Dec(Buf(w, 0, 0), "ParseFinished", Expected(r)) /\ InitSize <= Len(w)

\* A read and the call of Decode behind it: either the request is handed out, or the
\* decoder waits for the bytes that are missing.
LEMMA ReadDecoded ==
    ASSUME NEW dec, NEW ws, NEW r, NEW cut, Pending(dec, ws, r, cut),
           NEW n \in DOMAIN ws, ws[n].cut, NEW beyond \in Beyond, NEW next,
           next = DecodeLoop([dec EXCEPT !.buf = B!ReadBytesFromFd(@, [i \in 1..n |-> ws[i].byte])],
                             beyond),
           NEW rest, rest = SubSeq(ws, n + 1, Len(ws))
    PROVE  \/ Handed(next, rest, r)
           \/ /\ Pending(next, rest, r, cut) /\ rest # <<>>
              /\ next.state # "ParseFinished" /\ next.state # "Thrown"
<1> DEFINE e == Encode(r)  data == [i \in 1..n |-> ws[i].byte]
           read == [dec EXCEPT !.buf = B!ReadBytesFromFd(@, data)]
<1>0. PICK at : \E w \in Seq(Byte), l \in Nat :
        /\ Sent(r, e, at) /\ l < Len(e) /\ ws = WireFrom(e, cut, l)
        /\ InitSize <= Len(w)
        /\ cut # {} => Arrived(r, e, w, l)
        /\ \A p \in cut : MayEnd(r, e, w, l, p)
        /\ cut = {} => l = 0
        /\ Waiting(dec, r, at, w, l)
  BY Zenon DEF Pending
<1>1. PICK w \in Seq(Byte), l \in Nat :
        /\ Sent(r, e, at) /\ l < Len(e) /\ ws = WireFrom(e, cut, l)
        /\ InitSize <= Len(w)
        /\ cut # {} => Arrived(r, e, w, l)
        /\ \A p \in cut : MayEnd(r, e, w, l, p)
        /\ cut = {} => l = 0
        /\ Waiting(dec, r, at, w, l)
  BY <1>0, Zenon
<1>2. e \in Seq(Byte) /\ Len(e) \in Nat
  BY <1>1 DEF Sent, Layout
<1> HIDE DEF e
<1>3. /\ n \in Nat /\ 0 < n /\ l + n <= Len(e)
      /\ ws[n].cut => l + n \in cut \/ l + n = Len(e)
      /\ data = [i \in 1..n |-> e[l + i]]
      /\ rest = WireFrom(e, cut, l + n)
  <2>1. n \in DOMAIN WireFrom(e, cut, l)
    BY <1>1
  <2>2. Taken(WireFrom(e, cut, l), n, e, cut, l)
    BY <1>1, <1>2, <2>1, WireRead
  <2>3. Taken(ws, n, e, cut, l)
    BY <1>1, <2>2, Zenon
  <2> QED BY <2>3, Zenon DEF Taken
<1> HIDE DEF data
<1>4. (Arrived(r, e, w, l) /\ MayEnd(r, e, w, l, l + n)) \/ (l = 0 /\ n = Len(e))
  <2>1. CASE cut # {}
    <3>1. l + n = Len(e) => MayEnd(r, e, w, l, l + n)
      BY DEF MayEnd
    <3> QED BY <1>1, <1>3, <2>1, <3>1
  <2>2. CASE cut = {}
    <3>1. l = 0 /\ l + n = Len(e)
      BY <1>1, <1>3, <2>2
    <3> QED BY <1>3, <3>1
  <2> QED BY <2>1, <2>2
<1>5. PICK v \in Seq(Byte) : Arrives(r, e, w, l, v, l + n) /\ Waiting(read, r, at, v, l + n)
  BY <1>1, <1>3, <1>4, ReadArrives
<1>11. /\ Arrived(r, e, v, l + n) /\ (Clear(e, w, l) => Clear(e, v, l + n))
       /\ InitSize <= Len(v)
  <2>1. /\ Arrived(r, e, v, l + n) /\ (Clear(e, w, l) => Clear(e, v, l + n))
        /\ Len(w) <= Len(v)
    BY <1>5, Zenon DEF Arrives
  <2>2. Len(w) \in Nat /\ Len(v) \in Nat
    OBVIOUS
  <2> QED BY <1>1, <2>1, <2>2, BufferAssumption
<1>6. next = DecodeLoop(read, beyond)
  BY DEF data
<1> HIDE DEF read
<1>7. /\ l + n # Len(e) => Waiting(next, r, at, v, l + n)
      /\ l + n = Len(e) => next = Dec(Buf(v, 0, 0), "ParseFinished", Expected(r))
  BY <1>1, <1>5, <1>6, <1>11, Decoded
<1>8. l + n \in Nat
  BY <1>3
<1>9. CASE l + n = Len(e)
  <2>1. next = Dec(Buf(v, 0, 0), "ParseFinished", Expected(r))
    BY <1>7, <1>9
  <2>2. rest = <<>>
    BY <1>2, <1>3, <1>8, <1>9, WireEnds
  <2>3. Handed(next, rest, r)
    BY <1>11, <2>1, <2>2, Zenon DEF Handed
  <2> QED BY <2>3
<1>10. CASE l + n # Len(e)
  <2>1. l + n < Len(e)
    BY <1>2, <1>3, <1>10
  <2>2. rest # <<>>
    BY <1>2, <1>3, <1>8, <2>1, WireEnds
  <2>3. Waiting(next, r, at, v, l + n)
    BY <1>7, <1>10
  <2>4. cut # {}
    BY <1>3, <1>10
  <2>7. ASSUME NEW p \in cut PROVE MayEnd(r, e, v, l + n, p)
    <3>1. MayEnd(r, e, w, l, p)
      BY <1>1
    <3> QED BY <1>11, <3>1, Zenon DEF MayEnd
  <2>5. Pending(next, rest, r, cut)
    BY <1>1, <1>3, <1>8, <1>11, <2>1, <2>3, <2>4, <2>7, Zenon DEF Pending, e
  <2>6. next.state # "ParseFinished" /\ next.state # "Thrown"
    BY <2>3, WaitingState, Zenon
  <2> QED BY <2>2, <2>5, <2>6
<1> QED BY <1>9, <1>10

\* A request that is read at once by a new decoder is handed out.
LEMMA WholeRequestDecoded ==
    ASSUME NEW r \in Requests, NEW beyond \in Beyond
    PROVE  /\ Encode(r) \in Seq(Byte) /\ Encode(r) # <<>>
           /\ \E w \in Seq(Byte) :
                DecodeLoop(NewDecoder(B!ReadBytesFromFd(NewBuffer, Encode(r)), BodyMaxBytes), beyond)
                  = Dec(Buf(w, 0, 0), "ParseFinished", Expected(r))
<1> DEFINE e == Encode(r)  n == Len(e)  dec == NewDecoder(NewBuffer, BodyMaxBytes)
           ws == Marked(e, {})  data == [i \in 1..n |-> ws[i].byte]
           next == DecodeLoop([dec EXCEPT !.buf = B!ReadBytesFromFd(@, data)], beyond)
           rest == SubSeq(ws, n + 1, Len(ws))
<1>1. e \in Seq(Byte) /\ n \in Nat /\ 0 < n
  BY RequestsSent, RequestHasBytes
<1>2. Pending(dec, ws, r, {})
  BY FreshReady, RequestPending
<1>3. n \in DOMAIN ws /\ ws[n].cut /\ Len(ws) = n /\ data = e /\ rest = <<>>
  <2> HIDE DEF e
  <2>1. DOMAIN e = 1..n
    BY <1>1
  <2> HIDE DEF n
  <2>2. ws = [i \in 1..n |-> [byte |-> e[i], cut |-> i \in {} \/ i = n]]
    BY <2>1 DEF Marked, n
  <2> HIDE DEF ws
  <2>3. /\ ws \in Seq([byte : Byte, cut : BOOLEAN]) /\ Len(ws) = n
    BY <1>1, <2>1, <2>2
  <2>4. data = e
    <3>1. e = [i \in 1..n |-> e[i]]
      BY <1>1, <2>1
    <3>2. \A i \in 1..n : ws[i].byte = e[i]
      BY <2>2
    <3> QED BY <3>1, <3>2, Zenon
  <2>5. rest = <<>>
    BY <1>1, <2>3
  <2> QED BY <1>1, <2>2, <2>3, <2>4, <2>5
<1>4. [dec EXCEPT !.buf = B!ReadBytesFromFd(@, data)]
        = NewDecoder(B!ReadBytesFromFd(NewBuffer, e), BodyMaxBytes)
  <2>1. data = e
    BY <1>3
  <2> HIDE DEF data, e
  <2> QED BY <2>1 DEF NewDecoder
<1> HIDE DEF e, n, ws, data, dec, rest
<1>5. next = DecodeLoop(NewDecoder(B!ReadBytesFromFd(NewBuffer, e), BodyMaxBytes), beyond)
  BY <1>4
<1>6. \/ Handed(next, rest, r)
      \/ rest # <<>>
  <2>1. rest = SubSeq(ws, n + 1, Len(ws))
    BY DEF rest
  <2>2. next = DecodeLoop([dec EXCEPT !.buf = B!ReadBytesFromFd(@, [i \in 1..n |-> ws[i].byte])], beyond)
    BY Zenon DEF data
  <2> HIDE DEF next
  <2> QED BY <2>1, <2>2, <1>2, <1>3, ReadDecoded
<1> HIDE DEF next
<1>7. PICK w \in Seq(Byte) : next = Dec(Buf(w, 0, 0), "ParseFinished", Expected(r))
  BY <1>3, <1>6, Zenon DEF Handed
<1>8. e # <<>>
  BY <1>1 DEF n
<1> QED BY <1>1, <1>5, <1>7, <1>8, Zenon DEF e

\* What Decode leaves when the request is moved out.
LEMMA MovedOutReady ==
    ASSUME NEW r \in Requests, NEW w \in Seq(Byte), NEW dec, InitSize <= Len(w),
           dec = Dec(Buf(w, 0, 0), "ParseFinished", Expected(r))
    PROVE  /\ dec.req = Expected(r) /\ dec.state = "ParseFinished"
           /\ Ready(MovedOut(dec), FALSE)
<1> DEFINE k == Buf(w, 0, 0)  m == r.method  u == r.request_uri  v == r.version
           h == FirstOf(r.headers)  b == r.body
           q == Req(m, u, v, h, b, NotTruncated)
<1>1. dec = Dec(k, "ParseFinished", q) /\ Expected(r) = q
  BY ExpectedIs, Zenon
<1> HIDE DEF k, m, u, v, h, b
<1>2. dec.req = q /\ dec.state = "ParseFinished"
  BY <1>1 DEF Dec
<1>3. MovedOut(dec) = Dec(k, "ExpectRequestLine", Building(m, <<>>, v, <<>>))
  <2> DEFINE q1 == [q EXCEPT !.request_uri = <<>>]
             q2 == [q1 EXCEPT !.headers = <<>>]
             q3 == [q2 EXCEPT !.body = <<>>]
             d0 == [dec EXCEPT !.state = "ExpectRequestLine"]
             d1 == [d0 EXCEPT !.req = q3]
  <2>1. q1 = Req(m, <<>>, v, h, b, NotTruncated)
    BY DEF Req
  <2> HIDE DEF q1
  <2>2. q2 = Req(m, <<>>, v, <<>>, b, NotTruncated)
    BY <2>1 DEF Req
  <2> HIDE DEF q2
  <2>3. q3 = Building(m, <<>>, v, <<>>)
    BY <2>2 DEF Req, Building
  <2> HIDE DEF q3, q
  <2>4. d0 = Dec(k, "ExpectRequestLine", q)
    BY <1>1 DEF Dec
  <2> HIDE DEF d0
  <2>5. d1 = Dec(k, "ExpectRequestLine", q3)
    BY <2>4 DEF Dec
  <2>6. MovedOut(dec) = d1
    <3>1. MovedOut(dec) =
            [[[d0 EXCEPT !.req.request_uri = <<>>] EXCEPT !.req.headers = <<>>] EXCEPT !.req.body = <<>>]
      BY DEF MovedOut, d0
    <3> DEFINE a1 == [d0 EXCEPT !.req.request_uri = <<>>]
               a2 == [a1 EXCEPT !.req.headers = <<>>]
               a3 == [a2 EXCEPT !.req.body = <<>>]
    <3>2. a1 = Dec(k, "ExpectRequestLine", q1)
      <4>1. d0.req = q
        BY <2>4 DEF Dec
      <4>2. a1 = [d0 EXCEPT !.req = [d0.req EXCEPT !.request_uri = <<>>]]
        OBVIOUS
      <4>3. a1 = [d0 EXCEPT !.req = q1]
        BY <4>1, <4>2 DEF q1
      <4> HIDE DEF a1
      <4> QED BY <4>3, <2>4 DEF Dec
    <3> HIDE DEF a1
    <3>3. a2 = Dec(k, "ExpectRequestLine", q2)
      <4>1. a1.req = q1
        BY <3>2 DEF Dec
      <4>2. a2 = [a1 EXCEPT !.req = [a1.req EXCEPT !.headers = <<>>]]
        OBVIOUS
      <4>3. a2 = [a1 EXCEPT !.req = q2]
        BY <4>1, <4>2 DEF q2
      <4> HIDE DEF a2
      <4> QED BY <4>3, <3>2 DEF Dec
    <3> HIDE DEF a2
    <3>4. a3 = Dec(k, "ExpectRequestLine", q3)
      <4>1. a2.req = q2
        BY <3>3 DEF Dec
      <4>2. a3 = [a2 EXCEPT !.req = [a2.req EXCEPT !.body = <<>>]]
        OBVIOUS
      <4>3. a3 = [a2 EXCEPT !.req = q3]
        BY <4>1, <4>2 DEF q3
      <4> HIDE DEF a3
      <4> QED BY <4>3, <3>3 DEF Dec
    <3>5. MovedOut(dec) = a3
      BY <3>1 DEF a1, a2
    <3> QED BY <2>5, <3>4, <3>5, Zenon
  <2> QED BY <2>3, <2>5, <2>6, Zenon
<1>4. Ready(MovedOut(dec), FALSE)
  BY <1>3, Zenon DEF Ready, k
<1> QED BY <1>1, <1>2, <1>4

\* The requests answered so far are the first of those that were sent.
IsAnswered(sent, seen) ==
    /\ sent \in Seq(Requests) /\ Len(sent) <= MaxRequests
    /\ seen \in Seq({Expected(r) : r \in Requests})
    /\ \A i \in 1..Len(seen) : seen[i] = Expected(sent[i])

Answers == IsAnswered(asked, answered)

\* Every request has been answered.
Idle ==
    /\ Len(answered) = Len(asked) /\ wire = <<>>
    /\ d.state = "Thrown" \/ Ready(d, asked = <<>>)

\* The last one has not.
Latest == asked[Len(asked)]
Busy ==
    /\ Len(asked) = Len(answered) + 1 /\ wire # <<>>
    /\ d.state = "Thrown" \/ Pending(d, wire, Latest, Cuts(Len(asked), Latest))

IInv == Answers /\ (Idle \/ Busy)

\* A new connection has nothing to answer.
LEMMA FreshInv ==
    /\ IsAnswered(<<>>, <<>>) /\ Len(<<>>) = 0
    /\ \A ra : ra = <<>> => Ready(NewDecoder(NewBuffer, BodyMaxBytes), ra = <<>>)
<1>1. IsAnswered(<<>>, <<>>) /\ Len(<<>>) = 0
  <2> DEFINE none == <<>>
  <2>1. Len(none) = 0 /\ 0 <= MaxRequests
    BY SizesAssumption
  <2>2. none \in Seq(Requests)
    OBVIOUS
  <2>3. none \in Seq({Expected(r) : r \in Requests})
    OBVIOUS
  <2>4. \A i \in 1..Len(none) : none[i] = Expected(none[i])
    BY <2>1
  <2> HIDE DEF none
  <2>5. IsAnswered(none, none)
    BY <2>1, <2>2, <2>3, <2>4 DEF IsAnswered
  <2> QED BY <2>1, <2>5 DEF none
<1>2. ASSUME NEW ra, ra = <<>>
      PROVE  Ready(NewDecoder(NewBuffer, BodyMaxBytes), ra = <<>>)
  <2>1. (ra = <<>>) = TRUE
    BY <1>2
  <2> QED BY <2>1, FreshReady, Zenon
<1> QED BY <1>1, <1>2

\* The first connection.
LEMMA InitInv == Init => IInv
<1> SUFFICES ASSUME Init PROVE IInv
  OBVIOUS
<1>1. d = NewDecoder(NewBuffer, BodyMaxBytes) /\ wire = <<>> /\ asked = <<>> /\ answered = <<>>
  BY DEF Init
<1>2. Answers
  BY <1>1, FreshInv, Zenon DEF Answers
<1>3. Idle
  BY <1>1, FreshInv, Zenon DEF Idle
<1> QED BY <1>2, <1>3 DEF IInv

\* The client sends a request.
LEMMA ClientRequestsInv == ASSUME CutsAreSafe, IInv, ClientRequests PROVE IInv'
<1>1. Idle /\ Answers
  BY DEF IInv, Busy, ClientRequests
<1> DEFINE n == Len(asked)
<1>2. /\ n \in Nat /\ n < MaxRequests /\ Len(answered) = n /\ d' = d /\ answered' = answered
      /\ asked \in Seq(Requests)
  BY <1>1 DEF Answers, IsAnswered, Idle, ClientRequests
<1>3. PICK r \in Requests :
        asked' = Append(asked, r) /\ wire' = Marked(Encode(r), Cuts(Len(asked'), r))
  BY Zenon DEF ClientRequests
<1>4. /\ asked' \in Seq(Requests) /\ Len(asked') = n + 1 /\ asked'[n + 1] = r
      /\ \A i \in 1..n : asked'[i] = asked[i]
  BY <1>2, <1>3
<1> HIDE DEF n
<1>5. Answers'
  <2>1. Len(asked') <= MaxRequests
    BY <1>2, <1>4, SizesAssumption
  <2>2. \A i \in 1..Len(answered) : answered[i] = Expected(asked'[i])
    BY <1>1, <1>2, <1>4 DEF Answers, IsAnswered
  <2>3. answered' \in Seq({Expected(q) : q \in Requests})
    BY <1>1, <1>2, Zenon DEF Answers, IsAnswered
  <2> QED BY <1>2, <1>4, <2>1, <2>2, <2>3, Zenon DEF Answers, IsAnswered
<1>6. Busy'
  <2> DEFINE cut == Cuts(Len(asked'), r)
  <2>1. cut \subseteq SafeCuts(n + 1, r)
    <3>1. n + 1 \in 1..MaxRequests
      BY <1>2, SizesAssumption
    <3> QED BY <1>4, <3>1, Zenon DEF CutsAreSafe
  <2>2. n + 1 = 1 => asked = <<>>
    <3>1. n + 1 = 1 => n = 0
      BY <1>2
    <3>2. n = 0 => asked = <<>>
      BY <1>2, EmptySeq DEF n
    <3> QED BY <3>1, <3>2
  <2> HIDE DEF cut
  <2>7. ASSUME NEW p \in cut
        PROVE  /\ Len(r.method) < MethodLimit /\ Len(Encode(r)) <= InitSize
               /\ p < Len(Encode(r)) - Len(r.body)
               /\ asked = <<>> \/ ~LooksAhead(Encode(r), p)
    <3> DEFINE e == Encode(r)  lb == Len(r.body)
    <3>1. /\ p \in 1..(Len(e) - lb - 1) /\ Len(r.method) < MethodLimit /\ Len(e) <= InitSize
          /\ n + 1 = 1 \/ ~LooksAhead(e, p)
      BY <2>1, Zenon DEF SafeCuts
    <3>2. Len(e) \in Nat /\ lb \in Nat
      BY RequestsSent, RequestHasBytes DEF Sent, Request
    <3> HIDE DEF e, lb
    <3>3. p < Len(e) - lb
      BY <3>1, <3>2
    <3> QED BY <2>2, <3>1, <3>3 DEF e, lb
  <2>3. Len(asked') = Len(answered') + 1 /\ Latest' = r
    BY <1>2, <1>4 DEF Latest
  <2>4. wire' # <<>>
    <3>1. Marked(Encode(r), cut) # <<>>
      <4>1. PICK at : Sent(r, Encode(r), at)
        BY RequestsSent
      <4> DEFINE fresh == asked = <<>>
      <4>2. Encode(r) \in Seq(Byte) /\ 0 < Len(Encode(r))
        BY <4>1, RequestHasBytes
      <4>3. Marked(Encode(r), cut) = WireFrom(Encode(r), cut, 0)
        BY <4>2, WireOfRequest
      <4> QED BY <4>2, <4>3, WireEnds
    <3> QED BY <1>3, <3>1, Zenon DEF cut
  <2>5. CASE d.state = "Thrown"
    BY <1>2, <2>3, <2>4, <2>5 DEF Busy
  <2>6. CASE d.state # "Thrown"
    <3> DEFINE fresh == asked = <<>>
    <3>1. Ready(d, fresh)
      BY <1>1, <2>6 DEF Idle
    <3>2. /\ cut # {} => Len(r.method) < MethodLimit /\ Len(Encode(r)) <= InitSize
          /\ \A p \in cut : /\ p < Len(Encode(r)) - Len(r.body)
                            /\ fresh \/ ~LooksAhead(Encode(r), p)
      BY <2>7, Zenon
    <3> HIDE DEF fresh
    <3>3. Pending(d, Marked(Encode(r), cut), r, cut)
      BY <3>1, <3>2, RequestPending
    <3>4. Pending(d', wire', r, Cuts(Len(asked'), r))
      BY <1>2, <1>3, <3>3, Zenon DEF cut
    <3>5. Pending(d, wire, Latest, Cuts(Len(asked), Latest))'
      BY <2>3, <3>4, Zenon
    <3> QED BY <2>3, <2>4, <3>5, Zenon DEF Busy
  <2> QED BY <2>5, <2>6
<1> QED BY <1>5, <1>6 DEF IInv

\* One more answer.
LEMMA OneMore ==
    ASSUME NEW sent, NEW seen, IsAnswered(sent, seen), Len(sent) = Len(seen) + 1,
           NEW q, q = Expected(sent[Len(sent)])
    PROVE  IsAnswered(sent, Append(seen, q)) /\ Len(Append(seen, q)) = Len(sent)
<1> DEFINE X == {Expected(r) : r \in Requests}  n == Len(seen)  now == Append(seen, q)
<1>1. sent \in Seq(Requests) /\ seen \in Seq(X) /\ n \in Nat /\ Len(sent) = n + 1
  BY DEF IsAnswered
<1>2. sent[n + 1] \in Requests
  BY <1>1
<1>3. q \in X
  BY <1>1, <1>2
<1> HIDE DEF X
<1>4. now \in Seq(X) /\ Len(now) = n + 1 /\ now[n + 1] = q /\ \A i \in 1..n : now[i] = seen[i]
  BY <1>1, <1>3
<1> HIDE DEF now
<1>5. \A i \in 1..Len(now) : now[i] = Expected(sent[i])
  <2> SUFFICES ASSUME NEW i \in 1..(n + 1) PROVE now[i] = Expected(sent[i])
    BY <1>4
  <2>1. CASE i = n + 1
    BY <1>1, <1>4, <2>1
  <2>2. CASE i # n + 1
    <3>1. i \in 1..n
      BY <1>1, <2>2
    <3>2. seen[i] = Expected(sent[i])
      BY <3>1 DEF IsAnswered
    <3> QED BY <1>4, <3>1, <3>2
  <2> QED BY <2>1, <2>2
<1>6. IsAnswered(sent, now)
  BY <1>4, <1>5 DEF IsAnswered, X
<1> QED BY <1>1, <1>4, <1>6 DEF now

\* What the call of Decode behind a read comes to: OnRequest for the last request, or
\* a decoder that waits for the rest of it.
ReadTo(dec) ==
    \/ Handed(dec, wire', Latest) /\ Respond(dec)
    \/ /\ Pending(dec, wire', Latest, Cuts(Len(asked), Latest)) /\ wire' # <<>>
       /\ d' = dec /\ answered' = answered /\ reply' = reply

\* A read and the call of Decode behind it.
LEMMA OneRead ==
    ASSUME IInv, OnTcpReceivedData
    PROVE  /\ Answers /\ Len(asked) = Len(answered) + 1 /\ Latest \in Requests
           /\ asked' = asked /\ asked # <<>>
           /\ \E dec : ReadTo(dec)
<1>1. d.state # "Thrown" /\ asked' = asked
  BY DEF OnTcpReceivedData
<1>2. PICK n \in {i \in DOMAIN wire : wire[i].cut}, beyond \in Beyond :
        /\ LET bytes == [i \in 1..n |-> wire[i].byte]
               read  == [d EXCEPT !.buf = B!ReadBytesFromFd(@, bytes)]
           IN  \E dec \in {DecodeLoop(read, beyond)} :
                \/ dec.state = "ParseFinished" /\ Respond(dec)
                \/ dec.state # "ParseFinished" /\ d' = dec /\ UNCHANGED <<answered, reply>>
        /\ wire' = SubSeq(wire, n + 1, Len(wire))
  BY Zenon DEF OnTcpReceivedData
<1> DEFINE read == [d EXCEPT !.buf = B!ReadBytesFromFd(@, [i \in 1..n |-> wire[i].byte])]
           dec == DecodeLoop(read, beyond)
           r == Latest  cut == Cuts(Len(asked), Latest)
<1>3. /\ n \in DOMAIN wire /\ wire[n].cut /\ wire' = SubSeq(wire, n + 1, Len(wire))
      /\ \/ dec.state = "ParseFinished" /\ Respond(dec)
         \/ dec.state # "ParseFinished" /\ d' = dec /\ answered' = answered /\ reply' = reply
  BY <1>2, Zenon
<1>4. Answers /\ Busy /\ Len(asked) = Len(answered) + 1 /\ Pending(d, wire, r, cut)
  <2>1. wire # <<>>
    BY <1>3
  <2> QED BY <1>1, <2>1 DEF IInv, Idle, Busy
<1>5. r \in Requests /\ asked # <<>>
  <2>1. asked \in Seq(Requests) /\ Len(asked) \in 1..MaxRequests
    <3>1. Len(answered) \in Nat /\ Len(asked) \in Nat /\ Len(asked) <= MaxRequests
      BY <1>4 DEF Answers, IsAnswered
    <3> QED BY <1>4, <3>1, SizesAssumption DEF Answers, IsAnswered
  <2>2. r \in Requests
    BY <2>1 DEF Latest
  <2>3. asked # <<>>
    BY <2>1
  <2> QED BY <2>2, <2>3
<1> HIDE DEF cut, r
<1>6. \/ Handed(dec, wire', r)
      \/ Pending(dec, wire', r, cut) /\ wire' # <<>> /\ dec.state # "ParseFinished"
  <2> DEFINE dec0 == dec
  <2>1. dec0 = DecodeLoop([d EXCEPT !.buf = B!ReadBytesFromFd(@, [i \in 1..n |-> wire[i].byte])], beyond)
    OBVIOUS
  <2> HIDE DEF dec0
  <2>2. \/ Handed(dec0, wire', r)
        \/ /\ Pending(dec0, wire', r, cut) /\ wire' # <<>>
           /\ dec0.state # "ParseFinished" /\ dec0.state # "Thrown"
    BY <1>3, <1>4, <1>5, <2>1, ReadDecoded
  <2> QED BY <2>2, Zenon DEF dec0
<1> HIDE DEF dec
<1>7. Handed(dec, wire', r) => dec.state = "ParseFinished"
  <2> SUFFICES ASSUME NEW w, dec = Dec(Buf(w, 0, 0), "ParseFinished", Expected(r)) /\ InitSize <= Len(w)
               PROVE  dec.state = "ParseFinished"
    BY Zenon DEF Handed
  <2> QED BY DEF Dec
<1>8. ReadTo(dec)
  <2>1. CASE Handed(dec, wire', r)
    BY <1>3, <1>7, <2>1, Zenon DEF ReadTo, r
  <2>2. CASE Pending(dec, wire', r, cut) /\ wire' # <<>> /\ dec.state # "ParseFinished"
    BY <1>3, <2>2, Zenon DEF ReadTo, r, cut
  <2> QED BY <1>6, <2>1, <2>2
<1> QED BY <1>1, <1>4, <1>5, <1>8 DEF r

\* A read, the call of Decode behind it, and OnRequest.
LEMMA OnTcpReceivedDataInv == IInv /\ OnTcpReceivedData => IInv'
<1> SUFFICES ASSUME IInv, OnTcpReceivedData PROVE IInv'
  OBVIOUS
<1> DEFINE r == Latest  cut == Cuts(Len(asked), Latest)
<1>1. Answers /\ Len(asked) = Len(answered) + 1 /\ r \in Requests /\ asked' = asked /\ asked # <<>>
  BY OneRead
<1>2. PICK dec : ReadTo(dec)
  BY OneRead
<1> HIDE DEF cut, r
<1>3. CASE Pending(dec, wire', r, cut) /\ wire' # <<>> /\ d' = dec /\ answered' = answered
  <2>1. d' = dec /\ answered' = answered
    BY <1>3
  <2>2. Answers'
    BY <1>1, <2>1, Zenon DEF Answers
  <2>3. Latest' = r /\ Cuts(Len(asked'), Latest') = cut
    BY <1>1 DEF Latest, r, cut
  <2>4. Pending(d, wire, Latest, Cuts(Len(asked), Latest))'
    BY <1>3, <2>1, <2>3, Zenon
  <2>5. Busy'
    BY <1>1, <1>3, <2>1, <2>4, Zenon DEF Busy
  <2> QED BY <2>2, <2>5 DEF IInv
<1>4. CASE Handed(dec, wire', r) /\ Respond(dec)
  <2>1. PICK w \in Seq(Byte) :
          dec = Dec(Buf(w, 0, 0), "ParseFinished", Expected(r)) /\ InitSize <= Len(w)
    BY <1>4, Zenon DEF Handed
  <2>2. dec.req = Expected(r) /\ dec.state = "ParseFinished" /\ Ready(MovedOut(dec), FALSE)
    BY <1>1, <2>1, MovedOutReady
  <2>3. Respond(dec)
    BY <1>4
  <2>4. answered' = Append(answered, Expected(r))
    BY <2>2, <2>3, Zenon DEF Respond
  <2>5. d' = [MovedOut(dec) EXCEPT !.state = "Thrown"] \/ d' = MovedOut(dec)
    BY <2>3, Zenon DEF Respond
  <2>6. IsAnswered(asked, answered') /\ Len(answered') = Len(asked)
    BY <1>1, <2>4, OneMore DEF Answers, r, Latest
  <2>7. Answers'
    BY <1>1, <2>6, Zenon DEF Answers
  <2>8. d'.state = "Thrown" \/ Ready(d', asked' = <<>>)
    <3>1. CASE d' = MovedOut(dec)
      <4>1. (asked' = <<>>) = FALSE
        BY <1>1
      <4> QED BY <2>2, <3>1, <4>1, Zenon
    <3>2. CASE d' = [MovedOut(dec) EXCEPT !.state = "Thrown"]
      <4> DEFINE out == MovedOut(dec)
      <4>1. PICK v \in Seq(Byte) : \E m, u, z :
              out = Dec(Buf(v, 0, 0), "ExpectRequestLine", Building(m, u, z, <<>>))
        BY <2>2, Zenon DEF Ready
      <4> HIDE DEF out
      <4>2. "state" \in DOMAIN out
        BY <4>1 DEF Dec
      <4>3. d' = [out EXCEPT !.state = "Thrown"]
        BY <3>2 DEF out
      <4> QED BY <4>2, <4>3
    <3> QED BY <2>5, <3>1, <3>2
  <2>9. Idle'
    BY <1>1, <1>4, <2>6, <2>8 DEF Idle, Handed
  <2> QED BY <2>7, <2>9 DEF IInv
<1> QED BY <1>2, <1>3, <1>4 DEF ReadTo, r, cut

\* The client hangs up and comes back.
LEMMA OnTcpConnectedInv == OnTcpConnected => IInv'
<1> SUFFICES ASSUME OnTcpConnected PROVE IInv'
  OBVIOUS
<1>1. d' = NewDecoder(NewBuffer, BodyMaxBytes) /\ wire' = <<>> /\ asked' = <<>> /\ answered' = <<>>
  BY DEF OnTcpConnected
<1>2. Answers'
  BY <1>1, FreshInv, Zenon DEF Answers
<1>3. Idle'
  BY <1>1, FreshInv, Zenon DEF Idle
<1> QED BY <1>2, <1>3 DEF IInv

\* Nothing happens.
LEMMA StutterInv == IInv /\ UNCHANGED vars => IInv'
<1> SUFFICES ASSUME IInv, UNCHANGED vars PROVE IInv'
  OBVIOUS
<1>1. d' = d /\ wire' = wire /\ asked' = asked /\ answered' = answered
  BY DEF vars
<1> QED BY <1>1, Zenon DEF IInv, Answers, Idle, Busy, Latest

\* Every step keeps the invariant when reads end at SafeCuts: whatever the client has
\* sent and TCP has delivered of it, the decoder is between two requests or holds the
\* first bytes of the last one.
THEOREM Invariant == ASSUME CutsAreSafe PROVE Spec => []IInv
<1>1. Init => IInv
  BY InitInv
<1>2. IInv /\ [Next]_vars => IInv'
  BY ClientRequestsInv, OnTcpReceivedDataInv, OnTcpConnectedInv, StutterInv, Zenon DEF Next
<1> QED BY <1>1, <1>2, PTL DEF Spec

\* OnRequest is called with the requests that were sent, in order, each as it was sent:
\* whichever of the SafeCuts TCP made, the parser of HttpReqDecoder hands out what the
\* client meant, whatever earlier requests have left in the vector.
THEOREM RequestsAsSentAlways == ASSUME CutsAreSafe PROVE Spec => []RequestsAsSent
<1>1. IInv => RequestsAsSent
  <2> SUFFICES ASSUME IInv PROVE RequestsAsSent
    OBVIOUS
  <2> DEFINE n == Len(answered)  m == Len(asked)
             all == [i \in DOMAIN asked |-> Expected(asked[i])]
             X == {Expected(r) : r \in Requests}
  <2>1. /\ asked \in Seq(Requests) /\ answered \in Seq(X) /\ n \in Nat /\ m \in Nat /\ n <= m
        /\ \A i \in 1..n : answered[i] = Expected(asked[i])
    <3>1. /\ asked \in Seq(Requests) /\ answered \in Seq(X)
          /\ \A i \in 1..n : answered[i] = Expected(asked[i])
      BY DEF IInv, Answers, IsAnswered
    <3>2. n = m \/ m = n + 1
      BY DEF IInv, Idle, Busy
    <3>3. n \in Nat /\ m \in Nat
      BY <3>1
    <3> HIDE DEF n, m
    <3> QED BY <3>1, <3>2, <3>3
  <2>2. all \in Seq(X) /\ Len(all) = m /\ \A i \in 1..m : all[i] = Expected(asked[i])
    <3>1. DOMAIN asked = 1..m /\ \A i \in 1..m : asked[i] \in Requests
      BY <2>1
    <3>2. \A i \in 1..m : Expected(asked[i]) \in X
      BY <3>1
    <3> HIDE DEF X
    <3>3. DOMAIN all = 1..m /\ \A i \in 1..m : all[i] = Expected(asked[i])
      BY <3>1
    <3>4. all \in [1..m -> X]
      BY <3>1, <3>2
    <3> HIDE DEF all
    <3>5. all \in Seq(X)
      BY <2>1, <3>4, SeqDef
    <3>6. Len(all) = m
      BY <2>1, <3>3, <3>5
    <3> QED BY <3>3, <3>5, <3>6
  <2> HIDE DEF all, X
  <2>3. SubSeq(answered, 1, n) = answered
    BY <2>1, SubSeqFull
  <2>4. SubSeq(all, 0 + 1, 0 + Len(answered)) = answered
    <3>1. \A i \in 1..Len(answered) : all[0 + i] = answered[i]
      BY <2>1, <2>2
    <3>2. 0 + Len(answered) <= Len(all)
      BY <2>1, <2>2
    <3> QED BY <2>1, <2>2, <3>1, <3>2, SubSeqIs
  <2>5. SubSeq(all, 1, n) = answered
    BY <2>1, <2>4
  <2>6. n <= Len(all)
    BY <2>1, <2>2
  <2> QED BY <2>3, <2>5, <2>6 DEF RequestsAsSent, IsPrefix, all
<1> QED BY <1>1, Invariant, PTL

\* Decode leaves no complete request in the buffer: when nothing is under way, every
\* request has been handed to OnRequest, whichever of the SafeCuts TCP made.
THEOREM NoRequestStuckEver == ASSUME CutsAreSafe PROVE Spec => []NoRequestStuck
<1>1. IInv => NoRequestStuck
  BY DEF IInv, Idle, Busy, NoRequestStuck
<1> QED BY <1>1, Invariant, PTL

\* OnRequest builds the response that is sent.
LEMMA ReplyAsGiven ==
    ASSUME NEW dec, NEW r \in Requests, dec.req = Expected(r), Respond(dec)
    PROVE  ResponseAsBuilt'
<1>1. PICK calls \in OnRequest(dec.req) :
        reply' = IF R!Throws(R!Built(calls)) THEN NoReply
                 ELSE [calls |-> calls, text |-> R!RespToString(R!Built(calls))]
  BY Zenon DEF Respond
<1>2. AreCalls(calls)
  <2>1. calls \in OnRequest(Expected(r))
    BY <1>1
  <2> QED BY <2>1, CallsAssumption, Zenon DEF AreCalls
<1>3. R!AsGiven(calls, R!RespToString(R!Built(calls)))
  BY <1>2, TextAsGiven
<1> DEFINE text == R!RespToString(R!Built(calls))
<1>4. reply' = NoReply \/ reply' = [calls |-> calls, text |-> text]
  BY <1>1, Zenon
<1>5. R!AsGiven(calls, text)
  BY <1>3
<1> HIDE DEF text
<1>6. CASE reply' = NoReply
  BY <1>6, Zenon DEF ResponseAsBuilt, NoReply
<1>7. CASE reply' = [calls |-> calls, text |-> text]
  <2>1. reply'.calls = calls /\ reply'.text = text
    BY <1>7
  <2>2. R!AsGiven(reply'.calls, reply'.text)
    BY <1>5, <2>1, Zenon
  <2> QED BY <2>2, Zenon DEF ResponseAsBuilt, NoReply
<1> QED BY <1>4, <1>6, <1>7

\* Whatever OnRequest calls on its HttpResp, in whatever order, AddHeader, SetBody and
\* AppendBody leave a response that says what the calls gave: every header that has one
\* value once and with the last, every value of the others in order, and the length of
\* the body that is sent.
THEOREM ResponseAsBuiltAlways == ASSUME CutsAreSafe PROVE Spec => []ResponseAsBuilt
<1>1. Init => ResponseAsBuilt
  BY Zenon DEF Init, ResponseAsBuilt
<1>2. ASSUME IInv, ResponseAsBuilt, [Next]_vars PROVE ResponseAsBuilt'
  <2>1. CASE reply' = NoReply
    BY <2>1, Zenon DEF ResponseAsBuilt, NoReply
  <2>2. CASE reply' = reply
    BY <1>2, <2>2, Zenon DEF ResponseAsBuilt, NoReply
  <2>3. CASE OnTcpReceivedData
    <3>1. PICK dec : ReadTo(dec)
      BY <1>2, <2>3, OneRead
    <3>2. Latest \in Requests
      BY <1>2, <2>3, OneRead
    <3>3. CASE Handed(dec, wire', Latest) /\ Respond(dec)
      <4>1. PICK w \in Seq(Byte) :
              dec = Dec(Buf(w, 0, 0), "ParseFinished", Expected(Latest)) /\ InitSize <= Len(w)
        BY <3>3, Zenon DEF Handed
      <4>2. dec.req = Expected(Latest)
        BY <3>2, <4>1, MovedOutReady
      <4> QED BY <3>2, <3>3, <4>2, ReplyAsGiven
    <3> QED BY <2>2, <3>1, <3>3, Zenon DEF ReadTo
  <2>4. reply' = NoReply \/ reply' = reply \/ OnTcpReceivedData
    BY <1>2, Zenon DEF Next, ClientRequests, OnTcpConnected, vars
  <2> QED BY <2>1, <2>2, <2>3, <2>4
<1> QED BY <1>1, <1>2, Invariant, PTL DEF Spec

=============================================================================
