------------------------- MODULE ValueAccess_proofs -------------------------
(***************************************************************************)
(* What holds of get() and of the streams of iterators for any number of   *)
(* both, for values and buffers of any length: the properties of the run   *)
(* "values_parts".                                                         *)
(***************************************************************************)
EXTENDS ValueAccess, SequenceTheorems, TLAPS

Bytes == Byte \cup {0}

Placed ==
    [open : {TRUE}, locks : {"read", "write"}, g : Offset, p : Offset,
     read : Octets \cup {Absent}, base : Octets \cup {Absent}, written : Octets \cup {Absent}]

GetState ==
    [at : {"none", "sized", "done"}, inTrans : BOOLEAN, data : Octets \cup {Default}]

Types ==
    /\ env \in BOOLEAN
    /\ value \in Octets \cup {Absent}
    /\ stream \in [Stream -> {Closed} \cup Placed]
    /\ get \in [Getter -> GetState]

\* The bytes w in place of as many of b, after the first n.
Spliced(b, n, w) == SubSeq(b, 1, n) \o w \o SubSeq(b, n + Len(w) + 1, Len(b))

\* What a stream has read is in v, up to its offset, which lies within v.
ReadRight(o, v) ==
    o.read # Absent =>
        /\ v # Absent /\ Len(o.read) =< o.g /\ o.g =< Len(v)
        /\ o.read = SubSeq(v, o.g - Len(o.read) + 1, o.g)

\* What a stream has written is in v, in what it found, without a gap.
WroteRight(o, v) ==
    /\ o.written # Absent => Len(o.written) =< o.p
    /\ o.base # Absent =>
        /\ o.written # Absent /\ o.p - Len(o.written) =< Len(o.base)
        /\ v # Absent /\ v = Spliced(o.base, o.p - Len(o.written), o.written)

StreamsRight ==
    \A s \in Stream :
        stream[s].open => ReadRight(stream[s], value) /\ WroteRight(stream[s], value)

\* Between its two calls get() has a string; in a transaction or without other
\* threads, one of the size of the value.
SizesRight ==
    \A t \in Getter : get[t].at = "sized" =>
        /\ get[t].data \in Octets
        /\ (env => get[t].inTrans) => value # Absent /\ Len(get[t].data) = Len(value)

\* The inductive invariant. That the offset is within the value while what
\* was read or written is remembered makes the next piece follow the last.
Inv == Types /\ StreamsRight /\ SizesRight

-----------------------------------------------------------------------------
(* Sequences. *)

LEMMA OctetsAreSequences ==
  \A v : v \in Octets <=> v \in Seq(Bytes) /\ Len(v) =< MaxLen
<1>1. SUFFICES ASSUME NEW v PROVE v \in Octets <=> v \in Seq(Bytes) /\ Len(v) =< MaxLen
  OBVIOUS
<1>2. ASSUME v \in Octets PROVE v \in Seq(Bytes) /\ Len(v) =< MaxLen
  <2>1. PICK m \in 0..MaxLen : v \in [1..m -> Bytes]
    BY <1>2 DEF Octets, SeqOf, Bytes
  <2>2. m \in Nat /\ m =< MaxLen
    BY <2>1, ValueAssumption
  <2> QED BY <2>1, <2>2
<1>3. ASSUME v \in Seq(Bytes), Len(v) =< MaxLen PROVE v \in Octets
  <2>1. Len(v) \in 0..MaxLen /\ v \in [1..Len(v) -> Bytes]
    BY <1>3, LenProperties, ValueAssumption
  <2> QED BY <2>1 DEF Octets, SeqOf, Bytes
<1> QED BY <1>2, <1>3

\* Bytes written are octets, and there is something in a chunk.
LEMMA ChunkFacts ==
  ASSUME NEW c, c \in Chunk \/ c \in SeqOf(Byte, MaxLen)
  PROVE  c \in Seq(Bytes) /\ Len(c) \in Nat /\ (c \in SeqOf(Byte, MaxLen) => Len(c) =< MaxLen)
<1>1. PICK m \in Nat : c \in [1..m -> Byte] /\ (c \in SeqOf(Byte, MaxLen) => m =< MaxLen)
  <2>1. CASE c \in SeqOf(Byte, MaxLen)
    <3>1. PICK m \in 0..MaxLen : c \in [1..m -> Byte]
      BY <2>1 DEF SeqOf
    <3> QED BY <3>1, ValueAssumption
  <2>2. CASE c \in Chunk /\ c \notin SeqOf(Byte, MaxLen)
    <3>1. PICK m \in 0..MaxChunk : c \in [1..m -> Byte]
      BY <2>2 DEF SeqOf, Chunk
    <3> QED BY <2>2, <3>1, ValueAssumption
  <2> QED BY <2>1, <2>2
<1>3. c \in [1..m -> Bytes]
  BY <1>1 DEF Bytes
<1>4. c \in Seq(Bytes) /\ Len(c) = m
  BY <1>1, <1>3
<1> QED BY <1>1, <1>4

LEMMA ZerosFacts ==
  ASSUME NEW n \in Int
  PROVE  /\ Zeros(n) \in Seq(Bytes) /\ Len(Zeros(n)) = IF n > 0 THEN n ELSE 0
         /\ n =< 0 => Zeros(n) = <<>>
<1>1. CASE n > 0
  <2>1. Zeros(n) \in [1..n -> Bytes] /\ n \in Nat
    BY <1>1 DEF Zeros, Bytes
  <2> QED BY <1>1, <2>1
<1>2. CASE n =< 0
  <2>1. Zeros(n) = <<>>
    <3>1. 1..n = {}
      BY <1>2
    <3> QED BY <3>1 DEF Zeros
  <2> QED BY <1>2, <2>1, EmptySeq
<1> QED BY <1>1, <1>2

\* A piece of v from m to n.
LEMMA PieceFacts ==
  ASSUME NEW v \in Seq(Bytes), NEW m \in Nat \ {0}, NEW n \in Nat, n =< Len(v)
  PROVE  /\ SubSeq(v, m, n) \in Seq(Bytes)
         /\ Len(SubSeq(v, m, n)) = IF m =< n THEN n - m + 1 ELSE 0
         /\ \A i \in 1..(n - m + 1) : SubSeq(v, m, n)[i] = v[m + i - 1]
<1>1. \A i \in m..n : v[i] \in Bytes
  BY ElementOfSeq
<1> QED BY <1>1, SubSeqProperties

\* v consists of n bytes.
Of(v, n) == v \in Seq(Bytes) /\ n \in Nat /\ Len(v) = n

LEMMA OfItsLength == ASSUME NEW v \in Seq(Bytes) PROVE \E n \in Nat : Of(v, n)
BY LenProperties DEF Of

\* x, of l bytes, is the m bytes of v and then w.
IsJoined(x, l, v, m, w) ==
    /\ Of(x, l)
    /\ \A i \in 1..m : x[i] = v[i]
    /\ \A i \in (m + 1)..l : x[i] = w[i - m]

LEMMA ConcatFacts ==
  ASSUME NEW v, NEW w, NEW m, NEW n, Of(v, m), Of(w, n)
  PROVE  IsJoined(v \o w, m + n, v, m, w)
<1>1. v \in Seq(Bytes) /\ w \in Seq(Bytes) /\ m \in Nat /\ n \in Nat
  BY DEF Of
<1>2. PICK x : x = v \o w
  OBVIOUS
<1>3. /\ x \in Seq(Bytes) /\ Len(x) = m + n
      /\ \A i \in 1..(m + n) : x[i] = IF i =< m THEN v[i] ELSE w[i - m]
  BY <1>1, <1>2, ConcatProperties DEF Of
<1>4. \A i \in 1..m : i \in 1..(m + n) /\ i =< m
  BY <1>1
<1>5. \A i \in (m + 1)..(m + n) : i \in 1..(m + n) /\ ~(i =< m)
  BY <1>1
<1>6. Of(x, m + n)
  BY <1>1, <1>3 DEF Of
<1>7. IsJoined(x, m + n, v, m, w)
  BY <1>3, <1>4, <1>5, <1>6 DEF IsJoined
<1> QED BY <1>2, <1>7

\* The first n bytes, and those behind the first n, of m bytes.
LEMMA HeadFacts ==
  ASSUME NEW v, NEW m, NEW n \in Nat, Of(v, m), n =< m
  PROVE  Of(SubSeq(v, 1, n), n) /\ \A i \in 1..n : SubSeq(v, 1, n)[i] = v[i]
<1>1. v \in Seq(Bytes) /\ m \in Nat /\ Len(v) = m
  BY DEF Of
<1>2. PICK x : x = SubSeq(v, 1, n)
  OBVIOUS
<1>3. /\ x \in Seq(Bytes) /\ Len(x) = IF 1 =< n THEN n - 1 + 1 ELSE 0
      /\ \A i \in 1..(n - 1 + 1) : x[i] = v[1 + i - 1]
  BY <1>1, <1>2, PieceFacts
<1>4. \A i \in 1..n : i \in 1..(n - 1 + 1) /\ 1 + i - 1 = i
  OBVIOUS
<1>5. Of(x, n)
  <2>1. CASE 1 =< n
    BY <1>3, <2>1 DEF Of
  <2>2. CASE ~(1 =< n)
    BY <1>3, <2>2 DEF Of
  <2> QED BY <2>1, <2>2
<1> QED BY <1>2, <1>3, <1>4, <1>5

\* x, of l bytes, is what is behind the first k of the m bytes of v.
IsTail(x, l, v, m, k) ==
    /\ Of(x, l) /\ (k =< m => l = m - k) /\ (m < k => l = 0)
    /\ \A i \in (k + 1)..m : x[i - k] = v[i]

LEMMA TailFacts ==
  ASSUME NEW v, NEW m, NEW k \in Nat, Of(v, m)
  PROVE  \E l : IsTail(SubSeq(v, k + 1, m), l, v, m, k)
<1>1. v \in Seq(Bytes) /\ m \in Nat /\ Len(v) = m
  BY DEF Of
<1>2. PICK x : x = SubSeq(v, k + 1, m)
  OBVIOUS
<1>3. PICK n \in Nat \ {0} : n = k + 1
  OBVIOUS
<1>4. /\ x \in Seq(Bytes) /\ Len(x) = IF n =< m THEN m - n + 1 ELSE 0
      /\ \A i \in 1..(m - n + 1) : x[i] = v[n + i - 1]
  BY <1>1, <1>2, <1>3, PieceFacts
<1>5. PICK l \in Nat : l = Len(x)
  BY <1>4, LenProperties
<1>6. (k =< m => l = m - k) /\ (m < k => l = 0)
  <2>1. CASE n =< m
    BY <1>1, <1>3, <1>4, <1>5, <2>1
  <2>2. CASE ~(n =< m)
    BY <1>1, <1>3, <1>4, <1>5, <2>2
  <2> QED BY <2>1, <2>2
<1>7. \A i \in (k + 1)..m : x[i - k] = v[i]
  <2>1. \A i \in (k + 1)..m : i - k \in 1..(m - n + 1) /\ n + (i - k) - 1 = i
    BY <1>1, <1>3
  <2> QED BY <1>4, <2>1
<1>8. Of(x, l)
  BY <1>4, <1>5 DEF Of
<1>9. IsTail(x, l, v, m, k)
  BY <1>6, <1>7, <1>8 DEF IsTail
<1> QED BY <1>2, <1>9

\* Two pieces of v, one behind the other, are a piece of v.
LEMMA PiecesJoin ==
  ASSUME NEW v \in Seq(Bytes), NEW m \in Nat \ {0}, NEW k \in Nat, NEW n \in Nat,
         m =< k + 1, k =< n, n =< Len(v)
  PROVE  SubSeq(v, m, k) \o SubSeq(v, k + 1, n) = SubSeq(v, m, n)
<1>1. Len(v) \in Nat
  BY LenProperties
<1>2. m \in 1..Len(v) + 1 /\ k \in m - 1..Len(v) /\ n \in k..Len(v)
  BY <1>1
<1> QED BY <1>2, ConcatAdjacentSubSeq

\* x is what w makes of b, of nb bytes, from n to k, of l bytes.
IsSpliced(x, l, b, nb, n, w, k) ==
    /\ Of(x, l) /\ l >= nb /\ l >= k /\ (l = nb \/ l = k)
    /\ \A i \in 1..n : x[i] = b[i]
    /\ \A i \in (n + 1)..k : x[i] = w[i - n]
    /\ \A i \in (k + 1)..nb : x[i] = b[i]

LEMMA SplicedFacts ==
  ASSUME NEW b, NEW nb, NEW w, NEW m, NEW n \in Nat, Of(b, nb), Of(w, m), n =< nb
  PROVE  \E l : IsSpliced(Spliced(b, n, w), l, b, nb, n, w, n + m)
<1>1. b \in Seq(Bytes) /\ nb \in Nat /\ Len(b) = nb /\ m \in Nat /\ Len(w) = m
  BY DEF Of
<1>2. PICK k \in Nat : k = n + m
  BY <1>1
<1>3. n =< k /\ k - n = m
  BY <1>1, <1>2
<1>4. PICK head : head = SubSeq(b, 1, n)
  OBVIOUS
<1>5. PICK tail : tail = SubSeq(b, k + 1, nb)
  OBVIOUS
<1>6. Of(head, n) /\ \A i \in 1..n : head[i] = b[i]
  BY <1>1, <1>4, HeadFacts
<1>7. PICK l : /\ Of(tail, l)
               /\ (k =< nb => l = nb - k) /\ (nb < k => l = 0)
               /\ \A i \in (k + 1)..nb : tail[i - k] = b[i]
  <2>1. \E l : IsTail(SubSeq(b, k + 1, nb), l, b, nb, k)
    BY TailFacts
  <2> QED BY <1>5, <2>1 DEF IsTail
<1>8. PICK front : front = head \o w
  OBVIOUS
<1>9. /\ Of(front, k)
      /\ \A i \in 1..n : front[i] = head[i]
      /\ \A i \in (n + 1)..k : front[i] = w[i - n]
  <2>1. IsJoined(front, k, head, n, w)
    BY <1>2, <1>6, <1>8, ConcatFacts
  <2> QED BY <2>1 DEF IsJoined
<1>10. PICK all : all = front \o tail
  OBVIOUS
<1>11. /\ Of(all, k + l)
       /\ \A i \in 1..k : all[i] = front[i]
       /\ \A i \in (k + 1)..(k + l) : all[i] = tail[i - k]
  <2>1. IsJoined(all, k + l, front, k, tail)
    BY <1>7, <1>9, <1>10, ConcatFacts
  <2> QED BY <2>1 DEF IsJoined
<1>12. l \in Nat
  BY <1>7 DEF Of
<1>13. Spliced(b, n, w) = all
  BY <1>1, <1>2, <1>4, <1>5, <1>8, <1>10 DEF Spliced
<1>14. k + l >= nb /\ k + l >= k /\ (k + l = nb \/ k + l = k)
  BY <1>1, <1>7, <1>12
<1>15. \A i \in 1..n : all[i] = b[i]
  <2>1. \A i \in 1..n : i \in 1..k
    BY <1>3
  <2> QED BY <1>6, <1>9, <1>11, <2>1
<1>16. \A i \in (n + 1)..k : all[i] = w[i - n]
  <2>1. \A i \in (n + 1)..k : i \in 1..k
    OBVIOUS
  <2> QED BY <1>9, <1>11, <2>1
<1>17. \A i \in (k + 1)..nb : all[i] = b[i]
  <2>1. \A i \in (k + 1)..nb : i \in (k + 1)..(k + l)
    BY <1>1, <1>7, <1>12
  <2> QED BY <1>7, <1>11, <2>1
<1>18. IsSpliced(all, k + l, b, nb, n, w, k)
  BY <1>11, <1>14, <1>15, <1>16, <1>17 DEF IsSpliced
<1> QED BY <1>2, <1>13, <1>18

\* Two writes, one behind the other, are one.
LEMMA SplicedTwice ==
  ASSUME NEW b, NEW nb, NEW w, NEW m, NEW c, NEW mc, NEW n \in Nat,
         Of(b, nb), Of(w, m), Of(c, mc), n =< nb
  PROVE  Spliced(Spliced(b, n, w), n + m, c) = Spliced(b, n, w \o c)
<1>1. nb \in Nat /\ m \in Nat /\ mc \in Nat
  BY DEF Of
<1>2. PICK k \in Nat : k = n + m
  BY <1>1
<1>3. PICK e \in Nat : e = k + mc
  BY <1>1
<1>4. PICK v : v = Spliced(b, n, w)
  OBVIOUS
<1>5. PICK nv : IsSpliced(v, nv, b, nb, n, w, k)
  BY <1>2, <1>4, SplicedFacts
<1>6. /\ Of(v, nv) /\ nv >= nb /\ nv >= k /\ (nv = nb \/ nv = k)
      /\ \A i \in 1..n : v[i] = b[i]
      /\ \A i \in (n + 1)..k : v[i] = w[i - n]
      /\ \A i \in (k + 1)..nb : v[i] = b[i]
  BY <1>5 DEF IsSpliced
<1>7. nv \in Nat /\ k =< nv
  BY <1>6 DEF Of
<1>8. PICK x : x = Spliced(v, k, c)
  OBVIOUS
<1>9. PICK nx : IsSpliced(x, nx, v, nv, k, c, e)
  BY <1>3, <1>6, <1>7, <1>8, SplicedFacts
<1>10. /\ Of(x, nx) /\ nx >= nv /\ nx >= e /\ (nx = nv \/ nx = e)
       /\ \A i \in 1..k : x[i] = v[i]
       /\ \A i \in (k + 1)..e : x[i] = c[i - k]
       /\ \A i \in (e + 1)..nv : x[i] = v[i]
  BY <1>9 DEF IsSpliced
<1>11. PICK d : d = w \o c
  OBVIOUS
<1>12. PICK md \in Nat : md = m + mc
  BY <1>1
<1>13. /\ Of(d, md)
       /\ \A i \in 1..m : d[i] = w[i]
       /\ \A i \in (m + 1)..md : d[i] = c[i - m]
  <2>1. IsJoined(d, md, w, m, c)
    BY <1>11, <1>12, ConcatFacts
  <2> QED BY <2>1 DEF IsJoined
<1>14. n + md = e
  BY <1>1, <1>2, <1>3, <1>12
<1>15. PICK y : y = Spliced(b, n, d)
  OBVIOUS
<1>16. PICK ny : IsSpliced(y, ny, b, nb, n, d, e)
  <2>1. \E ny : IsSpliced(y, ny, b, nb, n, d, n + md)
    BY <1>13, <1>15, SplicedFacts
  <2> QED BY <1>14, <2>1
<1>17. /\ Of(y, ny) /\ ny >= nb /\ ny >= e /\ (ny = nb \/ ny = e)
       /\ \A i \in 1..n : y[i] = b[i]
       /\ \A i \in (n + 1)..e : y[i] = d[i - n]
       /\ \A i \in (e + 1)..nb : y[i] = b[i]
  BY <1>16 DEF IsSpliced
<1>18. nx \in Nat /\ ny \in Nat
  BY <1>10, <1>17 DEF Of
<1>19. nx = ny
  BY <1>1, <1>2, <1>3, <1>6, <1>7, <1>10, <1>17, <1>18
<1>20. \A i \in 1..nx : x[i] = y[i]
  <2>1. SUFFICES ASSUME NEW i \in 1..nx PROVE x[i] = y[i]
    OBVIOUS
  <2>2. CASE i =< n
    <3>1. i \in 1..n /\ i \in 1..k
      BY <1>1, <1>2, <1>18, <2>2
    <3> QED BY <1>6, <1>10, <1>17, <3>1
  <2>3. CASE n < i /\ i =< k
    <3>1. PICK j \in Nat : j = i - n
      BY <1>18, <2>3
    <3>2. i \in (n + 1)..k /\ i \in 1..k /\ i \in (n + 1)..e /\ j \in 1..m
      BY <1>1, <1>2, <1>3, <1>18, <2>3, <3>1
    <3>3. x[i] = w[j] /\ y[i] = d[j]
      BY <1>6, <1>10, <1>17, <3>1, <3>2
    <3> QED BY <1>13, <3>2, <3>3
  <2>4. CASE k < i /\ i =< e
    <3>1. PICK j \in Nat : j = i - n
      BY <1>1, <1>2, <1>18, <2>4
    <3>2. i \in (k + 1)..e /\ i \in (n + 1)..e /\ j \in (m + 1)..md /\ j - m = i - k
      BY <1>1, <1>2, <1>3, <1>12, <1>18, <2>4, <3>1
    <3>3. x[i] = c[i - k] /\ y[i] = d[j]
      BY <1>10, <1>17, <3>1, <3>2
    <3> QED BY <1>13, <3>2, <3>3
  <2>5. CASE e < i
    <3>1. i \in (e + 1)..nv /\ i \in (k + 1)..nb /\ i \in (e + 1)..nb
      BY <1>1, <1>2, <1>3, <1>6, <1>7, <1>10, <1>18, <2>5
    <3> QED BY <1>6, <1>10, <1>17, <3>1
  <2> QED BY <1>18, <2>2, <2>3, <2>4, <2>5
<1>21. x = y
  <2>1. x \in Seq(Bytes) /\ y \in Seq(Bytes) /\ Len(x) = nx /\ Len(y) = ny
    BY <1>10, <1>17 DEF Of
  <2> QED BY <1>19, <1>20, <2>1, SeqEqual
<1> QED BY <1>2, <1>4, <1>8, <1>11, <1>15, <1>21

\* What __bam_build makes of a value: of the right length wherever it writes;
\* and from an offset within the value, nothing but the bytes in their place.
LEMMA BuiltFacts ==
  ASSUME NEW v, NEW nv, NEW c, NEW mc, NEW p \in Nat, Of(v, nv), Of(c, mc)
  PROVE  /\ Of(Built(v, p, c), nv) \/ Of(Built(v, p, c), p + mc)
         /\ p =< nv => Built(v, p, c) = Spliced(v, p, c)
<1>1. nv \in Nat /\ mc \in Nat /\ Len(v) = nv /\ Len(c) = mc /\ v \in Seq(Bytes)
  BY DEF Of
<1>2. PICK e \in Nat : e = p + mc
  BY <1>1
<1>3. PICK n \in Nat : n = IF p < nv THEN p ELSE nv
  BY <1>1
<1>4. (p =< nv => n = p) /\ (nv < p => n = nv) /\ n =< nv /\ n =< p
  BY <1>1, <1>3
<1>5. PICK head : head = SubSeq(v, 1, n)
  OBVIOUS
<1>6. PICK z \in Int : z = p - nv
  BY <1>1
<1>7. PICK gap : gap = Zeros(z)
  OBVIOUS
<1>8. PICK tail : tail = SubSeq(v, e + 1, nv)
  OBVIOUS
<1>9. Of(head, n)
  BY <1>1, <1>4, <1>5, HeadFacts
<1>10. Of(gap, p - n) /\ (p =< nv => gap = <<>>)
  <2>1. /\ gap \in Seq(Bytes) /\ Len(gap) = IF z > 0 THEN z ELSE 0
        /\ z =< 0 => gap = <<>>
    BY <1>7, ZerosFacts
  <2>2. CASE z > 0
    <3>1. z = p - n /\ z \in Nat /\ ~(p =< nv)
      BY <1>1, <1>4, <1>6, <2>2
    <3> QED BY <2>1, <2>2, <3>1 DEF Of
  <2>3. CASE ~(z > 0)
    <3>1. p - n = 0 /\ z =< 0
      BY <1>1, <1>4, <1>6, <2>3
    <3> QED BY <2>1, <2>3, <3>1 DEF Of
  <2> QED BY <2>2, <2>3
<1>11. PICK l : Of(tail, l) /\ (e =< nv => l = nv - e) /\ (nv < e => l = 0)
  <2>1. \E l : IsTail(SubSeq(v, e + 1, nv), l, v, nv, e)
    BY TailFacts
  <2> QED BY <1>8, <2>1 DEF IsTail
<1>12. PICK one : one = head \o gap
  OBVIOUS
<1>13. Of(one, p) /\ (p =< nv => one = head)
  <2>1. Of(one, n + (p - n))
    BY <1>9, <1>10, <1>12, ConcatFacts DEF IsJoined
  <2>2. p =< nv => one = head
    BY <1>9, <1>10, <1>12, ConcatEmptySeq DEF Of
  <2>3. n + (p - n) = p
    OBVIOUS
  <2> QED BY <2>1, <2>2, <2>3
<1>14. PICK two : two = one \o c
  OBVIOUS
<1>15. Of(two, e)
  BY <1>2, <1>13, <1>14, ConcatFacts DEF IsJoined
<1>16. PICK all : all = two \o tail
  OBVIOUS
<1>17. Of(all, e + l)
  BY <1>11, <1>15, <1>16, ConcatFacts DEF IsJoined
<1>18. e + l = nv \/ e + l = e
  <2>1. l \in Nat
    BY <1>11 DEF Of
  <2> QED BY <1>1, <1>11, <2>1
<1>19. Built(v, p, c) = all
  BY <1>1, <1>2, <1>3, <1>5, <1>6, <1>7, <1>8, <1>12, <1>14, <1>16 DEF Built
<1>20. p =< nv => all = Spliced(v, p, c)
  BY <1>1, <1>2, <1>4, <1>5, <1>8, <1>13, <1>14, <1>16 DEF Spliced
<1> QED BY <1>2, <1>17, <1>18, <1>19, <1>20

\* Writing nothing changes nothing.
LEMMA SplicedNothing ==
  ASSUME NEW v, NEW nv, NEW n \in Nat, Of(v, nv), n =< nv
  PROVE  Spliced(v, n, <<>>) = v
<1>1. v \in Seq(Bytes) /\ nv \in Nat /\ Len(v) = nv
  BY DEF Of
<1>2. PICK head : head = SubSeq(v, 1, n)
  OBVIOUS
<1>3. PICK tail : tail = SubSeq(v, n + 1, nv)
  OBVIOUS
<1>4. head \in Seq(Bytes)
  BY <1>1, <1>2, HeadFacts DEF Of
<1>5. head \o <<>> = head
  BY <1>4, ConcatEmptySeq
<1>6. head \o tail = SubSeq(v, 1, nv)
  BY <1>1, <1>2, <1>3, PiecesJoin
<1>7. SubSeq(v, 1, nv) = v
  BY <1>1, SubSeqFull
<1>8. Spliced(v, n, <<>>) = head \o <<>> \o tail
  <2>1. Len(<<>>) = 0 /\ n + 0 + 1 = n + 1
    BY EmptySeq
  <2> QED BY <1>1, <1>2, <1>3, <2>1 DEF Spliced
<1> QED BY <1>5, <1>6, <1>7, <1>8

LEMMA OctetsOf ==
  ASSUME NEW v
  PROVE  /\ v \in Octets => v # Absent /\ \E n \in Nat : Of(v, n) /\ n =< MaxLen
         /\ \A n : Of(v, n) /\ n =< MaxLen => v \in Octets
<1>1. v \in Octets => v # Absent
  BY ValueAssumption
<1>2. v \in Octets => \E n \in Nat : Of(v, n) /\ n =< MaxLen
  BY OctetsAreSequences, LenProperties DEF Of
<1>3. \A n : Of(v, n) /\ n =< MaxLen => v \in Octets
  BY OctetsAreSequences DEF Of
<1> QED BY <1>1, <1>2, <1>3

LEMMA NothingIsOctets ==
  <<>> \in Octets /\ <<>> # Absent /\ Len(<<>>) = 0 /\ Of(<<>>, 0)
<1>1. Of(<<>>, 0)
  BY EmptySeq DEF Of
<1>2. 0 =< MaxLen
  BY ValueAssumption
<1>3. <<>> \in Octets
  BY <1>1, <1>2, OctetsOf
<1> QED BY <1>1, <1>3, OctetsOf, EmptySeq

LEMMA OffsetFacts ==
  /\ 0..MaxLen \subseteq Offset /\ \A n \in Offset : n \in Int
  /\ \A n \in Nat : n =< MaxLen => n \in Offset
BY ValueAssumption DEF Offset

-----------------------------------------------------------------------------
(* One stream, or the value, changes. *)

LEMMA StreamTypes ==
  ASSUME Inv, NEW s \in Stream, stream[s].open
  PROVE  /\ stream[s] \in Placed
         /\ ReadRight(stream[s], value) /\ WroteRight(stream[s], value)
<1>1. stream[s] \in {Closed} \cup Placed
  BY DEF Inv, Types
<1>2. stream[s] # Closed
  BY DEF Closed
<1> QED BY <1>1, <1>2 DEF Inv, StreamsRight

LEMMA StreamMoves ==
  ASSUME Inv, NEW s \in Stream, NEW z \in {Closed} \cup Placed,
         z.open => ReadRight(z, value) /\ WroteRight(z, value),
         stream' = [stream EXCEPT ![s] = z], UNCHANGED <<env, value, get>>
  PROVE  Inv'
<1>1. Types'
  BY DEF Inv, Types
<1>2. StreamsRight'
  <2>1. SUFFICES ASSUME NEW r \in Stream, stream'[r].open
                 PROVE  ReadRight(stream'[r], value) /\ WroteRight(stream'[r], value)
    BY DEF StreamsRight
  <2>2. CASE r = s
    BY <2>1, <2>2 DEF Inv, Types
  <2>3. CASE r # s
    <3>1. stream'[r] = stream[r]
      BY <2>3 DEF Inv, Types
    <3> QED BY <2>1, <3>1 DEF Inv, StreamsRight
  <2> QED BY <2>2, <2>3
<1>3. SizesRight'
  BY DEF Inv, SizesRight
<1> QED BY <1>1, <1>2, <1>3 DEF Inv

\* No get() that relies on the size it asked for lets the value change.
LEMMA NobodyRelies ==
  ASSUME Inv, NotInGet, NEW others, MayWrite(others), NEW t \in Getter,
         get[t].at = "sized", env => get[t].inTrans
  PROVE  FALSE
<1>1. env \in BOOLEAN
  BY DEF Inv, Types
<1> QED BY <1>1 DEF NotInGet, MayWrite

LEMMA ValueChanges ==
  ASSUME Inv, NotInGet, NEW others, MayWrite(others), NEW v \in Octets \cup {Absent},
         stream' \in [Stream -> {Closed} \cup Placed],
         \A r \in Stream : stream'[r].open => ReadRight(stream'[r], v) /\ WroteRight(stream'[r], v),
         value' = v, UNCHANGED <<env, get>>
  PROVE  Inv'
<1>1. Types'
  BY DEF Inv, Types
<1>2. StreamsRight'
  BY DEF StreamsRight
<1>3. SizesRight'
  BY NobodyRelies DEF Inv, SizesRight
<1> QED BY <1>1, <1>2, <1>3 DEF Inv

\* A stream that is there while another one writes remembers nothing.
LEMMA DisturbedFacts ==
  ASSUME Inv, NEW r \in Stream, env => ~stream[r].open, NEW v
  PROVE  /\ Disturbed(r) \in {Closed} \cup Placed
         /\ Disturbed(r).open => ReadRight(Disturbed(r), v) /\ WroteRight(Disturbed(r), v)
<1>1. stream[r] \in {Closed} \cup Placed /\ env \in BOOLEAN
  BY DEF Inv, Types
<1>2. CASE ~stream[r].open
  <2>1. Disturbed(r) = stream[r]
    BY <1>2 DEF Disturbed
  <2> QED BY <1>1, <1>2, <2>1
<1>3. CASE stream[r].open
  <2>1. PICK o \in Placed : o = stream[r]
    BY <1>3, StreamTypes
  <2>2. PICK z : z = [o EXCEPT !.read = Absent, !.base = Absent, !.written = Absent]
    OBVIOUS
  <2>3. Disturbed(r) = z
    BY <1>1, <1>3, <2>1, <2>2 DEF Disturbed
  <2>4. z \in Placed /\ z.read = Absent /\ z.base = Absent /\ z.written = Absent
    BY <2>2 DEF Placed
  <2>5. ReadRight(z, v) /\ WroteRight(z, v)
    BY <2>4 DEF ReadRight, WroteRight
  <2> QED BY <2>3, <2>4, <2>5
<1> QED BY <1>2, <1>3

\* A stream placed at n of v, with nothing done yet.
LEMMA PlacedFacts ==
  ASSUME NEW v \in Octets, NEW n \in Nat, n =< Len(v), NEW o
  PROVE  /\ o.read = <<>> /\ o.g = n => ReadRight(o, v)
         /\ o.base = v /\ o.written = <<>> /\ o.p = n => WroteRight(o, v)
<1>1. PICK nv \in Nat : Of(v, nv) /\ v # Absent
  BY OctetsOf
<1>2. Len(v) = nv /\ v \in Seq(Bytes) /\ n =< nv
  BY <1>1 DEF Of
<1>3. SubSeq(v, n + 1, n) = <<>>
  BY SubSeqEmpty
<1>4. Len(<<>>) = 0 /\ n - 0 = n /\ 0 =< n /\ <<>> # Absent
  BY NothingIsOctets
<1>5. o.read = <<>> /\ o.g = n => ReadRight(o, v)
  <2>1. SUFFICES ASSUME o.read = <<>>, o.g = n PROVE ReadRight(o, v)
    OBVIOUS
  <2>2. o.g - Len(o.read) + 1 = n + 1
    BY <1>4, <2>1
  <2>3. o.read = SubSeq(v, o.g - Len(o.read) + 1, o.g)
    BY <1>3, <2>1, <2>2
  <2>4. Len(o.read) =< o.g /\ o.g =< Len(v)
    BY <1>4, <2>1
  <2> QED BY <1>1, <2>3, <2>4 DEF ReadRight
<1>6. o.base = v /\ o.written = <<>> /\ o.p = n => WroteRight(o, v)
  <2>1. SUFFICES ASSUME o.base = v, o.written = <<>>, o.p = n PROVE WroteRight(o, v)
    OBVIOUS
  <2>2. o.p - Len(o.written) = n /\ Len(o.written) =< o.p
    BY <1>4, <2>1
  <2>3. v = Spliced(v, n, <<>>)
    BY <1>1, <1>2, SplicedNothing
  <2> QED BY <1>1, <1>4, <2>1, <2>2, <2>3 DEF WroteRight
<1> QED BY <1>5, <1>6

-----------------------------------------------------------------------------
(* The actions. *)

LEMMA InitInv == ASSUME Init PROVE Inv
<1>1. Closed \in {Closed} \cup Placed /\ ~Closed.open
  BY DEF Closed
<1>2. NotThere \in GetState /\ NotThere.at # "sized"
  BY DEF NotThere, GetState
<1>3. Types
  BY <1>1, <1>2 DEF Init, Types
<1>4. StreamsRight
  BY <1>1 DEF Init, StreamsRight
<1>5. SizesRight
  BY <1>2 DEF Init, SizesRight
<1> QED BY <1>3, <1>4, <1>5 DEF Inv

LEMMA SetKeeps == ASSUME Inv, NEW v \in Octets \cup {Absent}, Set(v) PROVE Inv'
<1>1. PICK open : open = {s \in Stream : stream[s].open}
  OBVIOUS
<1>2. /\ NotInGet /\ MayWrite(open)
      /\ value' = v /\ stream' = [s \in Stream |-> Disturbed(s)] /\ UNCHANGED <<env, get>>
  BY <1>1 DEF Set
<1>3. \A s \in Stream : env => ~stream[s].open
  BY <1>1, <1>2 DEF MayWrite
<1>4. \A s \in Stream :
        /\ stream'[s] \in {Closed} \cup Placed
        /\ stream'[s].open => ReadRight(stream'[s], v) /\ WroteRight(stream'[s], v)
  BY <1>2, <1>3, DisturbedFacts
<1>5. stream' \in [Stream -> {Closed} \cup Placed]
  BY <1>2, <1>4
<1> QED BY <1>2, <1>4, <1>5, ValueChanges

\* A thread goes on in get().
LEMMA GetMoves ==
  ASSUME Inv, NEW t \in Getter, NEW z \in GetState, get' = [get EXCEPT ![t] = z],
         z.at = "sized" => z.data \in Octets /\ value # Absent /\ Len(z.data) = Len(value),
         UNCHANGED <<env, value, stream>>
  PROVE  Inv'
<1>1. Types'
  BY DEF Inv, Types
<1>2. StreamsRight'
  BY DEF Inv, StreamsRight
<1>3. SizesRight'
  <2>1. SUFFICES ASSUME NEW u \in Getter, get'[u].at = "sized"
                 PROVE  /\ get'[u].data \in Octets
                        /\ (env => get'[u].inTrans) =>
                              value # Absent /\ Len(get'[u].data) = Len(value)
    BY DEF SizesRight
  <2>2. CASE u = t
    BY <2>1, <2>2 DEF Inv, Types
  <2>3. CASE u # t
    <3>1. get'[u] = get[u]
      BY <2>3 DEF Inv, Types
    <3> QED BY <2>1, <3>1 DEF Inv, SizesRight
  <2> QED BY <2>2, <2>3
<1> QED BY <1>1, <1>2, <1>3 DEF Inv

\* What resize() makes of the caller's string.
LEMMA ResizedFacts ==
  ASSUME NEW d \in Octets, NEW n \in Nat, n =< MaxLen
  PROVE  Resized(d, n) \in Octets /\ Len(Resized(d, n)) = n
<1>1. PICK nd \in Nat : Of(d, nd)
  BY OctetsOf
<1>2. Len(d) = nd
  BY <1>1 DEF Of
<1>3. PICK k \in Nat : k = IF n < nd THEN n ELSE nd
  OBVIOUS
<1>4. k =< nd /\ k =< n /\ (n >= nd => k = nd) /\ (n < nd => k = n)
  BY <1>3
<1>5. PICK head : head = SubSeq(d, 1, k)
  OBVIOUS
<1>6. Of(head, k)
  BY <1>1, <1>4, <1>5, HeadFacts
<1>7. PICK z \in Int : z = n - nd
  OBVIOUS
<1>8. PICK w : w = Zeros(z)
  OBVIOUS
<1>9. w \in Seq(Bytes) /\ Len(w) = IF z > 0 THEN z ELSE 0
  BY <1>8, ZerosFacts
<1>10. Of(w, n - k)
  <2>1. CASE z > 0
    BY <1>4, <1>7, <1>9, <2>1 DEF Of
  <2>2. CASE ~(z > 0)
    BY <1>4, <1>7, <1>9, <2>2 DEF Of
  <2> QED BY <2>1, <2>2
<1>11. PICK x : x = head \o w
  OBVIOUS
<1>12. Of(x, n)
  <2>1. Of(x, k + (n - k))
    BY <1>6, <1>10, <1>11, ConcatFacts DEF IsJoined
  <2>2. k + (n - k) = n
    OBVIOUS
  <2> QED BY <2>1, <2>2
<1>13. Resized(d, n) = x
  BY <1>2, <1>3, <1>5, <1>7, <1>8, <1>11 DEF Resized
<1> QED BY <1>12, <1>13, OctetsOf DEF Of

LEMMA GetSizeKeeps ==
  ASSUME Inv, NEW t \in Getter, NEW inTrans \in BOOLEAN, NEW d \in Octets,
         GetSize(t, inTrans, d)
  PROVE  Inv'
<1>1. UNCHANGED <<env, value, stream>>
  BY DEF GetSize
<1>2. CASE value = Absent
  <2>1. PICK z : z = [at |-> "done", inTrans |-> inTrans, data |-> Default]
    OBVIOUS
  <2>2. get' = [get EXCEPT ![t] = z]
    BY <1>2, <2>1 DEF GetSize
  <2>3. z \in GetState /\ z.at = "done"
    BY <2>1 DEF GetState
  <2> QED BY <1>1, <2>2, <2>3, GetMoves
<1>3. CASE value # Absent
  <2>1. PICK n \in Nat : n = Len(value) /\ n =< MaxLen
    <3>1. value \in Octets
      BY <1>3 DEF Inv, Types
    <3> QED BY <3>1, OctetsOf DEF Of
  <2>2. PICK x : x = Resized(d, n)
    OBVIOUS
  <2>3. x \in Octets /\ Len(x) = n
    BY <2>1, <2>2, ResizedFacts
  <2>4. PICK z : z = [at |-> "sized", inTrans |-> inTrans, data |-> x]
    OBVIOUS
  <2>5. get' = [get EXCEPT ![t] = z]
    BY <1>3, <2>1, <2>2, <2>4 DEF GetSize
  <2>6. z \in GetState /\ z.data = x
    BY <2>3, <2>4 DEF GetState
  <2> QED BY <1>1, <1>3, <2>1, <2>3, <2>5, <2>6, GetMoves
<1> QED BY <1>2, <1>3

\* A value copied over the front of a string that is no shorter.
LEMMA CopiedFacts ==
  ASSUME NEW v \in Octets, NEW d \in Octets, Len(v) =< Len(d)
  PROVE  Copied(v, d) \in Octets /\ (Len(v) = Len(d) => Copied(v, d) = v)
<1>1. PICK nv \in Nat : Of(v, nv)
  BY OctetsOf
<1>2. PICK nd \in Nat : Of(d, nd) /\ nd =< MaxLen
  BY OctetsOf
<1>3. Len(v) = nv /\ Len(d) = nd /\ nv =< nd /\ v \in Seq(Bytes)
  BY <1>1, <1>2 DEF Of
<1>4. PICK w : w = SubSeq(d, nv + 1, nd)
  OBVIOUS
<1>5. PICK l : Of(w, l) /\ l = nd - nv
  <2>1. \E l : IsTail(SubSeq(d, nv + 1, nd), l, d, nd, nv)
    BY <1>2, TailFacts
  <2> QED BY <1>3, <1>4, <2>1 DEF IsTail
<1>6. PICK x : x = v \o w
  OBVIOUS
<1>7. Of(x, nd)
  <2>1. Of(x, nv + l)
    BY <1>1, <1>5, <1>6, ConcatFacts DEF IsJoined
  <2>2. nv + l = nd
    BY <1>5
  <2> QED BY <2>1, <2>2
<1>8. Copied(v, d) = x
  BY <1>3, <1>4, <1>6 DEF Copied
<1>9. nv = nd => x = v
  <2>1. nv = nd => w = <<>>
    BY <1>4, SubSeqEmpty
  <2> QED BY <1>3, <1>6, <2>1, ConcatEmptySeq
<1> QED BY <1>2, <1>3, <1>7, <1>8, <1>9, OctetsOf

\* What the second call of get() ends with.
Threw(d, r) == r = Default /\ (value = Absent \/ Len(value) > Len(d))
Filled(d, r) ==
    /\ value # Absent /\ Len(value) =< Len(d) /\ r = Copied(value, d)
    /\ Len(value) = Len(d) => r = value

LEMMA GetBytesFacts ==
  ASSUME Inv, NEW t \in Getter, GetBytes(t)
  PROVE  \E r \in Octets \cup {Default} :
           /\ get' = [get EXCEPT ![t] = [get[t] EXCEPT !.at = "done", !.data = r]]
           /\ Threw(get[t].data, r) \/ Filled(get[t].data, r)
<1>1. PICK d \in Octets : d = get[t].data
  BY DEF GetBytes, Inv, SizesRight
<1>2. PICK n \in Nat : n = Len(d)
  BY OctetsOf DEF Of
<1>3. get' = [get EXCEPT ![t] = [get[t] EXCEPT !.at = "done", !.data =
          IF value = Absent \/ Len(value) > Len(d) THEN Default ELSE Copied(value, d)]]
  BY <1>1 DEF GetBytes
<1>4. CASE value = Absent \/ Len(value) > Len(d)
  <2>1. get' = [get EXCEPT ![t] = [get[t] EXCEPT !.at = "done", !.data = Default]]
    BY <1>3, <1>4
  <2> QED BY <1>1, <1>4, <2>1 DEF Threw
<1>5. CASE ~(value = Absent \/ Len(value) > Len(d))
  <2>1. value \in Octets
    BY <1>5 DEF Inv, Types
  <2>2. Len(value) \in Nat
    BY <2>1, OctetsOf DEF Of
  <2>3. Len(value) =< Len(d)
    BY <1>2, <1>5, <2>2
  <2>4. PICK r : r = Copied(value, d)
    OBVIOUS
  <2>5. r \in Octets /\ (Len(value) = Len(d) => r = value)
    BY <2>1, <2>3, <2>4, CopiedFacts
  <2>6. get' = [get EXCEPT ![t] = [get[t] EXCEPT !.at = "done", !.data = r]]
    BY <1>3, <1>5, <2>4
  <2>7. Filled(get[t].data, r)
    BY <1>1, <1>5, <2>3, <2>4, <2>5 DEF Filled
  <2> QED BY <2>5, <2>6, <2>7
<1> QED BY <1>4, <1>5

LEMMA GetBytesKeeps == ASSUME Inv, NEW t \in Getter, GetBytes(t) PROVE Inv'
<1>1. PICK r \in Octets \cup {Default} :
          get' = [get EXCEPT ![t] = [get[t] EXCEPT !.at = "done", !.data = r]]
  BY GetBytesFacts
<1>2. PICK g \in GetState : g = get[t]
  BY DEF Inv, Types
<1>3. PICK z : z = [g EXCEPT !.at = "done", !.data = r]
  OBVIOUS
<1>4. z \in GetState /\ z.at = "done"
  BY <1>3 DEF GetState
<1>5. get' = [get EXCEPT ![t] = z] /\ UNCHANGED <<env, value, stream>>
  BY <1>1, <1>2, <1>3 DEF GetBytes
<1> QED BY <1>4, <1>5, GetMoves

LEMMA GetDoneKeeps == ASSUME Inv, NEW t \in Getter, GetDone(t) PROVE Inv'
<1>1. NotThere \in GetState /\ NotThere.at # "sized"
  BY DEF NotThere, GetState
<1> QED BY <1>1, GetMoves DEF GetDone

LEMMA OpenStreamKeeps ==
  ASSUME Inv, NEW s \in Stream, NEW m \in SUBSET {"trunc", "ate"}, OpenStream(s, m) PROVE Inv'
<1>1. PICK v : v = IF "trunc" \in m THEN <<>> ELSE value
  OBVIOUS
<1>2. v \in Octets
  BY <1>1, NothingIsOctets DEF OpenStream, Inv, Types
<1>3. PICK nv \in Nat : nv = Len(v) /\ nv =< MaxLen
  BY <1>2, OctetsOf DEF Of
<1>4. PICK at : at = IF "ate" \in m THEN nv ELSE 0
  OBVIOUS
<1>5. at \in Nat /\ at =< nv
  BY <1>4
<1>6. PICK locks \in {"read", "write"} : locks = IF "trunc" \in m THEN "write" ELSE "read"
  OBVIOUS
<1>7. PICK z : z = Opened(at, at, v, locks)
  OBVIOUS
<1>8. z \in Placed /\ z.read = <<>> /\ z.g = at /\ z.base = v /\ z.written = <<>> /\ z.p = at
  <2>1. at \in Offset
    <3>1. at =< MaxLen
      BY <1>3, <1>5, ValueAssumption
    <3> QED BY <1>5, <3>1, OffsetFacts
  <2> QED BY <1>2, <1>7, <2>1, NothingIsOctets DEF Opened, Placed
<1>9. ReadRight(z, v) /\ WroteRight(z, v)
  BY <1>2, <1>3, <1>5, <1>8, PlacedFacts
<1>10. /\ NotInGet /\ ("trunc" \in m => MayWrite(Others(s)))
       /\ value' = v
       /\ stream' = [r \in Stream |->
              IF r = s THEN z ELSE IF "trunc" \in m THEN Disturbed(r) ELSE stream[r]]
       /\ UNCHANGED <<env, get>>
  BY <1>1, <1>3, <1>4, <1>6, <1>7 DEF OpenStream
<1>11. CASE "trunc" \in m
  <2>1. \A r \in Stream \ {s} : env => ~stream[r].open
    BY <1>10, <1>11 DEF MayWrite, Others
  <2>2. \A r \in Stream : stream'[r] = IF r = s THEN z ELSE Disturbed(r)
    BY <1>10, <1>11
  <2>3. ASSUME NEW r \in Stream
        PROVE  /\ stream'[r] \in {Closed} \cup Placed
               /\ stream'[r].open => ReadRight(stream'[r], v) /\ WroteRight(stream'[r], v)
    <3>1. CASE r = s
      BY <1>8, <1>9, <2>2, <3>1
    <3>2. CASE r # s
      <4>1. env => ~stream[r].open
        BY <2>1, <3>2
      <4>2. stream'[r] = Disturbed(r)
        BY <2>2, <3>2
      <4> QED BY <4>1, <4>2, DisturbedFacts
    <3> QED BY <3>1, <3>2
  <2>4. stream' \in [Stream -> {Closed} \cup Placed]
    BY <1>10, <2>3
  <2> QED BY <1>2, <1>10, <1>11, <2>3, <2>4, ValueChanges
<1>12. CASE "trunc" \notin m
  <2>1. stream' = [stream EXCEPT ![s] = z] /\ v = value
    BY <1>1, <1>10, <1>12 DEF Inv, Types
  <2> QED BY <1>8, <1>9, <1>10, <2>1, StreamMoves
<1> QED BY <1>11, <1>12

LEMMA CloseStreamKeeps == ASSUME Inv, NEW s \in Stream, CloseStream(s) PROVE Inv'
<1>1. ~Closed.open
  BY DEF Closed
<1> QED BY <1>1, StreamMoves DEF CloseStream

\* The next piece of the value, from the offset g to last.
LEMMA ReadPiece ==
  ASSUME NEW v \in Octets, NEW nv \in Nat, Of(v, nv), NEW g \in Nat, NEW last \in Nat,
         g =< last, last =< nv
  PROVE  /\ Of(SubSeq(v, g + 1, last), last - g)
         /\ \A r \in Octets : Len(r) =< g /\ r = SubSeq(v, g - Len(r) + 1, g) =>
              LET d == r \o SubSeq(v, g + 1, last)
              IN  d \in Octets /\ Len(d) =< last /\ d = SubSeq(v, last - Len(d) + 1, last)
<1>1. v \in Seq(Bytes) /\ Len(v) = nv
  BY DEF Of
<1>2. PICK c : c = SubSeq(v, g + 1, last)
  OBVIOUS
<1>3. PICK m \in Nat \ {0} : m = g + 1
  OBVIOUS
<1>4. c \in Seq(Bytes) /\ Len(c) = IF m =< last THEN last - m + 1 ELSE 0
  BY <1>1, <1>2, <1>3, PieceFacts
<1>5. PICK mc \in Nat : mc = last - g
  OBVIOUS
<1>6. Of(c, mc)
  <2>1. CASE m =< last
    BY <1>3, <1>4, <1>5, <2>1 DEF Of
  <2>2. CASE ~(m =< last)
    BY <1>3, <1>4, <1>5, <2>2 DEF Of
  <2> QED BY <2>1, <2>2
<1>7. ASSUME NEW r \in Octets, Len(r) =< g, r = SubSeq(v, g - Len(r) + 1, g)
      PROVE  LET d == r \o c
             IN  d \in Octets /\ Len(d) =< last /\ d = SubSeq(v, last - Len(d) + 1, last)
  <2>1. PICK k \in Nat : Of(r, k)
    BY OctetsOf
  <2>2. Len(r) = k /\ k =< g
    BY <1>7, <2>1 DEF Of
  <2>3. PICK from \in Nat \ {0} : from = g - k + 1
    BY <2>2
  <2>4. r = SubSeq(v, from, g)
    BY <1>7, <2>2, <2>3
  <2>5. PICK d : d = r \o c
    OBVIOUS
  <2>6. d = SubSeq(v, from, last)
    <3>1. from =< g + 1 /\ g =< last /\ last =< Len(v)
      BY <1>1, <2>3
    <3> QED BY <1>1, <1>2, <2>4, <2>5, <3>1, PiecesJoin
  <2>7. Of(d, k + mc)
    BY <1>6, <2>1, <2>5, ConcatFacts DEF IsJoined
  <2>8. k + mc =< last /\ last - (k + mc) + 1 = from /\ k + mc =< MaxLen
    <3>1. nv =< MaxLen
      BY <1>1, OctetsOf DEF Of
    <3> QED BY <1>5, <2>2, <2>3, <3>1, ValueAssumption
  <2>9. d \in Octets /\ Len(d) = k + mc
    BY <2>7, <2>8, OctetsOf DEF Of
  <2> QED BY <2>5, <2>6, <2>8, <2>9
<1> QED BY <1>2, <1>5, <1>6, <1>7

LEMMA ReadKeeps == ASSUME Inv, NEW s \in Stream, NEW n \in 1..MaxChunk, Read(s, n) PROVE Inv'
<1>1. stream[s].open /\ value # Absent /\ UNCHANGED <<env, value, get>>
  BY DEF Read
<1>2. PICK o \in Placed : o = stream[s]
  BY <1>1, StreamTypes
<1>3. ReadRight(o, value)
  BY <1>1, <1>2, StreamTypes
<1>4. value \in Octets
  BY <1>1 DEF Inv, Types
<1>5. PICK nv \in Nat : Of(value, nv) /\ nv =< MaxLen
  BY <1>4, OctetsOf
<1>6. Len(value) = nv
  BY <1>5 DEF Of
<1>7. PICK g \in Int : g = o.g /\ g \in Offset
  BY OffsetFacts DEF Placed
<1>8. PICK last : last = IF nv < g + n THEN nv ELSE g + n
  OBVIOUS
<1>9. n \in Nat /\ n > 0
  BY ValueAssumption
<1>10. g \in 0..nv => g \in Nat /\ last \in Nat /\ last =< nv /\ g =< last
  <2>1. CASE nv < g + n
    BY <1>8, <1>9, <2>1
  <2>2. CASE ~(nv < g + n)
    BY <1>8, <1>9, <2>2
  <2> QED BY <2>1, <2>2
<1>11. PICK c : c = IF g \in 0..nv THEN SubSeq(value, g + 1, last) ELSE <<>>
  OBVIOUS
<1>12. PICK d : d = IF o.read = Absent THEN Absent ELSE o.read \o c
  OBVIOUS
<1>13. PICK to : to = g + Len(c)
  OBVIOUS
<1>14. PICK z : z = [o EXCEPT !.g = to, !.read = d, !.base = Absent, !.written = Absent]
  OBVIOUS
<1>15. stream' = [stream EXCEPT ![s] = z]
  <2>1. c = Got(value, o.g, n)
    BY <1>6, <1>7, <1>8, <1>11 DEF Got
  <2>2. PICK at : at = o.g
    OBVIOUS
  <2>3. stream' = [stream EXCEPT ![s] =
            [o EXCEPT !.g = at + Len(c), !.read = IF @ = Absent THEN Absent ELSE @ \o c,
                      !.base = Absent, !.written = Absent]]
    BY <1>2, <2>1, <2>2 DEF Read
  <2>4. at + Len(c) = to
    BY <1>7, <1>13, <2>2
  <2> QED BY <1>12, <1>14, <2>3, <2>4
<1>16. /\ to \in Offset /\ d \in Octets \cup {Absent}
       /\ d # Absent => Len(d) =< to /\ to =< nv /\ d = SubSeq(value, to - Len(d) + 1, to)
  <2>1. CASE g \in 0..nv
    <3>1. g \in Nat /\ last \in Nat /\ last =< nv /\ g =< last /\ c = SubSeq(value, g + 1, last)
      BY <1>10, <1>11, <2>1
    <3>2. Of(c, last - g)
      BY <1>4, <1>5, <3>1, ReadPiece
    <3>3. to = last
      BY <1>13, <3>1, <3>2 DEF Of
    <3>4. to \in Offset
      BY <1>5, <3>1, <3>3, OffsetFacts, ValueAssumption
    <3>5. CASE o.read = Absent
      BY <1>12, <3>4, <3>5
    <3>6. CASE o.read # Absent
      <4>1. PICK r \in Octets : r = o.read
        BY <3>6 DEF Placed
      <4>2. Len(r) =< g /\ r = SubSeq(value, g - Len(r) + 1, g)
        BY <1>3, <1>7, <3>6, <4>1 DEF ReadRight
      <4>3. d = r \o c
        BY <1>12, <3>6, <4>1
      <4>4. d \in Octets /\ Len(d) =< last /\ d = SubSeq(value, last - Len(d) + 1, last)
        BY <1>4, <1>5, <3>1, <4>2, <4>3, ReadPiece, ZenonT(60)
      <4> QED BY <3>1, <3>3, <3>4, <4>4
    <3> QED BY <3>5, <3>6
  <2>2. CASE g \notin 0..nv
    <3>1. o.read = Absent
      <4>1. SUFFICES ASSUME o.read # Absent PROVE FALSE
        OBVIOUS
      <4>2. PICK k \in Nat : k = Len(o.read)
        BY <4>1, OctetsOf DEF Placed, Of
      <4>3. k =< g /\ g =< nv
        BY <1>3, <1>6, <1>7, <4>1, <4>2 DEF ReadRight
      <4> QED BY <2>2, <4>3
    <3>2. c = <<>>
      BY <1>11, <2>2
    <3>3. to = g
      BY <1>13, <3>2, NothingIsOctets
    <3> QED BY <1>7, <1>12, <3>1, <3>3
  <2> QED BY <2>1, <2>2
<1>17. z \in Placed /\ z.g = to /\ z.read = d /\ z.base = Absent /\ z.written = Absent
  BY <1>14, <1>16 DEF Placed
<1>18. ReadRight(z, value) /\ WroteRight(z, value)
  BY <1>1, <1>6, <1>16, <1>17 DEF ReadRight, WroteRight
<1> QED BY <1>1, <1>15, <1>17, <1>18, StreamMoves

LEMMA WriteKeeps == ASSUME Inv, NEW s \in Stream, NEW c \in Chunk, Write(s, c) PROVE Inv'
<1>1. /\ stream[s].open /\ value # Absent /\ NotInGet /\ MayWrite(Others(s))
      /\ stream[s].p >= 0 /\ stream[s].p + Len(c) =< MaxLen /\ UNCHANGED <<env, get>>
  BY DEF Write
<1>2. PICK o \in Placed : o = stream[s]
  BY <1>1, StreamTypes
<1>3. WroteRight(o, value)
  BY <1>1, <1>2, StreamTypes
<1>4. PICK nv \in Nat : Of(value, nv) /\ nv =< MaxLen
  BY <1>1, OctetsOf DEF Inv, Types
<1>5. PICK mc \in Nat : Of(c, mc)
  BY ChunkFacts DEF Of
<1>6. Len(value) = nv /\ Len(c) = mc
  BY <1>4, <1>5 DEF Of
<1>7. PICK p \in Nat : p = o.p /\ p + mc =< MaxLen
  <2>1. o.p \in Nat
    <3>1. o.p \in Int
      BY OffsetFacts DEF Placed
    <3>2. o.p >= 0
      BY <1>1, <1>2
    <3> QED BY <3>1, <3>2
  <2>2. o.p + mc =< MaxLen
    BY <1>1, <1>2, <1>6
  <2> QED BY <2>1, <2>2
<1>8. PICK v : v = Built(value, p, c)
  OBVIOUS
<1>9. v \in Octets
  <2>1. Of(v, nv) \/ Of(v, p + mc)
    BY <1>4, <1>5, <1>8, BuiltFacts
  <2> QED BY <1>4, <1>7, <2>1, OctetsOf
<1>10. PICK w : w = IF o.written = Absent THEN Absent ELSE o.written \o c
  OBVIOUS
<1>11. PICK to \in 0..MaxLen : to = p + mc
  BY <1>7, ValueAssumption
<1>12. w # Absent => w \in Octets /\ Len(w) =< to /\ to - Len(w) = p - Len(o.written)
  <2>1. SUFFICES ASSUME w # Absent
                 PROVE  w \in Octets /\ Len(w) =< to /\ to - Len(w) = p - Len(o.written)
    OBVIOUS
  <2>2. o.written # Absent /\ w = o.written \o c
    BY <1>10, <2>1
  <2>3. PICK k \in Nat : Of(o.written, k)
    BY <2>2, OctetsOf DEF Placed
  <2>4. Len(o.written) = k /\ k =< p
    BY <1>3, <1>7, <2>2, <2>3 DEF WroteRight, Of
  <2>5. Of(w, k + mc)
    BY <1>5, <2>2, <2>3, ConcatFacts DEF IsJoined
  <2>6. Len(w) = k + mc /\ k + mc =< to /\ to =< MaxLen /\ to - (k + mc) = p - k
    BY <1>11, <2>4, <2>5, ValueAssumption DEF Of
  <2>7. k + mc =< MaxLen
    BY <1>7, <2>4, ValueAssumption
  <2>8. w \in Octets
    BY <2>5, <2>7, OctetsOf
  <2> QED BY <2>4, <2>6, <2>8
<1>13. PICK z : z = [o EXCEPT !.p = to, !.locks = "write", !.read = Absent, !.written = w]
  OBVIOUS
<1>14. z \in Placed /\ z.p = to /\ z.read = Absent /\ z.base = o.base /\ z.written = w
  <2>1. to \in Offset
    BY OffsetFacts
  <2> QED BY <1>12, <1>13, <2>1 DEF Placed
<1>15. ReadRight(z, v)
  BY <1>14 DEF ReadRight
<1>16. WroteRight(z, v)
  <2>1. w # Absent => Len(w) =< to
    BY <1>12
  <2>2. ASSUME o.base # Absent
        PROVE  /\ w # Absent /\ to - Len(w) =< Len(o.base)
               /\ v # Absent /\ v = Spliced(o.base, to - Len(w), w)
    <3>1. /\ o.written # Absent /\ p - Len(o.written) =< Len(o.base)
          /\ value = Spliced(o.base, p - Len(o.written), o.written)
      BY <1>3, <1>7, <2>2 DEF WroteRight
    <3>2. PICK b \in Octets : b = o.base
      BY <2>2 DEF Placed
    <3>3. PICK nb \in Nat : Of(b, nb)
      BY OctetsOf
    <3>4. PICK u \in Octets : u = o.written
      BY <3>1 DEF Placed
    <3>5. PICK k \in Nat : Of(u, k)
      BY OctetsOf
    <3>6. Len(u) = k /\ Len(b) = nb /\ k =< p
      BY <1>3, <1>7, <3>1, <3>3, <3>4, <3>5 DEF Of, WroteRight
    <3>7. PICK n \in Nat : n = p - k
      BY <3>6
    <3>8. n =< nb /\ value = Spliced(b, n, u) /\ n + k = p
      BY <3>1, <3>2, <3>4, <3>6, <3>7
    <3>9. p =< nv
      <4>1. PICK l : IsSpliced(value, l, b, nb, n, u, n + k)
        BY <3>3, <3>5, <3>8, SplicedFacts
      <4>2. Of(value, l) /\ l >= p
        BY <3>8, <4>1 DEF IsSpliced
      <4> QED BY <1>4, <4>2 DEF Of
    <3>10. v = Spliced(value, p, c)
      BY <1>4, <1>5, <1>8, <3>9, BuiltFacts
    <3>11. w = u \o c
      BY <1>10, <3>1, <3>4
    <3>12. Spliced(Spliced(b, n, u), n + k, c) = Spliced(b, n, u \o c)
      BY <1>5, <3>3, <3>5, <3>8, SplicedTwice
    <3>13. v = Spliced(b, n, w)
      BY <3>8, <3>10, <3>11, <3>12
    <3>14. u \o c # Absent
      <4>1. Of(u \o c, k + mc)
        BY <1>5, <3>5, ConcatFacts DEF IsJoined
      <4>2. k + mc =< MaxLen
        BY <1>7, <3>6, ValueAssumption
      <4> QED BY <4>1, <4>2, OctetsOf
    <3>15. w # Absent /\ to - Len(w) = n
      BY <1>12, <3>4, <3>6, <3>7, <3>11, <3>14
    <3>16. v # Absent
      BY <1>9, OctetsOf
    <3> QED BY <3>2, <3>6, <3>8, <3>13, <3>15, <3>16
  <2> QED BY <1>14, <2>1, <2>2 DEF WroteRight
<1>17. /\ value' = v
       /\ stream' = [r \in Stream |-> IF r # s THEN Disturbed(r) ELSE z]
  BY <1>2, <1>6, <1>7, <1>8, <1>10, <1>11, <1>13 DEF Write
<1>18. ASSUME NEW r \in Stream
       PROVE  /\ stream'[r] \in {Closed} \cup Placed
              /\ stream'[r].open => ReadRight(stream'[r], v) /\ WroteRight(stream'[r], v)
  <2>1. CASE r = s
    BY <1>14, <1>15, <1>16, <1>17, <2>1
  <2>2. CASE r # s
    <3>1. env => ~stream[r].open
      BY <1>1, <2>2 DEF MayWrite, Others
    <3>2. stream'[r] = Disturbed(r)
      BY <1>17, <2>2
    <3> QED BY <3>1, <3>2, DisturbedFacts
  <2> QED BY <2>1, <2>2
<1>19. stream' \in [Stream -> {Closed} \cup Placed]
  BY <1>17, <1>18
<1> QED BY <1>1, <1>9, <1>17, <1>18, <1>19, ValueChanges

\* A seek never leaves the value.
LEMMA SoughtFacts ==
  ASSUME NEW was \in Int, NEW dir \in {"beg", "cur", "end"}, NEW off \in Step,
         NEW n \in Nat, n = Len(value)
  PROVE  Sought(was, dir, off) \in Nat /\ Sought(was, dir, off) =< n
<1>1. PICK base : base = CASE dir = "beg" -> 0 [] dir = "cur" -> was [] dir = "end" -> Len(value)
  OBVIOUS
<1>2. base = 0 \/ base = was \/ base = Len(value)
  <2>1. CASE dir = "beg"
    BY <1>1, <2>1
  <2>2. CASE dir = "cur"
    BY <1>1, <2>2
  <2>3. CASE dir = "end"
    BY <1>1, <2>3
  <2> QED BY <2>1, <2>2, <2>3
<1>3. PICK p \in Int : p = off + base
  BY <1>2 DEF Step
<1>4. Sought(was, dir, off) = Clamp(p)
  BY <1>1, <1>3 DEF Sought, Asked
<1>5. CASE p < 0
  BY <1>4, <1>5 DEF Clamp
<1>6. CASE ~(p < 0) /\ p > n
  BY <1>4, <1>6 DEF Clamp
<1>7. CASE ~(p < 0) /\ ~(p > n)
  BY <1>4, <1>7 DEF Clamp
<1> QED BY <1>5, <1>6, <1>7

LEMMA SeekKeeps ==
  ASSUME Inv, NEW s \in Stream, NEW m \in (SUBSET {"in", "out"}) \ {{}},
         NEW dir \in {"beg", "cur", "end"}, NEW off \in Step, Seek(s, m, dir, off)
  PROVE  Inv'
<1>1. stream[s].open /\ value # Absent /\ UNCHANGED <<env, value, get>>
  BY DEF Seek
<1>2. PICK o \in Placed : o = stream[s]
  BY <1>1, StreamTypes
<1>3. ReadRight(o, value) /\ WroteRight(o, value)
  BY <1>1, <1>2, StreamTypes
<1>4. value \in Octets
  BY <1>1 DEF Inv, Types
<1>5. PICK n \in Nat : n = Len(value) /\ n =< MaxLen
  BY <1>4, OctetsOf DEF Of
<1>6. o.g \in Int /\ o.p \in Int
  BY OffsetFacts DEF Placed
<1>7. PICK g : g = Sought(o.g, dir, off)
  OBVIOUS
<1>8. PICK p : p = Sought(o.p, dir, off)
  OBVIOUS
<1>9. g \in Nat /\ g =< n /\ p \in Nat /\ p =< n
  BY <1>5, <1>6, <1>7, <1>8, SoughtFacts
<1>10. g \in Offset /\ p \in Offset
  <2>1. g =< MaxLen /\ p =< MaxLen
    BY <1>5, <1>9, ValueAssumption
  <2> QED BY <1>9, <2>1, OffsetFacts
<1>11. PICK in : in = IF "in" \in m
                      THEN [o EXCEPT !.g = g, !.read = <<>>, !.base = Absent, !.written = Absent]
                      ELSE o
  OBVIOUS
<1>12. in \in Placed /\ in.p = o.p /\ ReadRight(in, value) /\ WroteRight(in, value)
  <2>1. CASE "in" \in m
    <3>1. in = [o EXCEPT !.g = g, !.read = <<>>, !.base = Absent, !.written = Absent]
      BY <1>11, <2>1
    <3>2. /\ in \in Placed /\ in.p = o.p /\ in.g = g /\ in.read = <<>>
          /\ in.base = Absent /\ in.written = Absent
      BY <1>10, <3>1, NothingIsOctets DEF Placed
    <3>3. ReadRight(in, value)
      BY <1>4, <1>5, <1>9, <3>2, PlacedFacts
    <3>4. WroteRight(in, value)
      BY <3>2 DEF WroteRight
    <3> QED BY <3>2, <3>3, <3>4
  <2>2. CASE "in" \notin m
    BY <1>3, <1>11, <2>2
  <2> QED BY <2>1, <2>2
<1>13. PICK z : z = IF "out" \in m
                    THEN [in EXCEPT !.p = p, !.read = Absent, !.base = value, !.written = <<>>]
                    ELSE in
  OBVIOUS
<1>14. z \in Placed /\ ReadRight(z, value) /\ WroteRight(z, value)
  <2>1. CASE "out" \in m
    <3>1. z = [in EXCEPT !.p = p, !.read = Absent, !.base = value, !.written = <<>>]
      BY <1>13, <2>1
    <3>2. /\ z \in Placed /\ z.p = p /\ z.read = Absent
          /\ z.base = value /\ z.written = <<>>
      BY <1>4, <1>10, <1>12, <3>1, NothingIsOctets DEF Placed
    <3>3. ReadRight(z, value)
      BY <3>2 DEF ReadRight
    <3>4. WroteRight(z, value)
      BY <1>4, <1>5, <1>9, <3>2, PlacedFacts
    <3> QED BY <3>2, <3>3, <3>4
  <2>2. CASE "out" \notin m
    BY <1>12, <1>13, <2>2
  <2> QED BY <2>1, <2>2
<1>15. stream' = [stream EXCEPT ![s] = z]
  <2>1. stream' = [stream EXCEPT ![s] =
            IF "out" \in m
            THEN [in EXCEPT !.p = Sought(in.p, dir, off), !.read = Absent,
                            !.base = value, !.written = <<>>]
            ELSE in]
    BY <1>2, <1>7, <1>11 DEF Seek
  <2>2. Sought(in.p, dir, off) = p
    BY <1>8, <1>12
  <2> QED BY <1>13, <2>1, <2>2
<1> QED BY <1>1, <1>14, <1>15, StreamMoves

LEMMA SeekThrowsKeeps ==
  ASSUME Inv, NEW s \in Stream, NEW m \in (SUBSET {"in", "out"}) \ {{}},
         NEW dir \in {"beg", "cur", "end"}, NEW off \in Step, SeekThrows(s, m, dir, off)
  PROVE  Inv'
<1>1. stream[s].open /\ UNCHANGED <<env, value, get>>
  BY DEF SeekThrows
<1>2. PICK o \in Placed : o = stream[s]
  BY <1>1, StreamTypes
<1>3. PICK q : q = [o EXCEPT !.read = Absent, !.base = Absent, !.written = Absent]
  OBVIOUS
<1>4. q \in Placed /\ q.read = Absent /\ q.base = Absent /\ q.written = Absent
  BY <1>3 DEF Placed
<1>5. PICK z : z = IF "in" \in m THEN [q EXCEPT !.g = Asked(q.g, dir, off)]
                                  ELSE [q EXCEPT !.p = Asked(q.p, dir, off)]
  OBVIOUS
<1>6. {z.g, z.p} \subseteq Offset /\ stream' = [stream EXCEPT ![s] = z]
  BY <1>2, <1>3, <1>5 DEF SeekThrows
<1>7. z \in Placed /\ z.read = Absent /\ z.base = Absent /\ z.written = Absent
  <2>1. CASE "in" \in m
    <3>1. z = [q EXCEPT !.g = Asked(q.g, dir, off)]
      BY <1>5, <2>1
    <3> QED BY <1>4, <1>6, <3>1 DEF Placed
  <2>2. CASE "in" \notin m
    <3>1. z = [q EXCEPT !.p = Asked(q.p, dir, off)]
      BY <1>5, <2>2
    <3> QED BY <1>4, <1>6, <3>1 DEF Placed
  <2> QED BY <2>1, <2>2
<1>8. ReadRight(z, value) /\ WroteRight(z, value)
  BY <1>7 DEF ReadRight, WroteRight
<1> QED BY <1>1, <1>6, <1>7, <1>8, StreamMoves

-----------------------------------------------------------------------------
(* The theorems. *)

LEMMA NextInv == ASSUME Inv, [Next]_vars PROVE Inv'
<1>1. CASE UNCHANGED vars
  <2>1. UNCHANGED <<env, value, stream, get>>
    BY <1>1 DEF vars
  <2> QED BY <2>1 DEF Inv, Types, StreamsRight, SizesRight
<1>2. ASSUME NEW v \in SeqOf(Byte, MaxLen), Set(v) PROVE Inv'
  <2>1. v \in Octets
    BY ChunkFacts, OctetsOf DEF Of
  <2> QED BY <1>2, <2>1, SetKeeps
<1>3. CASE Erase
  BY <1>3, SetKeeps DEF Erase
<1>4. ASSUME NEW t \in Getter, NEW inTrans \in BOOLEAN, NEW d \in Octets, GetSize(t, inTrans, d)
       PROVE  Inv'
  BY <1>4, GetSizeKeeps
<1>5. ASSUME NEW t \in Getter, GetBytes(t) PROVE Inv'
  BY <1>5, GetBytesKeeps
<1>6. ASSUME NEW t \in Getter, GetDone(t) PROVE Inv'
  BY <1>6, GetDoneKeeps
<1>7. ASSUME NEW s \in Stream, NEW m \in SUBSET {"trunc", "ate"}, OpenStream(s, m) PROVE Inv'
  BY <1>7, OpenStreamKeeps
<1>8. ASSUME NEW s \in Stream, CloseStream(s) PROVE Inv'
  BY <1>8, CloseStreamKeeps
<1>9. ASSUME NEW s \in Stream, NEW n \in 1..MaxChunk, Read(s, n) PROVE Inv'
  BY <1>9, ReadKeeps
<1>10. ASSUME NEW s \in Stream, NEW c \in Chunk, Write(s, c) PROVE Inv'
  BY <1>10, WriteKeeps
<1>11. ASSUME NEW s \in Stream, NEW m \in (SUBSET {"in", "out"}) \ {{}},
              NEW dir \in {"beg", "cur", "end"}, NEW off \in Step,
              Seek(s, m, dir, off) \/ SeekThrows(s, m, dir, off)
       PROVE  Inv'
  BY <1>11, SeekKeeps, SeekThrowsKeeps
<1> QED BY <1>1, <1>2, <1>3, <1>4, <1>5, <1>6, <1>7, <1>8, <1>9, <1>10, <1>11 DEF Next

\* The inductive invariant holds always.
THEOREM Invariance == Spec => []Inv
<1>1. Init => Inv
  BY InitInv
<1>2. Inv /\ [Next]_vars => Inv'
  BY NextInv
<1> QED BY <1>1, <1>2, PTL DEF Spec

\* The offset a stream was placed at and went on from is within the value,
\* whatever partialRead, partialWrite and the seeks do and whoever else writes.
THEOREM TypeCorrect == Spec => []TypeOK
<1>1. Inv => TypeOK
  <2> SUFFICES ASSUME Inv PROVE TypeOK
    OBVIOUS
  <2>1. ASSUME NEW s \in Stream, stream[s].open, NEW o, o = stream[s]
        PROVE  /\ {o.g, o.p} \subseteq Offset
               /\ o.read # Absent => value # Absent /\ o.g \in 0..Len(value)
               /\ o.base # Absent => value # Absent /\ o.p \in 0..Len(value)
    <3>1. o \in Placed /\ ReadRight(o, value) /\ WroteRight(o, value)
      BY <2>1, StreamTypes
    <3>2. o.g \in Offset /\ o.p \in Offset /\ o.g \in Int /\ o.p \in Int
      BY <3>1, OffsetFacts DEF Placed
    <3>3. ASSUME o.read # Absent PROVE value # Absent /\ o.g \in 0..Len(value)
      <4>1. PICK k \in Nat : k = Len(o.read)
        BY <3>1, <3>3, OctetsOf DEF Placed, Of
      <4>2. value # Absent /\ k =< o.g /\ o.g =< Len(value)
        BY <3>1, <3>3, <4>1 DEF ReadRight
      <4>3. Len(value) \in Nat
        BY <4>2, OctetsOf DEF Inv, Types, Of
      <4> QED BY <3>2, <4>2, <4>3
    <3>4. ASSUME o.base # Absent PROVE value # Absent /\ o.p \in 0..Len(value)
      <4>1. /\ o.written # Absent /\ o.p - Len(o.written) =< Len(o.base) /\ value # Absent
            /\ value = Spliced(o.base, o.p - Len(o.written), o.written) /\ Len(o.written) =< o.p
        BY <3>1, <3>4 DEF WroteRight
      <4>2. PICK nb \in Nat : Of(o.base, nb) /\ Len(o.base) = nb
        BY <3>1, <3>4, OctetsOf DEF Placed, Of
      <4>3. PICK k \in Nat : Of(o.written, k) /\ Len(o.written) = k
        BY <3>1, <4>1, OctetsOf DEF Placed, Of
      <4>4. PICK n \in Nat : n = o.p - k /\ n =< nb /\ n + k = o.p
        BY <3>2, <4>1, <4>2, <4>3
      <4>5. PICK l : IsSpliced(value, l, o.base, nb, n, o.written, n + k)
        BY <4>1, <4>2, <4>3, <4>4, SplicedFacts
      <4>6. Of(value, l) /\ l >= o.p
        BY <4>4, <4>5 DEF IsSpliced
      <4>7. Len(value) = l /\ l \in Nat
        BY <4>6 DEF Of
      <4> QED BY <4>1, <4>4, <4>6, <4>7
    <3> QED BY <3>2, <3>3, <3>4
  <2>2. \A t \in Getter : /\ get[t].at \in {"none", "sized", "done"}
                          /\ get[t].data \in Octets \cup {Default}
    BY DEF Inv, Types, GetState
  <2> QED BY <2>1, <2>2 DEF Inv, Types, TypeOK
<1> QED BY <1>1, Invariance, PTL

\* The buffers make_new_data_avail() fills, one after the other, are a piece
\* of the value that ends at the offset for reading.
THEOREM ReadsAreContiguousHolds == Spec => []ReadsAreContiguous
<1>1. Inv => ReadsAreContiguous
  BY DEF Inv, StreamsRight, ReadRight, ReadsAreContiguous
<1> QED BY <1>1, Invariance, PTL

\* The buffers my_write_out_given_data() writes, one after the other, stand in
\* the value the stream found, and nothing around them has changed.
THEOREM WritesStayHolds == Spec => []WritesStay
<1>1. Inv => WritesStay
  <2> SUFFICES ASSUME Inv, NEW s \in Stream, stream[s].open, stream[s].base # Absent
               PROVE  value = SubSeq(stream[s].base, 1, stream[s].p - Len(stream[s].written))
                              \o stream[s].written
                              \o SubSeq(stream[s].base, stream[s].p + 1, Len(stream[s].base))
    BY DEF WritesStay
  <2>1. PICK o \in Placed : o = stream[s]
    BY StreamTypes
  <2>2. WroteRight(o, value) /\ o.base # Absent
    BY <2>1, StreamTypes
  <2>3. PICK n : n = o.p - Len(o.written)
    OBVIOUS
  <2>4. value = Spliced(o.base, n, o.written) /\ o.written # Absent
    BY <2>2, <2>3 DEF WroteRight
  <2>5. n + Len(o.written) + 1 = o.p + 1
    <3>1. Len(o.written) \in Nat /\ o.p \in Int
      BY <2>4, OctetsOf, OffsetFacts DEF Placed, Of
    <3> QED BY <2>3, <3>1
  <2> QED BY <2>1, <2>3, <2>4, <2>5 DEF Spliced
<1> QED BY <1>1, Invariance, PTL

\* What a step does that ends get().
ExactStep ==
    \A t \in Getter : get[t].at = "sized" /\ get'[t].at = "done" =>
        LET d == get[t].data
            r == get'[t].data
        IN \/ r = value
           \/ /\ env /\ ~get[t].inTrans
              /\ \/ r = Default /\ (value = Absent \/ Len(value) > Len(d))
                 \/ value # Absent /\ Len(value) < Len(d) /\ r = Copied(value, d)

\* Only its second call ends a get() that has the size.
LEMMA OnlyGetBytesEnds ==
  ASSUME Inv, Next, NEW t \in Getter, get[t].at = "sized", get'[t].at = "done"
  PROVE  GetBytes(t)
<1>1. CASE get' = get
  BY <1>1
<1>2. CASE \E u \in Getter, inTrans \in BOOLEAN, d \in Octets : GetSize(u, inTrans, d)
  <2>1. PICK u \in Getter : get[u] = NotThere /\ \A r \in Getter \ {u} : get'[r] = get[r]
    BY <1>2 DEF GetSize, Inv, Types
  <2>2. u # t
    BY <2>1 DEF NotThere
  <2> QED BY <2>1, <2>2
<1>3. CASE \E u \in Getter : GetBytes(u)
  <2>1. PICK u \in Getter : GetBytes(u)
    BY <1>3
  <2>2. u # t => get'[t] = get[t]
    <3>1. PICK z : get' = [get EXCEPT ![u] = z]
      BY <2>1 DEF GetBytes
    <3> QED BY <3>1 DEF Inv, Types
  <2> QED BY <2>1, <2>2
<1>4. CASE \E u \in Getter : GetDone(u)
  <2>1. PICK u \in Getter : get[u].at = "done" /\ \A r \in Getter \ {u} : get'[r] = get[r]
    BY <1>4 DEF GetDone, Inv, Types
  <2> QED BY <2>1
<1>5. ASSUME NEW s \in Stream PROVE
          /\ \A m \in SUBSET {"trunc", "ate"} : OpenStream(s, m) => get' = get
          /\ CloseStream(s) => get' = get
          /\ \A n \in 1..MaxChunk : Read(s, n) => get' = get
          /\ \A c \in Chunk : Write(s, c) => get' = get
          /\ \A m \in (SUBSET {"in", "out"}) \ {{}}, dir \in {"beg", "cur", "end"}, off \in Step :
                Seek(s, m, dir, off) \/ SeekThrows(s, m, dir, off) => get' = get
  <2>1. \A m \in SUBSET {"trunc", "ate"} : OpenStream(s, m) => get' = get
    BY DEF OpenStream
  <2>2. CloseStream(s) => get' = get
    BY DEF CloseStream
  <2>3. \A n \in 1..MaxChunk : Read(s, n) => get' = get
    BY DEF Read
  <2>4. \A c \in Chunk : Write(s, c) => get' = get
    BY DEF Write
  <2>5. \A m \in (SUBSET {"in", "out"}) \ {{}}, dir \in {"beg", "cur", "end"}, off \in Step :
            Seek(s, m, dir, off) \/ SeekThrows(s, m, dir, off) => get' = get
    BY DEF Seek, SeekThrows
  <2> QED BY <2>1, <2>2, <2>3, <2>4, <2>5
<1>6. (\E v \in SeqOf(Byte, MaxLen) : Set(v)) \/ Erase => get' = get
  BY DEF Set, Erase
<1> QED BY <1>1, <1>2, <1>3, <1>4, <1>5, <1>6 DEF Next

\* In a transaction, or without other threads, get() ends with the value; else
\* also with an exception, or with a value that has shrunk and what the caller's
\* string held behind it.
THEOREM GetIsExactHolds == Spec => GetIsExact
<1>1. Inv /\ [Next]_vars => [ExactStep]_vars
  <2> SUFFICES ASSUME Inv, Next, NEW t \in Getter, get[t].at = "sized", get'[t].at = "done",
                      NEW d, d = get[t].data, NEW r, r = get'[t].data
               PROVE  \/ r = value
                      \/ /\ env /\ ~get[t].inTrans
                         /\ \/ r = Default /\ (value = Absent \/ Len(value) > Len(d))
                            \/ value # Absent /\ Len(value) < Len(d) /\ r = Copied(value, d)
    BY DEF ExactStep
  <2>1. PICK q \in Octets \cup {Default} :
           /\ get' = [get EXCEPT ![t] = [get[t] EXCEPT !.at = "done", !.data = q]]
           /\ Threw(d, q) \/ Filled(d, q)
    BY OnlyGetBytesEnds, GetBytesFacts
  <2>2. r = q
    <3>1. get[t] \in GetState /\ get'[t] = [get[t] EXCEPT !.at = "done", !.data = q]
      BY <2>1 DEF Inv, Types
    <3> QED BY <3>1 DEF GetState
  <2>3. env \in BOOLEAN /\ get[t].inTrans \in BOOLEAN /\ d \in Octets
    BY DEF Inv, Types, GetState, SizesRight
  <2>4. PICK n \in Nat : n = Len(d)
    BY <2>3, OctetsOf DEF Of
  <2>5. value # Absent => Len(value) \in Nat
    BY OctetsOf DEF Inv, Types, Of
  <2>6. CASE env => get[t].inTrans
    <3>1. value # Absent /\ Len(d) = Len(value)
      BY <2>6 DEF Inv, SizesRight
    <3>2. ~(Len(value) > Len(d))
      BY <2>5, <3>1
    <3> QED BY <2>1, <2>2, <3>1, <3>2 DEF Threw, Filled
  <2>7. CASE env /\ ~get[t].inTrans
    <3>1. CASE Threw(d, q)
      BY <2>2, <2>7, <3>1 DEF Threw
    <3>2. CASE Filled(d, q)
      <4>1. CASE Len(value) = Len(d)
        BY <2>2, <3>2, <4>1 DEF Filled
      <4>2. CASE Len(value) # Len(d)
        <5>1. value # Absent /\ Len(value) =< Len(d)
          BY <3>2 DEF Filled
        <5>2. Len(value) < Len(d)
          BY <2>4, <2>5, <4>2, <5>1
        <5> QED BY <2>2, <2>7, <3>2, <5>2 DEF Filled
      <4> QED BY <4>1, <4>2
    <3> QED BY <2>1, <3>1, <3>2
  <2> QED BY <2>3, <2>6, <2>7
<1>2. Spec => [][ExactStep]_vars
  BY <1>1, Invariance, PTL DEF Spec
<1> QED BY <1>2, PTL DEF GetIsExact, ExactStep

=============================================================================
