------------------------- MODULE OrderedKeys_proofs -------------------------
(***************************************************************************)
(* What TLAPS proves about OrderedKeys.  Each comparison function is       *)
(* related to the order it is named for: on keys that it can tell apart    *)
(* its result has the sign of that order.  From there on the search and    *)
(* the look-ups know only that the page is sorted.                         *)
(***************************************************************************)
EXTENDS OrderedKeys, WellFoundedInduction, SequenceTheorems, TLAPS

-----------------------------------------------------------------------------
(* Sets of numbers. *)

\* Every set of numbers that is not empty has a least one.
LEMMA LeastNat ==
  ASSUME NEW S, S \subseteq Nat, S # {}
  PROVE  \E n \in S : \A m \in S : n =< m
<1>1. IsWellFoundedOn(OpToRel(<, Nat), Nat)
  BY NatLessThanWellFounded
<1>2. PICK n \in S : \A m \in S : ~(<<m, n>> \in OpToRel(<, Nat))
  BY <1>1, WFMin
<1>3. \A m \in S : ~(m < n)
  BY <1>2 DEF OpToRel
<1> QED BY <1>3

\* Induction: a set with 0, and with n + 1 for every n in it.
LEMMA SetInduction ==
  ASSUME NEW S, 0 \in S, \A n \in Nat : n \in S => n + 1 \in S
  PROVE  Nat \subseteq S
<1> SUFFICES ASSUME Nat \ S # {} PROVE FALSE
  OBVIOUS
<1>1. PICK n \in Nat \ S : \A m \in Nat \ S : n =< m
  BY LeastNat
<1>2. n # 0 /\ n - 1 \in Nat
  BY <1>1
<1>3. n - 1 \in S
  BY <1>1, <1>2
<1> QED BY <1>1, <1>2, <1>3

\* The greatest of a set of numbers that has a bound.
LEMMA GreatestNat ==
  ASSUME NEW S, NEW N \in Nat, S \subseteq 0..N, S # {}
  PROVE  \E n \in S : \A m \in S : n >= m
<1>1. PICK T : T = {N - m : m \in S}
  OBVIOUS
<1>2. T \subseteq Nat /\ T # {}
  <2>1. \A m \in S : N - m \in Nat
    OBVIOUS
  <2> QED BY <1>1, <2>1
<1>3. PICK k \in T : \A m \in T : k =< m
  BY <1>2, LeastNat
<1>4. PICK n \in S : k = N - n
  BY <1>1, <1>3
<1>5. ASSUME NEW m \in S PROVE n >= m
  <2>1. N - m \in T
    BY <1>1
  <2>2. N - n =< N - m
    BY <1>3, <1>4, <2>1
  <2> QED BY <2>2
<1> QED BY <1>5

-----------------------------------------------------------------------------
(* Differences of numbers. *)

\* The result c of comparing a with b says which of the two is before the other.
Tells(c, a, b, before, after) ==
    /\ c \in (1 - Half)..(Half - 1)
    /\ c < 0 <=> before
    /\ c > 0 <=> after
    /\ c = 0 <=> a = b

LEMMA HalfFacts == Half \in Nat /\ MaxByte \in Nat /\ 1 =< MaxByte /\ MaxByte < Half
  BY KeysAssumption

LEMMA ToIntIs ==
  ASSUME NEW n \in Int, -Half =< n, n < Half
  PROVE  ToInt(n) = n
<1>1. n + Half \in 0..(2 * Half - 1) /\ 2 * Half \in Nat /\ 2 * Half > 0
  BY HalfFacts
<1>2. \A m, d \in Nat : m < d => m % d = m
  OBVIOUS
<1>3. (n + Half) % (2 * Half) = n + Half
  BY <1>1, <1>2
<1> QED BY <1>3, HalfFacts DEF ToInt

LEMMA NumericTells ==
  ASSUME NEW kind \in Numeric, NEW a \in Int, NEW b \in Int,
         kind # "float" => a - b < Half /\ b - a < Half,
         kind = "float" => /\ a - b < 2 * Half /\ b - a < 2 * Half
                           /\ (a > b => a - b >= 2) /\ (b > a => b - a >= 2)
  PROVE  Tells(bt_compare_numeric(kind, a, b), a, b, a < b, b < a)
<1>1. CASE kind # "float"
  <2>1. ToInt(a - b) = a - b
    BY <1>1, HalfFacts, ToIntIs
  <2> QED BY <1>1, <2>1, HalfFacts DEF bt_compare_numeric, Tells
<1>2. CASE kind = "float"
  <2>1. PICK d \in Int : d = a - b
    OBVIOUS
  <2>2. d < 2 * Half /\ -d < 2 * Half /\ (d > 0 => d >= 2) /\ (d < 0 => -d >= 2)
    BY <1>2, <2>1
  <2>3. /\ Truncated(d) \in (1 - Half)..(Half - 1)
        /\ Truncated(d) < 0 <=> d < 0
        /\ Truncated(d) > 0 <=> d > 0
    BY <2>2, HalfFacts DEF Truncated
  <2>4. bt_compare_numeric(kind, a, b) = Truncated(d)
    BY <1>2, <2>1 DEF bt_compare_numeric
  <2> QED BY <2>1, <2>3, <2>4, HalfFacts DEF Tells
<1> QED BY <1>1, <1>2

-----------------------------------------------------------------------------
(* Bytes. *)

\* a and b differ at i, and not before.
Parts(a, b, i) == i \in Common(a, b) /\ a[i] # b[i] /\ \A j \in 1..(i - 1) : a[j] = b[j]

LEMMA CommonIs ==
  ASSUME NEW a \in Seq(Byte), NEW b \in Seq(Byte)
  PROVE  /\ \A i : i \in Common(a, b) <=> i \in 1..Len(a) /\ i \in 1..Len(b)
         /\ Common(a, b) \subseteq Nat /\ Common(b, a) = Common(a, b)
         /\ \A i \in Common(a, b) : a[i] \in Byte /\ b[i] \in Byte
  BY DEF Common

LEMMA MinIs ==
  ASSUME NEW S, S \subseteq Int, NEW n \in S, \A m \in S : n =< m
  PROVE  Min(S) = n
<1>1. Min(S) \in S /\ \A m \in S : Min(S) =< m
  BY Zenon DEF Min
<1>2. Min(S) =< n /\ n =< Min(S) /\ Min(S) \in Int /\ n \in Int
  BY <1>1
<1> QED BY <1>2

Differ(a, b) == {i \in Common(a, b) : a[i] # b[i]}

\* Where a comparison of bytes stops.
LEMMA FirstPart ==
  ASSUME NEW a \in Seq(Byte), NEW b \in Seq(Byte), Differ(a, b) # {}
  PROVE  \E i \in Common(a, b) : Parts(a, b, i) /\ Parts(b, a, i) /\ Min(Differ(a, b)) = i
<1>1. Differ(a, b) \subseteq Nat
  BY CommonIs DEF Differ
<1>2. PICK i \in Differ(a, b) : \A m \in Differ(a, b) : i =< m
  BY <1>1, LeastNat
<1>3. Min(Differ(a, b)) = i
  <2>1. Differ(a, b) \subseteq Int
    BY <1>1
  <2> QED BY <1>2, <2>1, MinIs
<1>4. i \in Common(a, b) /\ a[i] # b[i]
  BY <1>2 DEF Differ
<1>5. ASSUME NEW j \in 1..(i - 1) PROVE a[j] = b[j]
  <2>1. j \in Common(a, b) /\ j < i
    BY <1>4, CommonIs
  <2>2. j \notin Differ(a, b)
    BY <1>1, <1>2, <2>1
  <2> QED BY <2>1, <2>2 DEF Differ
<1> QED BY <1>3, <1>4, <1>5, CommonIs DEF Parts

LEMMA PartsOnce ==
  ASSUME NEW a \in Seq(Byte), NEW b \in Seq(Byte), NEW i, NEW j, Parts(a, b, i), Parts(a, b, j)
  PROVE  i = j
<1>1. i \in Nat /\ j \in Nat /\ i >= 1 /\ j >= 1
  BY CommonIs DEF Parts
<1> QED BY <1>1 DEF Parts

LEMMA PrefixIs ==
  ASSUME NEW a \in Seq(Byte), NEW b \in Seq(Byte)
  PROVE  /\ IsPrefix(a, b) <=> Len(a) =< Len(b) /\ \A i \in 1..Len(a) : a[i] = b[i]
         /\ IsStrictPrefix(a, b) <=> Len(a) < Len(b) /\ \A i \in 1..Len(a) : a[i] = b[i]
<1>1. IsPrefix(a, b) <=> Len(a) =< Len(b) /\ \A i \in 1..Len(a) : a[i] = b[i]
  <2>1. SUFFICES ASSUME Len(a) =< Len(b)
                 PROVE  SubSeq(a, 1, Len(a)) = SubSeq(b, 1, Len(a))
                           <=> \A i \in 1..Len(a) : a[i] = b[i]
    BY DEF IsPrefix
  <2>2. /\ SubSeq(a, 1, Len(a)) = [i \in 1..Len(a) |-> a[i]]
        /\ SubSeq(b, 1, Len(a)) = [i \in 1..Len(a) |-> b[i]]
    BY <2>1
  <2>3. (\A i \in 1..Len(a) : a[i] = b[i])
           => [i \in 1..Len(a) |-> a[i]] = [i \in 1..Len(a) |-> b[i]]
    OBVIOUS
  <2>4. ASSUME [i \in 1..Len(a) |-> a[i]] = [i \in 1..Len(a) |-> b[i]], NEW i \in 1..Len(a)
        PROVE  a[i] = b[i]
    <3>1. [j \in 1..Len(a) |-> a[j]][i] = [j \in 1..Len(a) |-> b[j]][i]
      BY <2>4
    <3> QED BY <3>1
  <2> QED BY <2>2, <2>3, <2>4
<1>2. ASSUME Len(a) = Len(b), \A i \in 1..Len(a) : a[i] = b[i] PROVE a = b
  BY <1>2, SeqEqual
<1> QED BY <1>1, <1>2 DEF IsStrictPrefix

\* The order of BytesInOrder, for a function v from the bytes to their values.
ByBytes(a, b, v, shortFirst) ==
    \/ IF shortFirst THEN IsStrictPrefix(a, b) ELSE IsStrictPrefix(b, a)
    \/ \E i \in Common(a, b) : Parts(a, b, i) /\ v[a[i]] < v[b[i]]

Values == {v \in [Byte -> Int] : \A c, d \in Byte : v[c] = v[d] => c = d}

LEMMA ByBytesTransitive ==
  ASSUME NEW a \in Seq(Byte), NEW b \in Seq(Byte), NEW c \in Seq(Byte),
         NEW v \in Values, NEW short \in BOOLEAN, ByBytes(a, b, v, short), ByBytes(b, c, v, short)
  PROVE  ByBytes(a, c, v, short)
<1>1. \A i \in Common(a, b) : i \in 1..Len(a) /\ i \in 1..Len(b) /\ a[i] \in Byte /\ b[i] \in Byte
  BY CommonIs
<1>2. \A i \in Common(b, c) : i \in 1..Len(b) /\ i \in 1..Len(c) /\ b[i] \in Byte /\ c[i] \in Byte
  BY CommonIs
<1>3. \A i : i \in 1..Len(a) /\ i \in 1..Len(c) => i \in Common(a, c)
  BY CommonIs
<1>4. Len(a) \in Nat /\ Len(b) \in Nat /\ Len(c) \in Nat
  OBVIOUS
<1>5. ASSUME NEW i \in Common(a, b), Parts(a, b, i), v[a[i]] < v[b[i]],
             NEW j \in Common(b, c), Parts(b, c, j), v[b[j]] < v[c[j]]
      PROVE  ByBytes(a, c, v, short)
  <2>1. i \in Nat /\ j \in Nat
    BY <1>1, <1>2
  <2>2. CASE i = j
    <3>1. v[a[i]] < v[c[i]]
      BY <1>1, <1>2, <1>5, <2>2 DEF Values
    <3>2. a[i] # c[i]
      <4>1. v[a[i]] \in Int /\ v[c[i]] \in Int
        BY <1>1, <1>2, <2>2 DEF Values
      <4> QED BY <3>1, <4>1
    <3>3. Parts(a, c, i) /\ i \in Common(a, c)
      BY <1>1, <1>2, <1>3, <1>5, <2>2, <3>2 DEF Parts
    <3> QED BY <3>1, <3>3 DEF ByBytes
  <2>3. CASE i < j
    <3>1. i \in 1..Len(c) /\ c[i] = b[i]
      BY <1>1, <1>2, <1>4, <1>5, <2>1, <2>3 DEF Parts
    <3>2. Parts(a, c, i) /\ i \in Common(a, c)
      BY <1>1, <1>2, <1>3, <1>5, <2>1, <2>3, <3>1 DEF Parts
    <3> QED BY <1>5, <3>1, <3>2 DEF ByBytes
  <2>4. CASE j < i
    <3>1. j \in 1..Len(a) /\ a[j] = b[j]
      BY <1>1, <1>2, <1>4, <1>5, <2>1, <2>4 DEF Parts
    <3>2. Parts(a, c, j) /\ j \in Common(a, c)
      BY <1>1, <1>2, <1>3, <1>5, <2>1, <2>4, <3>1 DEF Parts
    <3> QED BY <1>5, <3>1, <3>2 DEF ByBytes
  <2> QED BY <2>1, <2>2, <2>3, <2>4
<1>6. ASSUME short, IsStrictPrefix(a, b) PROVE ByBytes(a, c, v, short)
  <2>1. Len(a) < Len(b) /\ \A i \in 1..Len(a) : a[i] = b[i]
    BY <1>6, PrefixIs
  <2>2. CASE IsStrictPrefix(b, c)
    <3>1. Len(b) < Len(c) /\ \A i \in 1..Len(b) : b[i] = c[i]
      BY <2>2, PrefixIs
    <3>2. Len(a) < Len(c) /\ \A i \in 1..Len(a) : a[i] = c[i]
      BY <1>4, <2>1, <3>1
    <3>3. IsStrictPrefix(a, c)
      BY <3>2, PrefixIs
    <3> QED BY <1>6, <3>3 DEF ByBytes
  <2>3. ASSUME NEW j \in Common(b, c), Parts(b, c, j), v[b[j]] < v[c[j]]
        PROVE  ByBytes(a, c, v, short)
    <3>1. CASE j =< Len(a)
      <4>1. j \in 1..Len(a) /\ a[j] = b[j]
        BY <1>2, <1>4, <2>1, <3>1
      <4>2. Parts(a, c, j) /\ j \in Common(a, c)
        BY <1>2, <1>3, <2>1, <2>3, <4>1 DEF Parts
      <4> QED BY <2>3, <4>1, <4>2 DEF ByBytes
    <3>2. CASE j > Len(a)
      <4>1. Len(a) < Len(c) /\ \A i \in 1..Len(a) : a[i] = c[i]
        BY <1>2, <1>4, <2>1, <2>3, <3>2 DEF Parts
      <4>2. IsStrictPrefix(a, c)
        BY <4>1, PrefixIs
      <4> QED BY <1>6, <4>2 DEF ByBytes
    <3> QED BY <1>2, <1>4, <3>1, <3>2
  <2> QED BY <1>6, <2>2, <2>3 DEF ByBytes
<1>7. ASSUME ~short, IsStrictPrefix(b, a) PROVE ByBytes(a, c, v, short)
  <2>1. Len(b) < Len(a) /\ \A i \in 1..Len(b) : a[i] = b[i]
    BY <1>7, PrefixIs
  <2>2. CASE IsStrictPrefix(c, b)
    <3>1. Len(c) < Len(b) /\ \A i \in 1..Len(c) : b[i] = c[i]
      BY <2>2, PrefixIs
    <3>2. Len(c) < Len(a) /\ \A i \in 1..Len(c) : c[i] = a[i]
      BY <1>4, <2>1, <3>1
    <3>3. IsStrictPrefix(c, a)
      BY <3>2, PrefixIs
    <3> QED BY <1>7, <3>3 DEF ByBytes
  <2>3. ASSUME NEW j \in Common(b, c), Parts(b, c, j), v[b[j]] < v[c[j]]
        PROVE  ByBytes(a, c, v, short)
    <3>1. j \in 1..Len(a) /\ a[j] = b[j]
      BY <1>2, <1>4, <2>1
    <3>2. Parts(a, c, j) /\ j \in Common(a, c)
      BY <1>2, <1>3, <1>4, <2>1, <2>3, <3>1 DEF Parts
    <3> QED BY <2>3, <3>1, <3>2 DEF ByBytes
  <2> QED BY <1>7, <2>2, <2>3 DEF ByBytes
<1>8. ASSUME NEW i \in Common(a, b), Parts(a, b, i), v[a[i]] < v[b[i]]
      PROVE  ByBytes(a, c, v, short)
  <2>1. CASE short /\ IsStrictPrefix(b, c)
    <3>1. Len(b) < Len(c) /\ \A j \in 1..Len(b) : b[j] = c[j]
      BY <2>1, PrefixIs
    <3>2. i \in 1..Len(c) /\ c[i] = b[i]
      BY <1>1, <1>4, <3>1
    <3>3. Parts(a, c, i) /\ i \in Common(a, c)
      BY <1>1, <1>3, <1>4, <1>8, <3>1, <3>2 DEF Parts
    <3> QED BY <1>8, <3>2, <3>3 DEF ByBytes
  <2>2. CASE ~short /\ IsStrictPrefix(c, b)
    <3>1. Len(c) < Len(b) /\ \A j \in 1..Len(c) : c[j] = b[j]
      BY <2>2, PrefixIs
    <3>2. CASE i =< Len(c)
      <4>1. i \in 1..Len(c) /\ c[i] = b[i]
        BY <1>1, <1>4, <3>1, <3>2
      <4>2. Parts(a, c, i) /\ i \in Common(a, c)
        BY <1>1, <1>3, <1>4, <1>8, <3>1, <4>1 DEF Parts
      <4> QED BY <1>8, <4>1, <4>2 DEF ByBytes
    <3>3. CASE i > Len(c)
      <4>1. Len(c) < Len(a) /\ \A j \in 1..Len(c) : c[j] = a[j]
        BY <1>1, <1>4, <1>8, <3>1, <3>3 DEF Parts
      <4>2. IsStrictPrefix(c, a)
        BY <4>1, PrefixIs
      <4> QED BY <2>2, <4>2 DEF ByBytes
    <3> QED BY <1>1, <1>4, <3>2, <3>3
  <2> QED BY <1>5, <1>8, <2>1, <2>2 DEF ByBytes
<1> QED BY <1>6, <1>7, <1>8 DEF ByBytes

\* Two keys that differ somewhere, and two that do not.
LEMMA ByBytesIs ==
  ASSUME NEW a \in Seq(Byte), NEW b \in Seq(Byte), NEW v \in Values, NEW short \in BOOLEAN
  PROVE  /\ \A i : Parts(a, b, i) => a # b /\ (ByBytes(a, b, v, short) <=> v[a[i]] < v[b[i]])
         /\ (\A i \in Common(a, b) : a[i] = b[i]) =>
               /\ ByBytes(a, b, v, short) <=> IF short THEN Len(a) < Len(b) ELSE Len(b) < Len(a)
               /\ a = b <=> Len(a) = Len(b)
<1>1. ASSUME NEW i, Parts(a, b, i)
      PROVE  a # b /\ (ByBytes(a, b, v, short) <=> v[a[i]] < v[b[i]])
  <2>1. i \in Common(a, b) /\ a[i] # b[i] /\ i \in 1..Len(a) /\ i \in 1..Len(b)
    BY <1>1, CommonIs DEF Parts
  <2>2. ~IsStrictPrefix(a, b) /\ ~IsStrictPrefix(b, a)
    BY <2>1, PrefixIs
  <2> QED BY <1>1, <2>1, <2>2, PartsOnce DEF ByBytes
<1>2. ASSUME \A i \in Common(a, b) : a[i] = b[i]
      PROVE  /\ ByBytes(a, b, v, short) <=> IF short THEN Len(a) < Len(b) ELSE Len(b) < Len(a)
             /\ a = b <=> Len(a) = Len(b)
  <2>1. \A i : ~Parts(a, b, i)
    BY <1>2 DEF Parts
  <2>2. Len(a) \in Nat /\ Len(b) \in Nat
    OBVIOUS
  <2>3. ASSUME Len(a) =< Len(b) PROVE \A i \in 1..Len(a) : a[i] = b[i]
    BY <1>2, <2>2, <2>3, CommonIs
  <2>4. ASSUME Len(b) =< Len(a) PROVE \A i \in 1..Len(b) : b[i] = a[i]
    BY <1>2, <2>2, <2>4, CommonIs
  <2>5. IsStrictPrefix(a, b) <=> Len(a) < Len(b)
    BY <2>2, <2>3, PrefixIs
  <2>6. IsStrictPrefix(b, a) <=> Len(b) < Len(a)
    BY <2>2, <2>4, PrefixIs
  <2>7. Len(a) = Len(b) => a = b
    BY <2>2, <2>3, SeqEqual
  <2> QED BY <2>1, <2>5, <2>6, <2>7 DEF ByBytes
<1> QED BY <1>1, <1>2

Unsigned == [c \in Byte |-> c]
Signed == [c \in Byte |-> SignedByte(c)]

LEMMA ValuesAre ==
  /\ Unsigned \in Values /\ Signed \in Values
  /\ \A c, d \in Byte : /\ c - d \in (1 - Half)..(Half - 1)
                        /\ SignedByte(c) - SignedByte(d) \in (1 - Half)..(Half - 1)
                        /\ SignedByte(c) \in Int
<1>1. \A c \in Byte : c \in Nat /\ c =< MaxByte
  BY HalfFacts DEF Byte
<1>2. Unsigned \in Values
  BY <1>1 DEF Unsigned, Values
<1>3. \A c \in Byte : SignedByte(c) \in Int
  BY <1>1, HalfFacts DEF SignedByte
<1>4. \A c, d \in Byte : SignedByte(c) = SignedByte(d) => c = d
  BY <1>1, HalfFacts DEF SignedByte
<1>5. Signed \in Values
  BY <1>3, <1>4 DEF Signed, Values
<1>6. \A c, d \in Byte : c - d \in (1 - Half)..(Half - 1)
  BY <1>1, HalfFacts
<1>7. \A c, d \in Byte : SignedByte(c) - SignedByte(d) \in (1 - Half)..(Half - 1)
  BY <1>1, HalfFacts DEF SignedByte
<1> QED BY <1>2, <1>3, <1>5, <1>6, <1>7

LEMMA BytesInOrderIs ==
  ASSUME NEW a \in Seq(Byte), NEW b \in Seq(Byte)
  PROVE  /\ BytesInOrder(a, b, LAMBDA c : c, TRUE) <=> ByBytes(a, b, Unsigned, TRUE)
         /\ BytesInOrder(a, b, SignedByte, FALSE) <=> ByBytes(a, b, Signed, FALSE)
<1>1. \A i \in Common(a, b) :
         /\ Unsigned[a[i]] = a[i] /\ Unsigned[b[i]] = b[i]
         /\ Signed[a[i]] = SignedByte(a[i]) /\ Signed[b[i]] = SignedByte(b[i])
         /\ a[i] \in Int /\ b[i] \in Int
         /\ SignedByte(a[i]) \in Int /\ SignedByte(b[i]) \in Int
  BY CommonIs, ValuesAre DEF Unsigned, Signed, Byte
<1>2. \A i \in Common(a, b) : a[i] < b[i] => a[i] # b[i]
  BY <1>1
<1>3. \A i \in Common(a, b) : SignedByte(a[i]) < SignedByte(b[i]) => a[i] # b[i]
  BY <1>1
<1>4. BytesInOrder(a, b, LAMBDA c : c, TRUE) <=> ByBytes(a, b, Unsigned, TRUE)
  BY <1>1, <1>2 DEF BytesInOrder, ByBytes, Parts
<1>5. BytesInOrder(a, b, SignedByte, FALSE) <=> ByBytes(a, b, Signed, FALSE)
  BY <1>1, <1>3 DEF BytesInOrder, ByBytes, Parts
<1> QED BY <1>4, <1>5

LEMMA DefcmpTells ==
  ASSUME NEW a \in Seq(Byte), NEW b \in Seq(Byte), Len(a) < Half, Len(b) < Half
  PROVE  Tells(bam_defcmp(a, b), a, b, ByBytes(a, b, Unsigned, TRUE), ByBytes(b, a, Unsigned, TRUE))
<1>1. PICK D : D = Differ(a, b)
  OBVIOUS
<1>2. bam_defcmp(a, b) = IF D # {} THEN a[Min(D)] - b[Min(D)] ELSE Len(a) - Len(b)
  BY <1>1 DEF bam_defcmp, Differ
<1>3. CASE D # {}
  <2>1. PICK i \in Common(a, b) : Parts(a, b, i) /\ Parts(b, a, i) /\ Min(D) = i
    BY <1>1, <1>3, FirstPart
  <2>2. /\ a # b
        /\ ByBytes(a, b, Unsigned, TRUE) <=> Unsigned[a[i]] < Unsigned[b[i]]
        /\ ByBytes(b, a, Unsigned, TRUE) <=> Unsigned[b[i]] < Unsigned[a[i]]
    BY <2>1, ByBytesIs, ValuesAre
  <2>3. a[i] \in Byte /\ b[i] \in Byte /\ a[i] # b[i]
    BY <2>1, CommonIs DEF Parts
  <2>4. Unsigned[a[i]] = a[i] /\ Unsigned[b[i]] = b[i] /\ a[i] \in Int /\ b[i] \in Int
        /\ a[i] - b[i] \in (1 - Half)..(Half - 1)
    BY <2>3, ValuesAre DEF Unsigned, Byte
  <2>5. /\ a[i] - b[i] < 0 <=> a[i] < b[i]
        /\ a[i] - b[i] > 0 <=> b[i] < a[i]
        /\ a[i] - b[i] # 0
    BY <2>3, <2>4
  <2>6. bam_defcmp(a, b) = a[i] - b[i]
    BY <1>2, <1>3, <2>1
  <2> QED BY <2>2, <2>4, <2>5, <2>6, Zenon DEF Tells
<1>4. CASE D = {}
  <2>1. \A i \in Common(a, b) : a[i] = b[i]
    BY <1>1, <1>4 DEF Differ
  <2>2. \A i \in Common(b, a) : b[i] = a[i]
    BY <2>1, CommonIs
  <2>3. /\ a = b <=> Len(a) = Len(b)
        /\ ByBytes(a, b, Unsigned, TRUE) <=> Len(a) < Len(b)
        /\ ByBytes(b, a, Unsigned, TRUE) <=> Len(b) < Len(a)
    BY <2>1, <2>2, ByBytesIs, ValuesAre
  <2>4. Len(a) \in Nat /\ Len(b) \in Nat
    OBVIOUS
  <2>5. bam_defcmp(a, b) = Len(a) - Len(b)
    BY <1>2, <1>4
  <2>6. /\ Len(a) - Len(b) \in (1 - Half)..(Half - 1)
        /\ Len(a) - Len(b) < 0 <=> Len(a) < Len(b)
        /\ Len(a) - Len(b) > 0 <=> Len(b) < Len(a)
        /\ Len(a) - Len(b) = 0 <=> Len(a) = Len(b)
    BY <2>4, HalfFacts
  <2> QED BY <2>3, <2>5, <2>6, Zenon DEF Tells
<1> QED BY <1>3, <1>4

LEMMA CsTells ==
  ASSUME NEW a \in Seq(Byte), NEW b \in Seq(Byte)
  PROVE  Tells(bt_compare_cs(a, b), a, b, ByBytes(a, b, Signed, FALSE), ByBytes(b, a, Signed, FALSE))
<1>1. PICK D : D = Differ(a, b)
  OBVIOUS
<1>2. bt_compare_cs(a, b) =
         CASE D # {} -> SignedByte(a[Min(D)]) - SignedByte(b[Min(D)])
           [] D = {} /\ Len(a) < Len(b) -> 1
           [] D = {} /\ Len(a) > Len(b) -> -1
           [] OTHER -> 0
  BY <1>1 DEF bt_compare_cs, StringCompare, Differ
<1>3. CASE D # {}
  <2>1. PICK i \in Common(a, b) : Parts(a, b, i) /\ Parts(b, a, i) /\ Min(D) = i
    BY <1>1, <1>3, FirstPart
  <2>2. /\ a # b
        /\ ByBytes(a, b, Signed, FALSE) <=> Signed[a[i]] < Signed[b[i]]
        /\ ByBytes(b, a, Signed, FALSE) <=> Signed[b[i]] < Signed[a[i]]
    BY <2>1, ByBytesIs, ValuesAre
  <2>3. a[i] \in Byte /\ b[i] \in Byte /\ a[i] # b[i]
    BY <2>1, CommonIs DEF Parts
  <2>4. /\ Signed[a[i]] = SignedByte(a[i]) /\ Signed[b[i]] = SignedByte(b[i])
        /\ SignedByte(a[i]) \in Int /\ SignedByte(b[i]) \in Int
        /\ SignedByte(a[i]) - SignedByte(b[i]) \in (1 - Half)..(Half - 1)
    BY <2>3, ValuesAre DEF Signed
  <2>5. SignedByte(a[i]) # SignedByte(b[i])
    BY <2>3, <2>4, ValuesAre DEF Values
  <2>6. bt_compare_cs(a, b) = SignedByte(a[i]) - SignedByte(b[i])
    BY <1>2, <1>3, <2>1
  <2>7. /\ SignedByte(a[i]) - SignedByte(b[i]) < 0 <=> SignedByte(a[i]) < SignedByte(b[i])
        /\ SignedByte(a[i]) - SignedByte(b[i]) > 0 <=> SignedByte(b[i]) < SignedByte(a[i])
        /\ SignedByte(a[i]) - SignedByte(b[i]) # 0
    BY <2>4, <2>5
  <2> QED BY <2>2, <2>4, <2>6, <2>7, Zenon DEF Tells
<1>4. CASE D = {}
  <2>1. \A i \in Common(a, b) : a[i] = b[i]
    BY <1>1, <1>4 DEF Differ
  <2>2. \A i \in Common(b, a) : b[i] = a[i]
    BY <2>1, CommonIs
  <2>3. /\ a = b <=> Len(a) = Len(b)
        /\ ByBytes(a, b, Signed, FALSE) <=> Len(b) < Len(a)
        /\ ByBytes(b, a, Signed, FALSE) <=> Len(a) < Len(b)
    BY <2>1, <2>2, ByBytesIs, ValuesAre
  <2>4. Len(a) \in Nat /\ Len(b) \in Nat
    OBVIOUS
  <2>5. bt_compare_cs(a, b) = IF Len(a) < Len(b) THEN 1 ELSE IF Len(a) > Len(b) THEN -1 ELSE 0
    BY <1>2, <1>4, <2>4
  <2>6. PICK c \in {-1, 0, 1} : bt_compare_cs(a, b) = c /\ (c < 0 <=> Len(b) < Len(a))
                                /\ (c > 0 <=> Len(a) < Len(b)) /\ (c = 0 <=> Len(a) = Len(b))
    BY <2>4, <2>5
  <2>7. c \in (1 - Half)..(Half - 1)
    BY HalfFacts
  <2> QED BY <2>3, <2>6, <2>7, Zenon DEF Tells
<1> QED BY <1>3, <1>4

\* Letters that toupper() keeps apart: the functions with and without case agree.
LEMMA CisIsCs ==
  ASSUME NEW a, NEW b,
         \A i \in Common(a, b) : toupper(a[i]) = toupper(b[i]) <=> a[i] = b[i]
  PROVE  bt_compare_cis(a, b) = bt_compare_cs(a, b)
<1>1. {i \in Common(a, b) : toupper(a[i]) # toupper(b[i])} = {i \in Common(a, b) : a[i] # b[i]}
  OBVIOUS
<1> QED BY <1>1 DEF bt_compare_cis, bt_compare_cs, StringCompare

\* Letters of one case.
LEMMA OneCase ==
  ASSUME NEW C, \/ C \cap DOMAIN Upper = {}
                \/ \A c \in DOMAIN Upper : Upper[c] \notin C
  PROVE  \A c, d \in C : toupper(c) = toupper(d) <=> c = d
<1>1. \A c, d \in DOMAIN Upper : Upper[c] = Upper[d] => c = d
  BY KeysAssumption
<1> QED BY <1>1 DEF toupper

-----------------------------------------------------------------------------
(* The comparison function of the database. *)

\* a is before b in the database.
Ordered(a, b) == IF compare.reverse THEN InOrder(b, a) ELSE InOrder(a, b)

Comparison == compare \in [kind : Kind, reverse : BOOLEAN]

\* Keys that the function compares and tells apart.
Comparable(K) == K \subseteq KeyOf(compare.kind) /\ TellsApart(K)

Composed == {k \in Seq(0..(Half - 1)) : k # <<>> /\ Tail(k) \in Seq(Byte)}

LEMMA KindsAre ==
  ASSUME Comparison
  PROVE  /\ compare.kind \in Kind /\ compare.reverse \in BOOLEAN
         /\ \/ compare.kind \in Numeric
            \/ compare.kind = "default"
            \/ compare.kind \in {"cs", "cis"}
            \/ compare.kind = "uint16ThenBinary"
         /\ compare.kind \in Numeric =>
              /\ KeyOf(compare.kind) = Int
              /\ \A a, b : InOrder(a, b) <=> a < b
         /\ compare.kind = "default" =>
              /\ KeyOf(compare.kind) = {k \in Seq(Byte) : Len(k) < Half}
              /\ \A a, b \in Seq(Byte) : InOrder(a, b) <=> ByBytes(a, b, Unsigned, TRUE)
         /\ compare.kind \in {"cs", "cis"} =>
              /\ KeyOf(compare.kind) = {k \in Seq(Byte) : Len(k) < Half}
              /\ \A a, b \in Seq(Byte) : InOrder(a, b) <=> ByBytes(a, b, Signed, FALSE)
         /\ compare.kind = "uint16ThenBinary" =>
              /\ KeyOf(compare.kind) = Composed
              /\ \A a, b \in Composed :
                    InOrder(a, b) <=>
                      \/ Head(a) < Head(b)
                      \/ Head(a) = Head(b) /\ ByBytes(Tail(a), Tail(b), Signed, FALSE)
<1>1. compare.kind \in Kind /\ compare.reverse \in BOOLEAN
  BY DEF Comparison
<1>2. compare.kind \in Numeric \cup {"default", "cs", "cis", "uint16ThenBinary"}
  BY <1>1, KeysAssumption
<1>3. ASSUME compare.kind \in Numeric
      PROVE  KeyOf(compare.kind) = Int /\ \A a, b : InOrder(a, b) <=> a < b
  BY <1>3 DEF KeyOf, InOrder, Numeric
<1>4. ASSUME compare.kind = "default"
      PROVE  /\ KeyOf(compare.kind) = {k \in Seq(Byte) : Len(k) < Half}
             /\ \A a, b \in Seq(Byte) : InOrder(a, b) <=> ByBytes(a, b, Unsigned, TRUE)
  <2>1. KeyOf(compare.kind) = {k \in Seq(Byte) : Len(k) < Half}
    BY <1>4 DEF KeyOf, Numeric
  <2>2. \A a, b : InOrder(a, b) <=> BytesInOrder(a, b, LAMBDA c : c, TRUE)
    BY <1>4 DEF InOrder, Numeric
  <2> QED BY <2>1, <2>2, BytesInOrderIs
<1>5. ASSUME compare.kind \in {"cs", "cis"}
      PROVE  /\ KeyOf(compare.kind) = {k \in Seq(Byte) : Len(k) < Half}
             /\ \A a, b \in Seq(Byte) : InOrder(a, b) <=> ByBytes(a, b, Signed, FALSE)
  <2>1. KeyOf(compare.kind) = {k \in Seq(Byte) : Len(k) < Half}
    BY <1>5 DEF KeyOf, Numeric
  <2>2. \A a, b : InOrder(a, b) <=> BytesInOrder(a, b, SignedByte, FALSE)
    BY <1>5 DEF InOrder, Numeric
  <2> QED BY <2>1, <2>2, BytesInOrderIs
<1>6. ASSUME compare.kind = "uint16ThenBinary"
      PROVE  /\ KeyOf(compare.kind) = Composed
             /\ \A a, b \in Composed :
                    InOrder(a, b) <=>
                      \/ Head(a) < Head(b)
                      \/ Head(a) = Head(b) /\ ByBytes(Tail(a), Tail(b), Signed, FALSE)
  <2>1. KeyOf(compare.kind) = Composed
    BY <1>6 DEF KeyOf, Numeric, Composed
  <2>2. \A a, b : InOrder(a, b) <=>
                      \/ Head(a) < Head(b)
                      \/ Head(a) = Head(b) /\ BytesInOrder(Tail(a), Tail(b), SignedByte, FALSE)
    BY <1>6 DEF InOrder, Numeric
  <2>3. \A a \in Composed : Tail(a) \in Seq(Byte)
    BY DEF Composed
  <2> QED BY <2>1, <2>2, <2>3, BytesInOrderIs
<1> QED BY <1>1, <1>2, <1>3, <1>4, <1>5, <1>6

LEMMA ComposedIs ==
  ASSUME NEW a \in Composed
  PROVE  /\ Head(a) \in 0..(Half - 1) /\ Tail(a) \in Seq(Byte)
         /\ \A b \in Composed : Head(a) = Head(b) /\ Tail(a) = Tail(b) => a = b
<1>1. a \in Seq(0..(Half - 1)) /\ a # <<>> /\ Tail(a) \in Seq(Byte)
  BY DEF Composed
<1>2. Head(a) \in 0..(Half - 1)
  BY <1>1, HeadTailProperties
<1>3. ASSUME NEW b \in Composed, Head(a) = Head(b), Tail(a) = Tail(b) PROVE a = b
  <2>1. b \in Seq(0..(Half - 1)) /\ b # <<>>
    BY DEF Composed
  <2>2. a = <<Head(a)>> \o Tail(a) /\ b = <<Head(b)>> \o Tail(b)
    BY <1>1, <2>1, HeadTailProperties
  <2> QED BY <1>3, <2>2
<1> QED BY <1>1, <1>2, <1>3

LEMMA ComposeTells ==
  ASSUME NEW a \in Composed, NEW b \in Composed
  PROVE  Tells(bt_compose_compare_cs(a, b), a, b,
               Head(a) < Head(b) \/ (Head(a) = Head(b) /\ ByBytes(Tail(a), Tail(b), Signed, FALSE)),
               Head(b) < Head(a) \/ (Head(b) = Head(a) /\ ByBytes(Tail(b), Tail(a), Signed, FALSE)))
<1>1. /\ Head(a) \in 0..(Half - 1) /\ Tail(a) \in Seq(Byte)
      /\ Head(b) \in 0..(Half - 1) /\ Tail(b) \in Seq(Byte)
      /\ Head(a) = Head(b) /\ Tail(a) = Tail(b) => a = b
  BY ComposedIs
<1>2. Head(a) \in Int /\ Head(b) \in Int /\ Head(a) - Head(b) < Half /\ Head(b) - Head(a) < Half
  BY <1>1, HalfFacts
<1>3. Tells(bt_compare_numeric("int16", Head(a), Head(b)), Head(a), Head(b),
            Head(a) < Head(b), Head(b) < Head(a))
  BY <1>2, NumericTells DEF Numeric
<1>4. Tells(bt_compare_cs(Tail(a), Tail(b)), Tail(a), Tail(b),
            ByBytes(Tail(a), Tail(b), Signed, FALSE), ByBytes(Tail(b), Tail(a), Signed, FALSE))
  BY <1>1, CsTells
<1>5. CASE Head(a) # Head(b)
  <2>1. bt_compose_compare_cs(a, b) = bt_compare_numeric("int16", Head(a), Head(b))
    BY <1>3, <1>5 DEF bt_compose_compare_cs, Tells
  <2> QED BY <1>3, <1>5, <2>1, Zenon DEF Tells
<1>6. CASE Head(a) = Head(b)
  <2>1. bt_compose_compare_cs(a, b) = bt_compare_cs(Tail(a), Tail(b))
    BY <1>3, <1>6 DEF bt_compose_compare_cs, Tells
  <2>2. ~(Head(a) < Head(b)) /\ ~(Head(b) < Head(a))
    BY <1>2, <1>6
  <2> QED BY <1>1, <1>4, <1>6, <2>1, <2>2, Zenon DEF Tells
<1> QED BY <1>5, <1>6

\* What bt_compare returns tells the order of two keys that it can tell apart.
LEMMA CompareTells ==
  ASSUME Comparison, NEW K, Comparable(K), NEW a \in K, NEW b \in K
  PROVE  Tells(bt_compare(a, b), a, b, Ordered(a, b), Ordered(b, a))
<1> DEFINE ret == CASE compare.kind \in Numeric -> bt_compare_numeric(compare.kind, a, b)
                    [] compare.kind = "default" -> bam_defcmp(a, b)
                    [] compare.kind = "cs" -> bt_compare_cs(a, b)
                    [] compare.kind = "cis" -> bt_compare_cis(a, b)
                    [] compare.kind = "uint16ThenBinary" -> bt_compose_compare_cs(a, b)
<1>1. a \in KeyOf(compare.kind) /\ b \in KeyOf(compare.kind) /\ TellsApart(K)
  BY DEF Comparable
<1>2. Tells(ret, a, b, InOrder(a, b), InOrder(b, a))
  <2>1. CASE compare.kind \in Numeric
    <3>1. ret = bt_compare_numeric(compare.kind, a, b)
      BY <2>1 DEF Numeric
    <3>2. a \in Int /\ b \in Int /\ (InOrder(a, b) <=> a < b) /\ (InOrder(b, a) <=> b < a)
      BY <1>1, <2>1, KindsAre
    <3>3. compare.kind # "float" => a - b < Half /\ b - a < Half
      BY <1>1, <2>1 DEF TellsApart, Numeric
    <3>4. compare.kind = "float" => /\ a - b < 2 * Half /\ b - a < 2 * Half
                                    /\ (a > b => a - b >= 2) /\ (b > a => b - a >= 2)
      BY <1>1 DEF TellsApart
    <3>5. Tells(bt_compare_numeric(compare.kind, a, b), a, b, a < b, b < a)
      BY <2>1, <3>2, <3>3, <3>4, NumericTells
    <3> QED BY <3>1, <3>2, <3>5, Zenon DEF Tells
  <2>2. CASE compare.kind = "default"
    <3>1. ret = bam_defcmp(a, b)
      BY <2>2 DEF Numeric
    <3>2. /\ a \in Seq(Byte) /\ Len(a) < Half /\ b \in Seq(Byte) /\ Len(b) < Half
          /\ InOrder(a, b) <=> ByBytes(a, b, Unsigned, TRUE)
          /\ InOrder(b, a) <=> ByBytes(b, a, Unsigned, TRUE)
      BY <1>1, <2>2, KindsAre
    <3>3. Tells(bam_defcmp(a, b), a, b, ByBytes(a, b, Unsigned, TRUE), ByBytes(b, a, Unsigned, TRUE))
      BY <3>2, DefcmpTells
    <3> QED BY <3>1, <3>2, <3>3, Zenon DEF Tells
  <2>3. CASE compare.kind \in {"cs", "cis"}
    <3>1. /\ a \in Seq(Byte) /\ b \in Seq(Byte)
          /\ InOrder(a, b) <=> ByBytes(a, b, Signed, FALSE)
          /\ InOrder(b, a) <=> ByBytes(b, a, Signed, FALSE)
      BY <1>1, <2>3, KindsAre
    <3>2. ret = bt_compare_cs(a, b)
      <4>1. CASE compare.kind = "cs"
        BY <4>1 DEF Numeric
      <4>2. CASE compare.kind = "cis"
        <5>1. ret = bt_compare_cis(a, b)
          BY <4>2 DEF Numeric
        <5>2. \/ \A x \in K, c \in DOMAIN Upper : c \notin Range(x)
              \/ \A x \in K, c \in DOMAIN Upper : Upper[c] \notin Range(x)
          BY <1>1, <4>2 DEF TellsApart
        <5> DEFINE C == Range(a) \cup Range(b)
        <5>3. \/ C \cap DOMAIN Upper = {}
              \/ \A c \in DOMAIN Upper : Upper[c] \notin C
          BY <5>2
        <5>4. \A i \in Common(a, b) : a[i] \in C /\ b[i] \in C
          BY <3>1, CommonIs DEF Range
        <5> HIDE DEF C
        <5>5. bt_compare_cis(a, b) = bt_compare_cs(a, b)
          BY <5>3, <5>4, OneCase, CisIsCs
        <5> QED BY <5>1, <5>5
      <4> QED BY <2>3, <4>1, <4>2
    <3>3. Tells(bt_compare_cs(a, b), a, b, ByBytes(a, b, Signed, FALSE), ByBytes(b, a, Signed, FALSE))
      BY <3>1, CsTells
    <3> QED BY <3>1, <3>2, <3>3, Zenon DEF Tells
  <2>4. CASE compare.kind = "uint16ThenBinary"
    <3>1. ret = bt_compose_compare_cs(a, b)
      BY <2>4 DEF Numeric
    <3>2. a \in Composed /\ b \in Composed
      BY <1>1, <2>4, KindsAre
    <3>3. /\ InOrder(a, b) <=> \/ Head(a) < Head(b)
                               \/ Head(a) = Head(b) /\ ByBytes(Tail(a), Tail(b), Signed, FALSE)
          /\ InOrder(b, a) <=> \/ Head(b) < Head(a)
                               \/ Head(b) = Head(a) /\ ByBytes(Tail(b), Tail(a), Signed, FALSE)
      BY <2>4, <3>2, KindsAre
    <3>4. Tells(bt_compose_compare_cs(a, b), a, b,
                Head(a) < Head(b) \/ (Head(a) = Head(b) /\ ByBytes(Tail(a), Tail(b), Signed, FALSE)),
                Head(b) < Head(a) \/ (Head(b) = Head(a) /\ ByBytes(Tail(b), Tail(a), Signed, FALSE)))
      BY <3>2, ComposeTells
    <3> QED BY <3>1, <3>3, <3>4, Zenon DEF Tells
  <2> QED BY <2>1, <2>2, <2>3, <2>4, KindsAre
<1>3. bt_compare(a, b) = IF compare.reverse THEN ToInt(-1 * ret) ELSE ret
  BY DEF bt_compare
<1> HIDE DEF ret
<1>4. CASE compare.reverse
  <2>1. ret \in (1 - Half)..(Half - 1)
    BY <1>2 DEF Tells
  <2>2. ToInt(-1 * ret) = -ret
    BY <2>1, HalfFacts, ToIntIs
  <2>3. /\ bt_compare(a, b) \in (1 - Half)..(Half - 1)
        /\ bt_compare(a, b) < 0 <=> ret > 0
        /\ bt_compare(a, b) > 0 <=> ret < 0
        /\ bt_compare(a, b) = 0 <=> ret = 0
    BY <1>3, <1>4, <2>1, <2>2, HalfFacts
  <2> QED BY <1>2, <1>4, <2>3, Zenon DEF Tells, Ordered
<1>5. CASE ~compare.reverse
  <2>1. bt_compare(a, b) = ret
    BY <1>3, <1>5
  <2> QED BY <1>2, <1>5, <2>1, Zenon DEF Tells, Ordered
<1> QED BY <1>4, <1>5

\* The order of the database is one.
LEMMA OrderedTransitive ==
  ASSUME Comparison, NEW a \in KeyOf(compare.kind), NEW b \in KeyOf(compare.kind),
         NEW c \in KeyOf(compare.kind), Ordered(a, b), Ordered(b, c)
  PROVE  Ordered(a, c)
<1>1. ASSUME NEW x \in KeyOf(compare.kind), NEW y \in KeyOf(compare.kind),
             NEW z \in KeyOf(compare.kind), InOrder(x, y), InOrder(y, z)
      PROVE  InOrder(x, z)
  <2>1. CASE compare.kind \in Numeric
    BY <1>1, <2>1, KindsAre
  <2>2. CASE compare.kind = "default"
    <3>1. x \in Seq(Byte) /\ y \in Seq(Byte) /\ z \in Seq(Byte)
      BY <1>1, <2>2, KindsAre
    <3>2. ByBytes(x, y, Unsigned, TRUE) /\ ByBytes(y, z, Unsigned, TRUE)
      BY <1>1, <2>2, <3>1, KindsAre
    <3>3. ByBytes(x, z, Unsigned, TRUE)
      BY <3>1, <3>2, ByBytesTransitive, ValuesAre
    <3> QED BY <2>2, <3>1, <3>3, KindsAre
  <2>3. CASE compare.kind \in {"cs", "cis"}
    <3>1. x \in Seq(Byte) /\ y \in Seq(Byte) /\ z \in Seq(Byte)
      BY <1>1, <2>3, KindsAre
    <3>2. ByBytes(x, y, Signed, FALSE) /\ ByBytes(y, z, Signed, FALSE)
      BY <1>1, <2>3, <3>1, KindsAre
    <3>3. ByBytes(x, z, Signed, FALSE)
      BY <3>1, <3>2, ByBytesTransitive, ValuesAre
    <3> QED BY <2>3, <3>1, <3>3, KindsAre
  <2>4. CASE compare.kind = "uint16ThenBinary"
    <3>1. x \in Composed /\ y \in Composed /\ z \in Composed
      BY <1>1, <2>4, KindsAre
    <3>2. /\ Head(x) \in 0..(Half - 1) /\ Head(y) \in 0..(Half - 1) /\ Head(z) \in 0..(Half - 1)
          /\ Tail(x) \in Seq(Byte) /\ Tail(y) \in Seq(Byte) /\ Tail(z) \in Seq(Byte)
      BY <3>1, ComposedIs
    <3>3. /\ \/ Head(x) < Head(y)
             \/ Head(x) = Head(y) /\ ByBytes(Tail(x), Tail(y), Signed, FALSE)
          /\ \/ Head(y) < Head(z)
             \/ Head(y) = Head(z) /\ ByBytes(Tail(y), Tail(z), Signed, FALSE)
      BY <1>1, <2>4, <3>1, KindsAre
    <3>4. ByBytes(Tail(x), Tail(y), Signed, FALSE) /\ ByBytes(Tail(y), Tail(z), Signed, FALSE)
             => ByBytes(Tail(x), Tail(z), Signed, FALSE)
      BY <3>2, ByBytesTransitive, ValuesAre
    <3>5. \/ Head(x) < Head(z)
          \/ Head(x) = Head(z) /\ ByBytes(Tail(x), Tail(z), Signed, FALSE)
      <4>1. Head(x) \in Int /\ Head(y) \in Int /\ Head(z) \in Int
        BY <3>2
      <4>2. /\ Head(x) < Head(y) \/ Head(x) = Head(y)
            /\ Head(y) < Head(z) \/ Head(y) = Head(z)
        BY <3>3
      <4>3. Head(x) < Head(z) \/ (Head(x) = Head(y) /\ Head(y) = Head(z))
        BY <4>1, <4>2
      <4>4. Head(x) = Head(y) /\ Head(y) = Head(z)
               => ~(Head(x) < Head(y)) /\ ~(Head(y) < Head(z))
        BY <4>1
      <4> QED BY <3>3, <3>4, <4>3, <4>4, Zenon
    <3> QED BY <2>4, <3>1, <3>5, KindsAre
  <2> QED BY <2>1, <2>2, <2>3, <2>4, KindsAre
<1> QED BY <1>1, KindsAre DEF Ordered

-----------------------------------------------------------------------------
(* The search of the page. *)

Sorted(K) ==
    /\ page \in Seq(K)
    /\ \A i, j \in 1..Len(page) : i < j => Ordered(page[i], page[j])

\* s is the place of k in the page, or the place where it belongs.
Found(k, s) ==
    \/ \E i \in 1..Len(page) : s = Exact(i) /\ page[i] = k
    \/ \E i \in 1..(Len(page) + 1) :
          /\ s = Before(i)
          /\ \A j \in 1..Len(page) : IF j < i THEN Ordered(page[j], k) ELSE Ordered(k, page[j])

\* One round of the loop, with the result of the others in f.
SearchStep(f, k, part) ==
    LET base == part[1]
        lim == part[2]
        indx == base + lim \div 2
        cmp == bt_compare(k, page[indx])
    IN IF lim = 0 THEN Before(base)
       ELSE IF cmp = 0 THEN Exact(indx)
       ELSE IF cmp > 0 THEN f[<<indx + 1, (lim - 1) \div 2>>]
       ELSE f[<<base, lim \div 2>>]

Searches(f, k, D) == f = [part \in D |-> SearchStep(f, k, part)]

LEMMA Halves ==
  ASSUME NEW m \in Nat, m # 0
  PROVE  /\ m \div 2 \in Nat /\ (m - 1) \div 2 \in Nat
         /\ m \div 2 =< m - 1 /\ (m - 1) \div 2 =< m - 1
         /\ m \div 2 + (m - 1) \div 2 = m - 1
  OBVIOUS

LEMMA PartsAre ==
  ASSUME NEW n \in Nat, NEW part \in PartsOfPage(n), part[2] # 0
  PROVE  /\ part[1] \in 1..(n + 1) /\ part[2] \in 1..n /\ part[1] + part[2] =< n + 1
         /\ part[1] + part[2] \div 2 \in part[1]..(part[1] + part[2] - 1)
         /\ part[1] + part[2] \div 2 \in 1..n
         /\ <<part[1] + part[2] \div 2 + 1, (part[2] - 1) \div 2>> \in PartsOfPage(n)
         /\ <<part[1], part[2] \div 2>> \in PartsOfPage(n)
<1>1. part[1] \in 1..(n + 1) /\ part[2] \in 1..n /\ part[1] + part[2] =< n + 1
  BY DEF PartsOfPage
<1>2. PICK b \in 1..(n + 1), m \in 1..n : b = part[1] /\ m = part[2] /\ b + m =< n + 1
  BY <1>1
<1>3. /\ m \div 2 \in Nat /\ (m - 1) \div 2 \in Nat
      /\ m \div 2 =< m - 1 /\ (m - 1) \div 2 =< m - 1
      /\ m \div 2 + (m - 1) \div 2 = m - 1
  BY Halves
<1>4. PICK g \in Nat, h \in Nat : g = m \div 2 /\ h = (m - 1) \div 2
  BY <1>3
<1>5. g =< m - 1 /\ h =< m - 1 /\ g + h = m - 1
  BY <1>3, <1>4
<1>6. b + g \in b..(b + m - 1) /\ b + g \in 1..n
  BY <1>2, <1>5
<1>7. <<b + g + 1, h>> \in PartsOfPage(n) /\ <<b, g>> \in PartsOfPage(n)
  <2>1. b + g + 1 \in 1..(n + 1) /\ h \in 0..n /\ (b + g + 1) + h =< n + 1
    BY <1>2, <1>5
  <2>2. g \in 0..n /\ b + g =< n + 1
    BY <1>2, <1>5
  <2> QED BY <2>1, <2>2 DEF PartsOfPage
<1> QED BY <1>1, <1>2, <1>4, <1>6, <1>7

\* The recursion is well-founded: there is a function that does it.
LEMMA SearchExists ==
  ASSUME NEW k, NEW n \in Nat
  PROVE  \E f : Searches(f, k, PartsOfPage(n))
<1> DEFINE D(m) == {part \in PartsOfPage(n) : part[2] =< m}
           S == {m \in Nat : \E f : Searches(f, k, D(m))}
<1>1. \A part \in PartsOfPage(n) : part[2] \in 0..n
  BY DEF PartsOfPage
<1>2. 0 \in S
  <2>1. PICK f : f = [part \in D(0) |-> Before(part[1])]
    OBVIOUS
  <2>2. \A part \in D(0) : part[2] = 0
    BY <1>1
  <2>3. \A part \in D(0) : SearchStep(f, k, part) = Before(part[1])
    BY <2>2 DEF SearchStep
  <2>4. Searches(f, k, D(0))
    BY <2>1, <2>3, Zenon DEF Searches
  <2> QED BY <2>4
<1>3. ASSUME NEW m \in Nat, m \in S PROVE m + 1 \in S
  <2>1. PICK f : Searches(f, k, D(m))
    BY <1>3
  <2>2. PICK g : g = [part \in D(m + 1) |-> IF part[2] =< m THEN f[part] ELSE SearchStep(f, k, part)]
    OBVIOUS
  <2>3. \A part \in D(m) : part \in D(m + 1) /\ g[part] = f[part]
    <3> SUFFICES ASSUME NEW part \in D(m) PROVE part \in D(m + 1) /\ g[part] = f[part]
      OBVIOUS
    <3>1. part \in PartsOfPage(n) /\ part[2] =< m /\ part[2] =< m + 1
      BY <1>1
    <3> QED BY <2>2, <3>1
  <2>4. ASSUME NEW part \in D(m + 1) PROVE SearchStep(g, k, part) = SearchStep(f, k, part)
    <3>1. CASE part[2] = 0
      BY <3>1 DEF SearchStep
    <3>2. CASE part[2] # 0
      <4>1. part \in PartsOfPage(n) /\ part[2] \in Nat /\ part[2] =< m + 1
        BY <1>1
      <4>2. part[2] \div 2 =< m /\ (part[2] - 1) \div 2 =< m
        BY <3>2, <4>1, Halves
      <4>3. /\ <<part[1] + part[2] \div 2 + 1, (part[2] - 1) \div 2>> \in D(m)
            /\ <<part[1], part[2] \div 2>> \in D(m)
        BY <3>2, <4>1, <4>2, PartsAre
      <4> HIDE DEF D
      <4>4. /\ g[<<part[1] + part[2] \div 2 + 1, (part[2] - 1) \div 2>>]
                  = f[<<part[1] + part[2] \div 2 + 1, (part[2] - 1) \div 2>>]
            /\ g[<<part[1], part[2] \div 2>>] = f[<<part[1], part[2] \div 2>>]
        BY <2>3, <4>3
      <4> QED BY <4>4 DEF SearchStep
    <3> QED BY <3>1, <3>2
  <2>5. ASSUME NEW part \in D(m + 1) PROVE g[part] = SearchStep(g, k, part)
    <3>1. CASE part[2] =< m
      <4>1. part \in D(m)
        BY <3>1
      <4>2. f[part] = SearchStep(f, k, part)
        <5> HIDE DEF D
        <5> QED BY <2>1, <4>1 DEF Searches
      <4> QED BY <2>2, <2>4, <3>1, <4>2
    <3>2. CASE ~(part[2] =< m)
      BY <2>2, <2>4, <3>2
    <3> QED BY <3>1, <3>2
  <2>6. g = [part \in D(m + 1) |-> g[part]]
    BY <2>2
  <2>7. Searches(g, k, D(m + 1))
    <3> HIDE DEF D
    <3> QED BY <2>5, <2>6, Zenon DEF Searches
  <2> QED BY <2>7
<1>4. Nat \subseteq S
  <2> HIDE DEF S
  <2> QED BY <1>2, <1>3, SetInduction
<1>5. D(n) = PartsOfPage(n)
  BY <1>1
<1> QED BY <1>4, <1>5

LEMMA SearchIs ==
  ASSUME Len(page) \in Nat, NEW k
  PROVE  \E f : Searches(f, k, PartsOfPage(Len(page))) /\ bam_search(k) = f[<<1, Len(page)>>]
<1>1. PICK n \in Nat : n = Len(page)
  OBVIOUS
<1>2. \E f : Searches(f, k, PartsOfPage(n))
  BY SearchExists
<1>3. PICK f : f = CHOOSE g : Searches(g, k, PartsOfPage(n))
  OBVIOUS
<1>4. Searches(f, k, PartsOfPage(n))
  BY <1>2, <1>3, Zenon
<1>5. bam_search(k) = (CHOOSE g : Searches(g, k, PartsOfPage(n)))[<<1, n>>]
  BY <1>1, Zenon DEF bam_search, Searches, SearchStep
<1> QED BY <1>1, <1>3, <1>4, <1>5

\* The search finds a key, or the place between its neighbours.
LEMMA SearchFinds ==
  ASSUME Comparison, NEW K, Comparable(K), Sorted(K), NEW k \in K
  PROVE  Found(k, bam_search(k))
<1>1. PICK n \in Nat : n = Len(page)
  BY DEF Sorted
<1>2. \A i \in 1..n : page[i] \in K
  BY <1>1 DEF Sorted
<1>3. \A i \in 1..n : Tells(bt_compare(k, page[i]), k, page[i], Ordered(k, page[i]), Ordered(page[i], k))
  BY <1>2, CompareTells
<1>4. \A i, j \in 1..n : i < j => Ordered(page[i], page[j])
  BY <1>1 DEF Sorted
<1>5. \A x, y, z \in K : Ordered(x, y) /\ Ordered(y, z) => Ordered(x, z)
  BY OrderedTransitive DEF Comparable
<1>6. PICK f : Searches(f, k, PartsOfPage(n)) /\ bam_search(k) = f[<<1, n>>]
  BY <1>1, SearchIs
<1> DEFINE Window(part) == \A j \in 1..n : /\ j < part[1] => Ordered(page[j], k)
                                           /\ j >= part[1] + part[2] => Ordered(k, page[j])
           S == {m \in Nat : \A part \in PartsOfPage(n) :
                               part[2] =< m /\ Window(part) => Found(k, f[part])}
<1>7. \A part \in PartsOfPage(n) : part[1] \in 1..(n + 1) /\ part[2] \in 0..n /\ part[1] + part[2] =< n + 1
  BY DEF PartsOfPage
<1>8. ASSUME NEW part \in PartsOfPage(n), part[2] = 0, Window(part)
      PROVE  Found(k, f[part])
  <2>1. f[part] = Before(part[1])
    BY <1>6, <1>8 DEF Searches, SearchStep
  <2>2. \A j \in 1..n : IF j < part[1] THEN Ordered(page[j], k) ELSE Ordered(k, page[j])
    BY <1>7, <1>8
  <2> QED BY <1>1, <1>7, <2>1, <2>2 DEF Found
<1>9. 0 \in S
  <2> SUFFICES ASSUME NEW part \in PartsOfPage(n), part[2] =< 0, Window(part) PROVE Found(k, f[part])
    OBVIOUS
  <2>1. part[2] = 0
    BY <1>7
  <2> QED BY <1>8, <2>1
<1>10. ASSUME NEW m \in Nat, m \in S PROVE m + 1 \in S
  <2> SUFFICES ASSUME NEW part \in PartsOfPage(n), part[2] =< m + 1, Window(part), part[2] # 0
               PROVE  Found(k, f[part])
    BY <1>8
  <2>1. PICK b \in 1..(n + 1), lim \in 1..n, i \in 1..n :
           /\ b = part[1] /\ lim = part[2] /\ i = b + lim \div 2
           /\ b + lim =< n + 1 /\ b =< i /\ i < b + lim
    <3>1. /\ part[1] \in 1..(n + 1) /\ part[2] \in 1..n /\ part[1] + part[2] =< n + 1
          /\ part[1] + part[2] \div 2 \in part[1]..(part[1] + part[2] - 1)
          /\ part[1] + part[2] \div 2 \in 1..n
      BY PartsAre
    <3>2. PICK b \in 1..(n + 1), lim \in 1..n, i \in 1..n :
             b = part[1] /\ lim = part[2] /\ i = part[1] + part[2] \div 2
      BY <3>1
    <3>3. i \in b..(b + lim - 1) /\ b + lim =< n + 1 /\ i = b + lim \div 2
      BY <3>1, <3>2
    <3>4. b =< i /\ i < b + lim
      BY <3>3
    <3> QED BY <3>2, <3>3, <3>4
  <2> DEFINE above == <<i + 1, (lim - 1) \div 2>>
             below == <<b, lim \div 2>>
  <2>2. above \in PartsOfPage(n) /\ below \in PartsOfPage(n)
    BY <2>1, PartsAre
  <2>3. (lim - 1) \div 2 =< m /\ lim \div 2 =< m /\ (lim - 1) \div 2 \in Nat /\ lim \div 2 \in Nat
        /\ (i + 1) + (lim - 1) \div 2 = b + lim
    BY <2>1, Halves
  <2>4. f[part] = IF bt_compare(k, page[i]) = 0 THEN Exact(i)
                  ELSE IF bt_compare(k, page[i]) > 0 THEN f[above] ELSE f[below]
    BY <1>6, <2>1 DEF Searches, SearchStep
  <2>5. Tells(bt_compare(k, page[i]), k, page[i], Ordered(k, page[i]), Ordered(page[i], k))
    BY <1>3
  <2>6. CASE bt_compare(k, page[i]) = 0
    BY <1>1, <2>4, <2>5, <2>6 DEF Found, Tells
  <2>7. CASE bt_compare(k, page[i]) > 0
    <3>1. Ordered(page[i], k) /\ f[part] = f[above]
      BY <2>4, <2>5, <2>7 DEF Tells
    <3>2. Window(above)
      <4> SUFFICES ASSUME NEW j \in 1..n
                   PROVE  /\ j < i + 1 => Ordered(page[j], k)
                          /\ j >= (i + 1) + (lim - 1) \div 2 => Ordered(k, page[j])
        OBVIOUS
      <4>1. j < i => Ordered(page[j], k)
        BY <1>2, <1>4, <1>5, <3>1
      <4>2. j >= b + lim => Ordered(k, page[j])
        BY <2>1
      <4> QED BY <2>3, <3>1, <4>1, <4>2
    <3>3. above[2] =< m
      BY <2>3
    <3> HIDE DEF Window, above
    <3> QED BY <1>10, <2>2, <3>1, <3>2, <3>3
  <2>8. CASE bt_compare(k, page[i]) < 0
    <3>1. Ordered(k, page[i]) /\ f[part] = f[below]
      BY <2>4, <2>5, <2>8 DEF Tells
    <3>2. Window(below)
      <4> SUFFICES ASSUME NEW j \in 1..n
                   PROVE  /\ j < b => Ordered(page[j], k)
                          /\ j >= b + lim \div 2 => Ordered(k, page[j])
        OBVIOUS
      <4>1. j > i => Ordered(k, page[j])
        BY <1>2, <1>4, <1>5, <3>1
      <4>2. j < b => Ordered(page[j], k)
        BY <2>1
      <4> QED BY <2>1, <3>1, <4>1, <4>2
    <3>3. below[2] =< m
      BY <2>3
    <3> HIDE DEF Window, below
    <3> QED BY <1>10, <2>2, <3>1, <3>2, <3>3
  <2> QED BY <2>5, <2>6, <2>7, <2>8 DEF Tells
<1>11. Nat \subseteq S
  <2> HIDE DEF S
  <2> QED BY <1>9, <1>10, SetInduction
<1>12. <<1, n>> \in PartsOfPage(n) /\ Window(<<1, n>>)
  BY DEF PartsOfPage
<1>13. n \in S
  BY <1>11
<1>14. <<1, n>>[2] =< n
  OBVIOUS
<1> HIDE DEF Window
<1> QED BY <1>6, <1>12, <1>13, <1>14

\* So does the one that tries the ends of the page first.
LEMMA InsertFinds ==
  ASSUME Comparison, NEW K, Comparable(K), Sorted(K), NEW k \in K
  PROVE  Found(k, InsertSearch(k))
<1>1. Found(k, bam_search(k))
  BY SearchFinds
<1> SUFFICES ASSUME page # <<>> PROVE Found(k, FastSearch(k))
  BY <1>1 DEF InsertSearch
<1>2. PICK n \in Nat \ {0} : n = Len(page)
  BY EmptySeq DEF Sorted
<1>3. \A i \in 1..n : page[i] \in K
  BY <1>2 DEF Sorted
<1>4. \A i \in 1..n : Tells(bt_compare(k, page[i]), k, page[i], Ordered(k, page[i]), Ordered(page[i], k))
  BY <1>3, CompareTells
<1>5. \A i, j \in 1..n : i < j => Ordered(page[i], page[j])
  BY <1>2 DEF Sorted
<1>6. \A x, y, z \in K : Ordered(x, y) /\ Ordered(y, z) => Ordered(x, z)
  BY OrderedTransitive DEF Comparable
<1>7. 1 \in 1..n /\ n \in 1..n
  OBVIOUS
<1>8. PICK last, first : last = bt_compare(k, page[n]) /\ first = bt_compare(k, page[1])
  OBVIOUS
<1>9. FastSearch(k) = CASE last > 0 -> Before(n + 1)
                        [] last = 0 -> Exact(n)
                        [] last < 0 /\ first < 0 -> Before(1)
                        [] last < 0 /\ first = 0 -> Exact(1)
                        [] OTHER -> bam_search(k)
  BY <1>2, <1>8 DEF FastSearch
<1>10. Tells(last, k, page[n], Ordered(k, page[n]), Ordered(page[n], k))
  BY <1>4, <1>7, <1>8
<1>11. Tells(first, k, page[1], Ordered(k, page[1]), Ordered(page[1], k))
  BY <1>4, <1>7, <1>8
<1>12. last \in Int /\ first \in Int
  BY <1>10, <1>11 DEF Tells
<1>13. CASE last > 0
  <2>1. Ordered(page[n], k)
    BY <1>10, <1>13 DEF Tells
  <2>2. \A j \in 1..n : j < n + 1 /\ Ordered(page[j], k)
    <3> SUFFICES ASSUME NEW j \in 1..n PROVE j < n + 1 /\ Ordered(page[j], k)
      OBVIOUS
    <3>1. CASE j = n
      BY <2>1, <3>1
    <3>2. CASE j < n
      BY <1>3, <1>5, <1>6, <1>7, <2>1, <3>2
    <3> QED BY <3>1, <3>2
  <2>3. FastSearch(k) = Before(n + 1)
    BY <1>9, <1>12, <1>13
  <2> QED BY <1>2, <2>2, <2>3 DEF Found
<1>14. CASE last = 0
  <2>1. FastSearch(k) = Exact(n)
    BY <1>9, <1>12, <1>14
  <2> QED BY <1>2, <1>7, <1>10, <1>14, <2>1 DEF Found, Tells
<1>15. CASE last < 0 /\ first < 0
  <2>1. Ordered(k, page[1])
    BY <1>11, <1>15 DEF Tells
  <2>2. \A j \in 1..n : ~(j < 1) /\ Ordered(k, page[j])
    <3> SUFFICES ASSUME NEW j \in 1..n PROVE ~(j < 1) /\ Ordered(k, page[j])
      OBVIOUS
    <3>1. CASE j = 1
      BY <2>1, <3>1
    <3>2. CASE j > 1
      BY <1>3, <1>5, <1>6, <1>7, <2>1, <3>2
    <3> QED BY <3>1, <3>2
  <2>3. FastSearch(k) = Before(1)
    BY <1>9, <1>12, <1>15
  <2> QED BY <1>2, <2>2, <2>3 DEF Found
<1>16. CASE last < 0 /\ first = 0
  <2>1. FastSearch(k) = Exact(1)
    BY <1>9, <1>12, <1>16
  <2> QED BY <1>2, <1>7, <1>11, <1>16, <2>1 DEF Found, Tells
<1>17. CASE last < 0 /\ first > 0
  <2>1. FastSearch(k) = bam_search(k)
    BY <1>9, <1>12, <1>17
  <2> QED BY <1>1, <2>1
<1> QED BY <1>12, <1>13, <1>14, <1>15, <1>16, <1>17

-----------------------------------------------------------------------------
(* The page keeps its order. *)

\* r is s with e at i, and what was there and behind it moved.
Inserts(r, s, i, e) ==
    /\ Len(r) = Len(s) + 1
    /\ \A j \in 1..(Len(s) + 1) : r[j] = IF j < i THEN s[j] ELSE IF j = i THEN e ELSE s[j - 1]

LEMMA InsertAtIs ==
  ASSUME NEW T, NEW s \in Seq(T), NEW i \in 1..(Len(s) + 1), NEW e \in T
  PROVE  InsertAt(s, i, e) \in Seq(T) /\ Inserts(InsertAt(s, i, e), s, i, e)
<1>1. PICK n \in Nat : n = Len(s)
  OBVIOUS
<1>2. PICK front : front = SubSeq(s, 1, i - 1)
  OBVIOUS
<1>3. PICK back : back = SubSeq(s, i, n)
  OBVIOUS
<1>4. front \in Seq(T) /\ Len(front) = i - 1 /\ \A j \in 1..(i - 1) : front[j] = s[j]
  BY <1>1, <1>2
<1>5. back \in Seq(T) /\ Len(back) = n + 1 - i /\ \A j \in 1..(n + 1 - i) : back[j] = s[i + j - 1]
  BY <1>1, <1>3
<1>6. InsertAt(s, i, e) = front \o <<e>> \o back
  BY <1>1, <1>2, <1>3 DEF InsertAt
<1>7. front \o <<e>> \in Seq(T) /\ Len(front \o <<e>>) = i
      /\ \A j \in 1..i : (front \o <<e>>)[j] = IF j < i THEN s[j] ELSE e
  BY <1>4
<1>8. InsertAt(s, i, e) \in Seq(T) /\ Len(InsertAt(s, i, e)) = n + 1
  <2>1. PICK start \in Seq(T) : start = front \o <<e>> /\ Len(start) = i
    BY <1>7
  <2>2. start \o back \in Seq(T) /\ Len(start \o back) = i + (n + 1 - i)
    <3>1. back \in Seq(T) /\ Len(back) = n + 1 - i
      BY <1>5
    <3>2. start \o back \in Seq(T) /\ Len(start \o back) = Len(start) + Len(back)
      BY <3>1, ConcatProperties
    <3>3. Len(start) = i
      BY <2>1
    <3> QED BY <3>1, <3>2, <3>3
  <2>3. i + (n + 1 - i) = n + 1
    BY <1>1
  <2> QED BY <1>6, <2>1, <2>2, <2>3
<1>9. ASSUME NEW j \in 1..(n + 1)
      PROVE  InsertAt(s, i, e)[j] = IF j < i THEN s[j] ELSE IF j = i THEN e ELSE s[j - 1]
  <2>1. CASE j =< i
    BY <1>1, <1>5, <1>6, <1>7, <2>1
  <2>2. CASE j > i
    <3>1. InsertAt(s, i, e)[j] = back[j - i]
      BY <1>1, <1>5, <1>6, <1>7, <2>2
    <3>2. j - i \in 1..(n + 1 - i) /\ i + (j - i) - 1 = j - 1
      BY <1>1, <2>2
    <3> QED BY <1>5, <2>2, <3>1, <3>2
  <2> QED BY <1>1, <2>1, <2>2
<1> QED BY <1>1, <1>8, <1>9 DEF Inserts

LEMMA RemoveAtIs ==
  ASSUME NEW T, NEW s \in Seq(T), NEW i \in 1..Len(s)
  PROVE  /\ RemoveAt(s, i) \in Seq(T) /\ Len(RemoveAt(s, i)) = Len(s) - 1
         /\ \A j \in 1..(Len(s) - 1) : RemoveAt(s, i)[j] = IF j < i THEN s[j] ELSE s[j + 1]
<1>1. PICK n \in Nat : n = Len(s)
  OBVIOUS
<1>2. PICK front : front = SubSeq(s, 1, i - 1)
  OBVIOUS
<1>3. PICK back : back = SubSeq(s, i + 1, n)
  OBVIOUS
<1>4. front \in Seq(T) /\ Len(front) = i - 1 /\ \A j \in 1..(i - 1) : front[j] = s[j]
  BY <1>1, <1>2
<1>5. back \in Seq(T) /\ Len(back) = n - i /\ \A j \in 1..(n - i) : back[j] = s[i + j]
  BY <1>1, <1>3
<1>6. RemoveAt(s, i) = front \o back
  BY <1>1, <1>2, <1>3 DEF RemoveAt
<1>7. RemoveAt(s, i) \in Seq(T) /\ Len(RemoveAt(s, i)) = n - 1
  BY <1>1, <1>4, <1>5, <1>6
<1>8. ASSUME NEW j \in 1..(n - 1)
      PROVE  RemoveAt(s, i)[j] = IF j < i THEN s[j] ELSE s[j + 1]
  <2>1. CASE j < i
    BY <1>1, <1>4, <1>5, <1>6, <2>1
  <2>2. CASE j >= i
    <3>1. RemoveAt(s, i)[j] = back[j - (i - 1)]
      BY <1>1, <1>4, <1>5, <1>6, <2>2
    <3>2. j - (i - 1) \in 1..(n - i) /\ i + (j - (i - 1)) = j + 1
      BY <1>1, <2>2
    <3> QED BY <1>5, <2>2, <3>1, <3>2
  <2> QED BY <1>1, <2>1, <2>2
<1> QED BY <1>1, <1>7, <1>8

\* The invariant of the page: it has the keys that are held, in their order, and
\* the function can tell them apart.
PageInv ==
    /\ Comparison
    /\ held \subseteq Keys[compare.kind]
    /\ TellsApart(held)
    /\ Sorted(held)
    /\ \A k \in held : \E i \in 1..Len(page) : page[i] = k
    /\ edge \in BOOLEAN

LEMMA SameCompare ==
  ASSUME UNCHANGED compare
  PROVE  /\ Comparison' <=> Comparison
         /\ \A a, b : (Ordered(a, b)' <=> Ordered(a, b)) /\ bt_compare(a, b)' = bt_compare(a, b)
         /\ \A K : TellsApart(K)' <=> TellsApart(K)
<1>1. Comparison' <=> Comparison
  BY DEF Comparison
<1>2. ASSUME NEW a, NEW b PROVE InOrder(a, b)' <=> InOrder(a, b)
  BY DEF InOrder
<1>3. ASSUME NEW a, NEW b PROVE Ordered(a, b)' <=> Ordered(a, b)
  BY <1>2 DEF Ordered
<1>4. ASSUME NEW a, NEW b PROVE bt_compare(a, b)' = bt_compare(a, b)
  BY DEF bt_compare
<1>5. ASSUME NEW K PROVE TellsApart(K)' <=> TellsApart(K)
  BY DEF TellsApart
<1> QED BY <1>1, <1>3, <1>4, <1>5

LEMMA TellsLess ==
  ASSUME NEW L, NEW K, K \subseteq L, TellsApart(L)
  PROVE  TellsApart(K)
  BY DEF TellsApart

LEMMA KeysCompare ==
  ASSUME Comparison, NEW K, K \subseteq Keys[compare.kind], TellsApart(K)
  PROVE  Comparable(K)
  BY KindsAre, KeysAssumption DEF Comparable

LEMMA SortedMore ==
  ASSUME NEW K, Sorted(K), NEW L, K \subseteq L
  PROVE  Sorted(L)
<1>1. page \in Seq(L)
  BY DEF Sorted
<1> QED BY <1>1 DEF Sorted

\* Database::set( k, v ).
LEMMA PutKeepsOrder ==
  ASSUME Careful, PageInv, NEW k \in Keys[compare.kind], Put(k)
  PROVE  PageInv'
<1> DEFINE K == held \cup {k}
           s == InsertSearch(k)
<1>1. Comparison /\ K \subseteq Keys[compare.kind] /\ TellsApart(K) /\ Sorted(K)
  BY SortedMore DEF PageInv, Put
<1>2. Comparable(K)
  BY <1>1, KeysCompare
<1>3. Found(k, s)
  BY <1>1, <1>2, InsertFinds
<1>4. UNCHANGED compare /\ held' = K
  BY DEF Put
<1>5. Comparison' /\ held' \subseteq Keys[compare.kind]' /\ TellsApart(held)'
  BY <1>1, <1>4, SameCompare DEF Comparison, TellsApart
<1>6. edge' \in BOOLEAN
  BY DEF Put
<1>7. PICK n \in Nat : n = Len(page) /\ page \in Seq(held)
  BY DEF PageInv, Sorted
<1>8. CASE s.exact
  <2>1. PICK i \in 1..n : page[i] = k
    BY <1>3, <1>7, <1>8 DEF Found, Before
  <2>2. page' = page
    BY <1>8 DEF Put
  <2>3. k \in held /\ held' = held
    BY <1>4, <1>7, <2>1
  <2>4. Sorted(held)'
    BY <1>4, <2>2, <2>3, SameCompare DEF Sorted, PageInv
  <2> QED BY <1>5, <1>6, <2>2, <2>3, <2>4 DEF PageInv
<1>9. CASE ~s.exact
  <2>1. PICK i \in 1..(n + 1) :
           s = Before(i) /\ \A j \in 1..n : IF j < i THEN Ordered(page[j], k) ELSE Ordered(k, page[j])
    BY <1>3, <1>7, <1>9 DEF Found, Exact
  <2>2. page' = InsertAt(page, i, k)
    BY <1>9, <2>1 DEF Put, Before
  <2>3. /\ page' \in Seq(K) /\ Len(page') = n + 1
        /\ \A j \in 1..(n + 1) : page'[j] = IF j < i THEN page[j] ELSE IF j = i THEN k ELSE page[j - 1]
    <3>1. page \in Seq(K) /\ k \in K /\ i \in 1..(Len(page) + 1)
      BY <1>1, <1>7 DEF Sorted
    <3> HIDE DEF K
    <3>2. InsertAt(page, i, k) \in Seq(K) /\ Inserts(InsertAt(page, i, k), page, i, k)
      BY <3>1, InsertAtIs
    <3> QED BY <1>7, <2>2, <3>2 DEF Inserts
  <2>4. ASSUME NEW x \in 1..(n + 1), NEW y \in 1..(n + 1), x < y
        PROVE  Ordered(page'[x], page'[y])
    <3>1. \A u, v \in 1..n : u < v => Ordered(page[u], page[v])
      BY <1>7 DEF PageInv, Sorted
    <3>2. CASE y < i
      BY <2>3, <2>4, <3>1, <3>2
    <3>3. CASE y = i
      BY <2>1, <2>3, <2>4, <3>3
    <3>4. CASE y > i
      <4>1. page'[y] = page[y - 1] /\ y - 1 \in 1..n /\ ~(y - 1 < i)
        BY <2>3, <3>4
      <4>2. CASE x < i
        <5>1. page'[x] = page[x] /\ x \in 1..n /\ x < y - 1
          BY <2>3, <3>4, <4>2
        <5> QED BY <3>1, <4>1, <5>1
      <4>3. CASE x = i
        BY <2>1, <2>3, <4>1, <4>3
      <4>4. CASE x > i
        <5>1. page'[x] = page[x - 1] /\ x - 1 \in 1..n /\ x - 1 < y - 1
          BY <2>3, <2>4, <4>4
        <5> QED BY <3>1, <4>1, <5>1
      <4> QED BY <4>2, <4>3, <4>4
    <3> QED BY <3>2, <3>3, <3>4
  <2>5. Sorted(held)'
    BY <1>4, <2>3, <2>4, SameCompare DEF Sorted
  <2>6. ASSUME NEW h \in K PROVE \E j \in 1..(n + 1) : page'[j] = h
    <3>1. CASE h = k
      <4>1. i \in 1..(n + 1) /\ page'[i] = k
        BY <2>3
      <4> QED BY <3>1, <4>1
    <3>2. CASE h \in held
      <4>1. PICK j \in 1..n : page[j] = h
        BY <1>7, <3>2 DEF PageInv
      <4>2. CASE j < i
        BY <2>3, <4>1, <4>2
      <4>3. CASE j >= i
        <5>1. j + 1 \in 1..(n + 1) /\ ~(j + 1 < i) /\ j + 1 # i /\ (j + 1) - 1 = j
          BY <4>3
        <5> QED BY <2>3, <4>1, <5>1
      <4> QED BY <4>2, <4>3
    <3> QED BY <3>1, <3>2
  <2> QED BY <1>4, <1>5, <1>6, <2>3, <2>5, <2>6 DEF PageInv
<1> QED BY <1>8, <1>9

\* Database::erase( k ).
LEMMA DelKeepsOrder ==
  ASSUME Careful, PageInv, NEW k \in Keys[compare.kind], Del(k)
  PROVE  PageInv'
<1> DEFINE K == held \cup {k}
           s == bam_search(k)
<1>1. Comparison /\ K \subseteq Keys[compare.kind] /\ TellsApart(K) /\ Sorted(K)
  BY SortedMore DEF PageInv, Del
<1>2. Comparable(K)
  BY <1>1, KeysCompare
<1>3. Found(k, s) /\ s.exact
  BY <1>1, <1>2, SearchFinds DEF Del
<1>4. UNCHANGED <<compare, edge>> /\ held' = {h \in held : bt_compare(h, k) # 0}
  BY DEF Del
<1>5. held' = held \ {k}
  <2>1. \A h \in held : Tells(bt_compare(h, k), h, k, Ordered(h, k), Ordered(k, h))
    BY <1>1, <1>2, CompareTells
  <2> QED BY <1>4, <2>1 DEF Tells
<1>6. Comparison' /\ held' \subseteq Keys[compare.kind]' /\ TellsApart(held)' /\ edge' \in BOOLEAN
  <2>1. TellsApart(held')
    BY <1>1, <1>5, TellsLess
  <2>2. TellsApart(held)'
    BY <1>4, <2>1, SameCompare DEF TellsApart
  <2> QED BY <1>1, <1>4, <1>5, <2>2, SameCompare DEF PageInv
<1>7. PICK n \in Nat : n = Len(page) /\ page \in Seq(held)
  BY DEF PageInv, Sorted
<1>8. \A u, v \in 1..n : u < v => Ordered(page[u], page[v])
  BY <1>7 DEF PageInv, Sorted
<1>9. PICK i \in 1..n : s = Exact(i) /\ page[i] = k
  BY <1>3, <1>7 DEF Found, Before
<1>10. page' = RemoveAt(page, i)
  BY <1>9 DEF Del, Exact
<1>11. /\ page' \in Seq(held) /\ Len(page') = n - 1
       /\ \A j \in 1..(n - 1) : page'[j] = IF j < i THEN page[j] ELSE page[j + 1]
  BY <1>7, <1>10, RemoveAtIs
<1>12. ASSUME NEW j \in 1..(n - 1) PROVE page'[j] \in held'
  <2>1. \A x \in 1..n : page[x] \in K
    BY <1>7
  <2>2. \A x, y \in 1..n : Tells(bt_compare(page[x], page[y]), page[x], page[y],
                                 Ordered(page[x], page[y]), Ordered(page[y], page[x]))
    BY <1>1, <1>2, <2>1, CompareTells
  <2>3. \A x \in 1..n : x # i => page[x] # k
    <3> SUFFICES ASSUME NEW x \in 1..n, x # i, page[x] = page[i] PROVE FALSE
      BY <1>9
    <3>1. Ordered(page[x], page[i]) \/ Ordered(page[i], page[x])
      BY <1>8
    <3> QED BY <2>2, <3>1 DEF Tells
  <2>4. CASE j < i
    BY <1>5, <1>7, <1>11, <2>3, <2>4
  <2>5. CASE j >= i
    BY <1>5, <1>7, <1>11, <2>3, <2>5
  <2> QED BY <2>4, <2>5
<1>13. page' \in Seq(held')
  BY <1>11, <1>12
<1>14. ASSUME NEW x \in 1..(n - 1), NEW y \in 1..(n - 1), x < y
       PROVE  Ordered(page'[x], page'[y])
  <2>1. CASE y < i
    BY <1>8, <1>11, <1>14, <2>1
  <2>2. CASE x < i /\ y >= i
    BY <1>8, <1>11, <1>14, <2>2
  <2>3. CASE x >= i
    BY <1>8, <1>11, <1>14, <2>3
  <2> QED BY <2>1, <2>2, <2>3
<1>15. Sorted(held)'
  BY <1>4, <1>11, <1>13, <1>14, SameCompare DEF Sorted
<1>16. ASSUME NEW h \in held' PROVE \E j \in 1..(n - 1) : page'[j] = h
  <2>1. PICK j \in 1..n : page[j] = h /\ j # i
    BY <1>5, <1>7, <1>9, <1>16 DEF PageInv
  <2>2. CASE j < i
    BY <1>11, <2>1, <2>2
  <2>3. CASE j > i
    <3>1. j - 1 \in 1..(n - 1) /\ ~(j - 1 < i) /\ (j - 1) + 1 = j
      BY <2>3
    <3> QED BY <1>11, <2>1, <3>1
  <2> QED BY <2>1, <2>2, <2>3
<1> QED BY <1>6, <1>11, <1>15, <1>16 DEF PageInv

-----------------------------------------------------------------------------
(* What the look-ups rely on. *)

\* The keys a partial look-up may search for.
Searched == {k \in Seq(Byte) : Len(k) < Half}

LEMMA DefaultCompares ==
  ASSUME PageInv, compare.kind = "default"
  PROVE  /\ KeyOf(compare.kind) = Searched /\ held \subseteq Searched
         /\ Comparable(Searched) /\ Sorted(Searched)
         /\ \A a, b \in Searched : Tells(bt_compare(a, b), a, b, Ordered(a, b), Ordered(b, a))
         /\ \A a, b, c \in Searched : Ordered(a, b) /\ Ordered(b, c) => Ordered(a, c)
<1>1. KeyOf(compare.kind) = Searched
  BY KindsAre DEF Searched, PageInv
<1>2. held \subseteq Searched
  BY <1>1, KindsAre, KeysAssumption DEF PageInv
<1>3. Comparable(Searched)
  BY <1>1 DEF Comparable, TellsApart
<1>4. Sorted(Searched)
  BY <1>2, SortedMore DEF PageInv
<1>5. \A a, b \in Searched : Tells(bt_compare(a, b), a, b, Ordered(a, b), Ordered(b, a))
  BY <1>3, CompareTells DEF PageInv
<1>6. \A a, b, c \in Searched : Ordered(a, b) /\ Ordered(b, c) => Ordered(a, c)
  BY <1>1, OrderedTransitive DEF PageInv
<1> QED BY <1>1, <1>2, <1>3, <1>4, <1>5, <1>6

NotFound == [rc |-> "DB_NOTFOUND"]
Fits(r, ulen) == [rc |-> IF Len(r) > ulen THEN "DB_BUFFER_SMALL" ELSE "ok", key |-> r]

\* DB_SET_RANGE gives the first record from k on, and who searches for that one
\* instead finds the same records before and after it.
LEMMA FirstFromIs ==
  ASSUME PageInv, compare.kind = "default", NEW k \in Searched
  PROVE  \/ /\ FirstFrom(k) = AtEnd
            /\ \A ulen : SetRange(k, ulen) = NotFound
            /\ \A x \in held : ~(bt_compare(x, k) >= 0)
         \/ \E r \in held :
            /\ FirstFrom(k) = On(r)
            /\ \A ulen : SetRange(k, ulen) = Fits(r, ulen)
            /\ \A x \in held : bt_compare(x, k) >= 0 <=> bt_compare(x, r) >= 0
<1>1. PICK n \in Nat : n = Len(page) /\ page \in Seq(held)
  BY DEF PageInv, Sorted
<1>2. /\ \A i \in 1..n : page[i] \in Searched /\ page[i] \in held
      /\ \A i, j \in 1..n : i < j => Ordered(page[i], page[j])
      /\ DOMAIN page = 1..n
  BY <1>1, DefaultCompares DEF Sorted
<1>3. \A a, b \in Searched : Tells(bt_compare(a, b), a, b, Ordered(a, b), Ordered(b, a))
  BY DefaultCompares
<1>4. Found(k, bam_search(k))
  BY DefaultCompares, SearchFinds DEF PageInv
<1>5. PICK i \in 1..(n + 1) :
         /\ bam_search(k).indx = i
         /\ \A j \in 1..n : bt_compare(page[j], k) >= 0 <=> j >= i
  <2>1. CASE \E j \in 1..n : bam_search(k) = Exact(j) /\ page[j] = k
    <3>1. PICK i \in 1..n : bam_search(k) = Exact(i) /\ page[i] = k
      BY <2>1
    <3>2. ASSUME NEW j \in 1..n PROVE bt_compare(page[j], k) >= 0 <=> j >= i
      <4>1. Tells(bt_compare(page[j], k), page[j], k, Ordered(page[j], k), Ordered(k, page[j]))
        BY <1>2, <1>3
      <4>2. CASE j < i
        BY <1>2, <3>1, <4>1, <4>2 DEF Tells
      <4>3. CASE j = i
        BY <3>1, <4>1, <4>3 DEF Tells
      <4>4. CASE j > i
        BY <1>2, <3>1, <4>1, <4>4 DEF Tells
      <4> QED BY <4>2, <4>3, <4>4
    <3>3. i \in 1..(n + 1) /\ bam_search(k).indx = i
      BY <3>1 DEF Exact
    <3> QED BY <3>2, <3>3
  <2>2. CASE ~ \E j \in 1..n : bam_search(k) = Exact(j) /\ page[j] = k
    <3>1. PICK i \in 1..(n + 1) :
             /\ bam_search(k) = Before(i)
             /\ \A j \in 1..n : IF j < i THEN Ordered(page[j], k) ELSE Ordered(k, page[j])
      BY <1>1, <1>4, <2>2 DEF Found
    <3>2. ASSUME NEW j \in 1..n PROVE bt_compare(page[j], k) >= 0 <=> j >= i
      <4>1. Tells(bt_compare(page[j], k), page[j], k, Ordered(page[j], k), Ordered(k, page[j]))
        BY <1>2, <1>3
      <4>2. CASE j < i
        BY <3>1, <4>1, <4>2 DEF Tells
      <4>3. CASE j >= i
        BY <3>1, <4>1, <4>3 DEF Tells
      <4> QED BY <4>2, <4>3
    <3>3. bam_search(k).indx = i
      BY <3>1 DEF Before
    <3> QED BY <3>2, <3>3
  <2> QED BY <2>1, <2>2
<1>6. PICK from : from = {j \in DOMAIN page : bt_compare(page[j], k) >= 0}
  OBVIOUS
<1>7. from = {j \in 1..n : j >= i}
  BY <1>2, <1>5, <1>6
<1>8. FirstFrom(k) = IF from = {} THEN AtEnd ELSE On(page[Min(from)])
  BY <1>6 DEF FirstFrom
<1>9. \A ulen : SetRange(k, ulen) = IF i > n THEN NotFound ELSE Fits(page[i], ulen)
  BY <1>1, <1>5 DEF SetRange, NotFound, Fits
<1>10. \A x \in held : \E j \in 1..n : page[j] = x
  BY <1>1 DEF PageInv
<1>11. CASE i > n
  <2>1. from = {}
    BY <1>7, <1>11
  <2>2. \A x \in held : ~(bt_compare(x, k) >= 0)
    BY <1>5, <1>10, <1>11
  <2> QED BY <1>8, <1>9, <1>11, <2>1, <2>2
<1>12. CASE ~(i > n)
  <2>1. i \in 1..n
    BY <1>12
  <2>2. Min(from) = i
    <3>1. from \subseteq Int /\ i \in from /\ \A j \in from : i =< j
      BY <1>7, <2>1
    <3> QED BY <3>1, MinIs
  <2>3. FirstFrom(k) = On(page[i])
    BY <1>7, <1>8, <2>1, <2>2
  <2>4. ASSUME NEW x \in held PROVE bt_compare(x, k) >= 0 <=> bt_compare(x, page[i]) >= 0
    <3>1. PICK j \in 1..n : page[j] = x
      BY <1>10
    <3>2. Tells(bt_compare(x, page[i]), x, page[i], Ordered(x, page[i]), Ordered(page[i], x))
      BY <1>2, <1>3, <2>1, <3>1
    <3>3. bt_compare(x, page[i]) >= 0 <=> j >= i
      <4>1. CASE j < i
        BY <1>2, <2>1, <3>1, <3>2, <4>1 DEF Tells
      <4>2. CASE j = i
        BY <3>1, <3>2, <4>2 DEF Tells
      <4>3. CASE j > i
        BY <1>2, <2>1, <3>1, <3>2, <4>3 DEF Tells
      <4> QED BY <4>1, <4>2, <4>3
    <3> QED BY <1>5, <3>1, <3>3
  <2> QED BY <1>2, <1>9, <1>12, <2>1, <2>3, <2>4
<1> QED BY <1>11, <1>12

LEMMA OverwrittenIs ==
  ASSUME NEW buf \in Seq(Byte), NEW key \in Seq(Byte), Len(key) =< Len(buf)
  PROVE  /\ Overwritten(buf, key) \in Seq(Byte) /\ Len(Overwritten(buf, key)) = Len(buf)
         /\ key = buf => Overwritten(buf, key) = buf
<1>1. PICK rest : rest = SubSeq(buf, Len(key) + 1, Len(buf))
  OBVIOUS
<1>2. rest \in Seq(Byte) /\ Len(rest) = Len(buf) - Len(key)
  BY <1>1
<1>3. Overwritten(buf, key) = key \o rest
  BY <1>1 DEF Overwritten
<1>4. key \o rest \in Seq(Byte) /\ Len(key \o rest) = Len(key) + Len(rest)
  BY <1>2, ConcatProperties
<1>5. ASSUME key = buf PROVE key \o rest = buf
  <2>1. rest = <<>>
    BY <1>2, <1>5, EmptySeq
  <2> QED BY <1>5, <2>1
<1> QED BY <1>2, <1>3, <1>4, <1>5

LEMMA AdvanceIs ==
  ASSUME NEW k \in Seq(Byte)
  PROVE  /\ AdvanceFunctorBytes(k) \in Seq(Byte) /\ Len(AdvanceFunctorBytes(k)) =< Len(k) + 1
         /\ Len(k) >= 2 /\ k[Len(k)] < MaxByte =>
               AdvanceFunctorBytes(k) = [k EXCEPT ![Len(k)] = @ + 1]
<1>1. 1 \in Byte /\ Len(k) \in Nat
  BY HalfFacts DEF Byte
<1>2. PICK below : below = {i \in 2..Len(k) : k[i] < MaxByte}
  OBVIOUS
<1>3. AdvanceFunctorBytes(k) = CASE k = <<>> -> <<1>>
                                 [] k # <<>> /\ below # {} -> [k EXCEPT ![Max(below)] = @ + 1]
                                 [] OTHER -> Append(k, 1)
  BY <1>2 DEF AdvanceFunctorBytes
<1>4. CASE k = <<>>
  BY <1>1, <1>3, <1>4
<1>5. CASE k # <<>> /\ below # {}
  <2>1. PICK m \in below : \A j \in below : m >= j
    <3>1. below \subseteq 0..Len(k)
      BY <1>2
    <3> QED BY <1>1, <1>5, <3>1, GreatestNat
  <2>2. Max(below) \in below /\ \A j \in below : Max(below) >= j
    BY <2>1, Zenon DEF Max
  <2>3. PICK i \in 2..Len(k) : i = Max(below) /\ k[i] < MaxByte
    BY <1>2, <2>2
  <2>4. AdvanceFunctorBytes(k) = [k EXCEPT ![i] = k[i] + 1]
    BY <1>3, <1>5, <2>3
  <2>5. k[i] + 1 \in Byte
    BY <2>3, HalfFacts DEF Byte
  <2>6. [k EXCEPT ![i] = k[i] + 1] \in Seq(Byte) /\ Len([k EXCEPT ![i] = k[i] + 1]) = Len(k)
    BY <2>3, <2>5
  <2>7. ASSUME Len(k) >= 2, k[Len(k)] < MaxByte PROVE i = Len(k)
    <3>1. Len(k) \in below
      BY <1>1, <1>2, <2>7
    <3> QED BY <2>2, <2>3, <3>1
  <2>8. Len(AdvanceFunctorBytes(k)) =< Len(k) + 1
    BY <1>1, <2>4, <2>6
  <2> QED BY <2>4, <2>6, <2>7, <2>8
<1>6. CASE k # <<>> /\ below = {}
  <2>1. AdvanceFunctorBytes(k) = Append(k, 1)
    BY <1>3, <1>6
  <2>2. ~(Len(k) >= 2 /\ k[Len(k)] < MaxByte)
    BY <1>1, <1>2, <1>6
  <2> QED BY <1>1, <2>1, <2>2
<1> QED BY <1>4, <1>5, <1>6

\* The keys that begin with k are those from k on and before k with its last
\* byte advanced.
LEMMA PrefixIsRange ==
  ASSUME NEW k \in Seq(Byte), NEW n \in Nat \ {0}, Len(k) = n, NEW r \in Seq(Byte),
         NEW next \in Seq(Byte), Len(next) = n, next[n] = k[n] + 1,
         \A i \in 1..(n - 1) : next[i] = k[i]
  PROVE  IsPrefix(k, r) <=> ~ByBytes(r, k, Unsigned, TRUE) /\ ByBytes(r, next, Unsigned, TRUE)
<1>1. n \in 1..Len(k) /\ n = Len(k) /\ k[n] \in Byte /\ next[n] \in Byte
  OBVIOUS
<1>2. Len(next) = n /\ next[n] = k[n] + 1 /\ \A i \in 1..(n - 1) : next[i] = k[i]
  OBVIOUS
<1>3. /\ \A i \in Common(r, k) : i \in 1..Len(r) /\ i \in 1..n /\ r[i] \in Byte /\ k[i] \in Byte
      /\ \A i \in 1..n : i \in 1..Len(r) => i \in Common(r, k) /\ i \in Common(r, next)
      /\ \A i \in Common(r, next) : i \in 1..Len(r) /\ i \in 1..n /\ next[i] \in Byte
  BY <1>1, <1>2, CommonIs
<1>4. \A c \in Byte : Unsigned[c] = c /\ c \in Int
  BY DEF Unsigned, Byte
<1>5. Unsigned \in Values
  BY ValuesAre
<1>6. ASSUME IsPrefix(k, r) PROVE ~ByBytes(r, k, Unsigned, TRUE) /\ ByBytes(r, next, Unsigned, TRUE)
  <2>1. n =< Len(r) /\ \A i \in 1..n : k[i] = r[i]
    BY <1>1, <1>6, PrefixIs
  <2>2. ~ByBytes(r, k, Unsigned, TRUE)
    <3>1. \A i \in Common(r, k) : r[i] = k[i]
      BY <1>3, <2>1
    <3>2. ~(Len(r) < Len(k))
      BY <1>1, <2>1
    <3> QED BY <1>5, <3>1, <3>2, ByBytesIs
  <2>3. n \in Common(r, next) /\ r[n] = k[n] /\ k[n] \in Byte /\ next[n] \in Byte
    <3>1. n \in 1..Len(r) /\ n \in 1..n
      BY <2>1
    <3> QED BY <1>1, <1>3, <2>1, <3>1
  <2>4. Unsigned[r[n]] < Unsigned[next[n]] /\ r[n] # next[n]
    BY <1>2, <1>4, <2>3
  <2>5. Parts(r, next, n)
    BY <1>2, <2>1, <2>3, <2>4 DEF Parts
  <2> QED BY <2>2, <2>3, <2>4, <2>5 DEF ByBytes
<1>7. ASSUME ~ByBytes(r, k, Unsigned, TRUE), ByBytes(r, next, Unsigned, TRUE) PROVE IsPrefix(k, r)
  <2>1. CASE Differ(r, k) = {}
    <3>1. \A i \in Common(r, k) : r[i] = k[i]
      BY <2>1 DEF Differ
    <3>2. ~(Len(r) < Len(k))
      BY <1>5, <1>7, <3>1, ByBytesIs
    <3>3. n =< Len(r) /\ \A i \in 1..n : k[i] = r[i]
      BY <1>1, <1>3, <3>1, <3>2
    <3> QED BY <1>1, <3>3, PrefixIs
  <2>2. CASE Differ(r, k) # {}
    <3>1. PICK i \in Common(r, k) : Parts(r, k, i)
      BY <2>2, FirstPart
    <3>2. /\ i \in 1..Len(r) /\ i \in 1..n /\ r[i] \in Byte /\ k[i] \in Byte /\ r[i] # k[i]
          /\ \A j \in 1..(i - 1) : r[j] = k[j]
      BY <1>3, <3>1 DEF Parts
    <3>3. ~(Unsigned[r[i]] < Unsigned[k[i]])
      BY <1>5, <1>7, <3>1, ByBytesIs
    <3>4. r[i] > k[i]
      BY <1>4, <3>2, <3>3
    <3>5. CASE r[i] # next[i]
      <4>1. Parts(r, next, i)
        <5>1. i \in Common(r, next) /\ \A j \in 1..(i - 1) : j \in 1..(n - 1)
          BY <1>3, <3>2
        <5>2. \A j \in 1..(i - 1) : r[j] = next[j]
          BY <1>2, <3>2, <5>1
        <5> QED BY <3>5, <5>1, <5>2 DEF Parts
      <4>2. Unsigned[r[i]] < Unsigned[next[i]]
        BY <1>5, <1>7, <4>1, ByBytesIs
      <4>3. r[i] < next[i]
        BY <1>3, <1>4, <3>2, <4>2
      <4> QED BY <1>2, <1>4, <3>2, <3>4, <4>3
    <3>6. CASE r[i] = next[i]
      <4>1. i = n
        BY <1>2, <3>2, <3>6
      <4>2. ASSUME NEW j \in Common(r, next) PROVE r[j] = next[j]
        <5>1. j \in 1..n
          BY <1>3
        <5>2. CASE j = n
          BY <3>6, <4>1, <5>2
        <5>3. CASE j # n
          <6>1. j \in 1..(n - 1) /\ j \in 1..(i - 1)
            BY <4>1, <5>1, <5>3
          <6> QED BY <1>2, <3>2, <6>1
        <5> QED BY <5>2, <5>3
      <4>3. Len(r) < Len(next)
        BY <1>5, <1>7, <4>2, ByBytesIs
      <4> QED BY <1>2, <3>2, <4>1, <4>3
    <3> QED BY <3>5, <3>6
  <2> QED BY <2>1, <2>2
<1> QED BY <1>6, <1>7

-----------------------------------------------------------------------------
(* The look-ups. *)

LookType ==
    [phase : {"none", "sized", "between", "done"}, for : {"find", "lower", "upper"},
     asked : Seq(Byte), buf : Seq(Byte), ulen : Nat, at : Cursor, lower : Cursor,
     overwritten : BOOLEAN, disturbed : BOOLEAN]

\* The key the look-up l should find.
Goal(l) == IF l.for = "upper" THEN AdvanceFunctorBytes(l.asked) ELSE l.asked

\* The first search has left what the second one needs: the length of the record
\* it found, or an iterator on the goal itself, which nobody may then change.
Measured(l) ==
    \/ /\ l.at = Nowhere
       /\ ~l.disturbed => FirstFrom(Goal(l)) # AtEnd /\ Len(FirstFrom(Goal(l)).key) = l.ulen
    \/ /\ l.at = On(Goal(l)) /\ l.at = FirstFrom(Goal(l))
       /\ l.ulen = Len(Goal(l))

LookOk(l) ==
    /\ l \in LookType
    /\ l.phase # "none" => compare.kind = "default" /\ l.asked \in Partial
    /\ l.phase = "sized" => l.buf \in Searched /\ (l.for = "lower" => Len(l.buf) = Len(l.asked))
    /\ l.phase = "between" => l.for = "lower" /\ Len(l.buf) = Len(l.asked)
    /\ l.phase = "sized" /\ ~l.overwritten => l.buf = Goal(l) /\ Measured(l)
    /\ l.phase = "between" /\ ~l.overwritten => l.buf = l.asked
    /\ ~l.overwritten /\ ~l.disturbed
          /\ (l.phase = "between" \/ (l.for = "upper" /\ l.phase \in {"sized", "done"}))
       => l.lower = FirstFrom(l.asked)
    /\ ~l.overwritten /\ ~l.disturbed /\ l.for = "upper" /\ l.phase = "done"
       => l.at = FirstFrom(Goal(l))

IInv == PageInv /\ LookOk(look)

LEMMA CursorsDiffer ==
  /\ Nowhere # AtEnd /\ Nowhere.on = "nowhere" /\ AtEnd.on = "end"
  /\ \A k : On(k).on = "record" /\ On(k).key = k /\ On(k) # AtEnd /\ On(k) # Nowhere
  /\ \A k, r : On(k) = On(r) => k = r
<1>1. Nowhere.on = "nowhere" /\ AtEnd.on = "end"
  BY DEF Nowhere, AtEnd
<1>2. \A k : On(k).on = "record" /\ On(k).key = k
  BY DEF On
<1> QED BY <1>1, <1>2

LEMMA IdleOk == LookOk(Idle)
<1>1. Idle \in LookType
  BY DEF Idle, LookType, Cursor
<1>2. Idle.phase = "none" /\ Idle.for = "find"
  BY DEF Idle
<1> QED BY <1>1, <1>2 DEF LookOk

LEMMA PartialIs ==
  ASSUME NEW k \in Partial
  PROVE  /\ k \in Searched /\ k \in Seq(Byte)
         /\ \A b \in Seq(Byte) : Len(b) = Len(k) =>
               /\ b \in Searched /\ AdvanceFunctorBytes(b) \in Searched
<1>1. k \in Seq(Byte) /\ Len(k) + 1 < Half
  BY KeysAssumption
<1>2. ASSUME NEW b \in Seq(Byte), Len(b) = Len(k)
      PROVE  b \in Searched /\ AdvanceFunctorBytes(b) \in Searched
  <2>1. AdvanceFunctorBytes(b) \in Seq(Byte) /\ Len(AdvanceFunctorBytes(b)) =< Len(b) + 1
    BY AdvanceIs
  <2>2. Len(AdvanceFunctorBytes(b)) \in Nat /\ Len(b) \in Nat
    BY <2>1
  <2> QED BY <1>1, <1>2, <2>1, <2>2, HalfFacts DEF Searched
<1> QED BY <1>1, <1>2

\* The first search of a look-up l for the key k.
LEMMA FirstSearchOk ==
  ASSUME PageInv, compare.kind = "default", NEW l \in LookType, NEW k \in Searched,
         l.asked \in Partial, l.phase \in {"none", "between"},
         ~l.overwritten => k = Goal(l),
         l.for = "lower" => Len(k) = Len(l.asked),
         l.for = "upper" /\ ~l.overwritten /\ ~l.disturbed => l.lower = FirstFrom(l.asked)
  PROVE  LookOk(FirstSearch(k, l))
<1>0. k \in Seq(Byte) /\ Len(k) \in Nat
  BY DEF Searched
<1>1. CASE FirstFrom(k) = AtEnd
  <2>1. SetRange(k, Len(k)) = NotFound
    BY <1>1, FirstFromIs, CursorsDiffer
  <2>2. FirstSearch(k, l) = Bound([l EXCEPT !.buf = k], AtEnd)
    BY <2>1 DEF FirstSearch, NotFound
  <2>3. AtEnd \in Cursor /\ Nowhere \in Cursor
    BY DEF Cursor
  <2>4. CASE l.for = "lower"
    <3> DEFINE m == [l EXCEPT !.buf = k, !.lower = AtEnd, !.at = Nowhere, !.phase = "between"]
    <3>1. FirstSearch(k, l) = m
      BY <2>2, <2>4 DEF Bound, LookType
    <3>2. m \in LookType
      BY <1>0, <2>3 DEF LookType
    <3>3. /\ m.phase = "between" /\ m.buf = k /\ m.lower = AtEnd /\ m.for = "lower"
          /\ m.asked = l.asked /\ m.overwritten = l.overwritten /\ m.disturbed = l.disturbed
      BY <2>4 DEF LookType
    <3> HIDE DEF m
    <3>4. ~l.overwritten => k = l.asked
      BY <2>4 DEF Goal
    <3>5. LookOk(m)
      BY <1>1, <2>4, <3>2, <3>3, <3>4 DEF LookOk
    <3> QED BY <3>1, <3>5
  <2>5. CASE l.for # "lower"
    <3> DEFINE m == [l EXCEPT !.buf = k, !.at = AtEnd, !.phase = "done"]
    <3>1. FirstSearch(k, l) = m
      BY <2>2, <2>5 DEF Bound, LookType
    <3>2. m \in LookType
      BY <1>0, <2>3 DEF LookType
    <3>3. /\ m.phase = "done" /\ m.buf = k /\ m.at = AtEnd /\ m.for = l.for /\ m.lower = l.lower
          /\ m.asked = l.asked /\ m.overwritten = l.overwritten /\ m.disturbed = l.disturbed
      BY DEF LookType
    <3>4. Goal(m) = Goal(l)
      BY <3>3 DEF Goal
    <3> HIDE DEF m
    <3>5. LookOk(m)
      BY <1>1, <2>5, <3>2, <3>3, <3>4 DEF LookOk
    <3> QED BY <3>1, <3>5
  <2> QED BY <2>4, <2>5
<1>2. CASE FirstFrom(k) # AtEnd
  <2>1. PICK r \in held : FirstFrom(k) = On(r) /\ SetRange(k, Len(k)) = Fits(r, Len(k))
    BY <1>2, FirstFromIs
  <2>2. r \in Searched /\ On(r) \in Cursor
    BY DefaultCompares DEF PageInv, Cursor
  <2>3. r \in Seq(Byte) /\ Len(r) \in Nat
    BY <2>2 DEF Searched
  <2>4. CASE Len(r) > Len(k)
    <3>1. FirstSearch(k, l) = [l EXCEPT !.phase = "sized", !.ulen = Len(r), !.buf = k, !.at = Nowhere]
      BY <2>1, <2>4 DEF FirstSearch, Fits
    <3> DEFINE m == [l EXCEPT !.phase = "sized", !.ulen = Len(r), !.buf = k, !.at = Nowhere]
    <3>2. m \in LookType
      BY <1>0, <2>3 DEF LookType, Cursor
    <3>3. /\ m.phase = "sized" /\ m.buf = k /\ m.ulen = Len(r) /\ m.at = Nowhere /\ m.for = l.for
          /\ m.asked = l.asked /\ m.overwritten = l.overwritten /\ m.disturbed = l.disturbed
          /\ m.lower = l.lower
      BY DEF LookType
    <3>4. Goal(m) = Goal(l)
      BY <3>3 DEF Goal
    <3> HIDE DEF m
    <3>5. ~m.overwritten => m.buf = Goal(m) /\ Measured(m)
      BY <1>2, <2>1, <3>3, <3>4, CursorsDiffer DEF Measured
    <3>6. LookOk(m)
      BY <3>2, <3>3, <3>5 DEF LookOk
    <3> QED BY <3>1, <3>6 DEF m
  <2>5. CASE ~(Len(r) > Len(k))
    <3> DEFINE m == [l EXCEPT !.phase = "sized", !.ulen = Len(r), !.buf = Overwritten(k, r),
                              !.at = On(r), !.overwritten = l.overwritten \/ r # k]
    <3>1. FirstSearch(k, l) = m
      <4> DEFINE found == [l EXCEPT !.phase = "sized", !.ulen = Len(r), !.buf = k, !.at = Nowhere]
                 R == SetRange(k, Len(k))
      <4>1. R = [rc |-> "ok", key |-> r]
        BY <2>1, <2>5 DEF Fits
      <4>2. R.rc = "ok" /\ R.key = r
        BY <4>1
      <4>3. FirstSearch(k, l) = [found EXCEPT !.buf = Overwritten(k, r), !.at = On(r),
                                              !.overwritten = @ \/ r # k]
        BY <4>2 DEF FirstSearch
      <4>4. found.overwritten = l.overwritten
        BY DEF LookType
      <4> QED BY <4>3, <4>4 DEF LookType
    <3>2. /\ Overwritten(k, r) \in Seq(Byte) /\ Len(Overwritten(k, r)) = Len(k)
          /\ r = k => Overwritten(k, r) = k
      BY <1>0, <2>3, <2>5, OverwrittenIs
    <3>3. m \in LookType
      BY <2>2, <2>3, <3>2 DEF LookType
    <3>4. /\ m.phase = "sized" /\ m.buf = Overwritten(k, r) /\ m.ulen = Len(r) /\ m.at = On(r)
          /\ m.for = l.for /\ m.asked = l.asked /\ m.disturbed = l.disturbed /\ m.lower = l.lower
          /\ m.overwritten <=> l.overwritten \/ r # k
      BY DEF LookType
    <3>5. Goal(m) = Goal(l)
      BY <3>4 DEF Goal
    <3> HIDE DEF m
    <3>6. Overwritten(k, r) \in Searched
      BY <3>2 DEF Searched
    <3>7. ~m.overwritten => m.buf = Goal(m) /\ Measured(m)
      BY <2>1, <3>2, <3>4, <3>5 DEF Measured
    <3>8. LookOk(m)
      BY <3>2, <3>3, <3>4, <3>6, <3>7 DEF LookOk
    <3> QED BY <3>1, <3>8
  <2> QED BY <2>4, <2>5, <2>3, <1>0
<1> QED BY <1>1, <1>2

\* What the second search comes to, when the partial key is still there.
LEMMA SecondSearchLands ==
  ASSUME PageInv, LookOk(look), SecondSearch
  PROVE  \E a \in Cursor :
            /\ look' = Bound(look, a)
            /\ ~look.overwritten =>
                 \/ a = FirstFrom(Goal(look))
                 \/ /\ a = Nowhere /\ look.disturbed /\ FirstFrom(Goal(look)) # AtEnd
                    /\ Len(FirstFrom(Goal(look)).key) > look.ulen
<1>1. /\ look.phase = "sized" /\ compare.kind = "default" /\ look.buf \in Searched
      /\ look \in LookType
      /\ ~look.overwritten => look.buf = Goal(look) /\ Measured(look)
  BY DEF LookOk, SecondSearch
<1> DEFINE r == SetRange(look.buf, look.ulen)
           a == CASE r.rc = "DB_NOTFOUND" -> AtEnd
                  [] r.rc = "DB_BUFFER_SMALL" -> look.at
                  [] r.rc = "ok" -> On(r.key)
<1>2. look' = Bound(look, a)
  BY DEF SecondSearch
<1>3. look.ulen \in Nat /\ look.at \in Cursor
  BY <1>1 DEF LookType
<1>4. CASE FirstFrom(look.buf) = AtEnd
  <2>1. r = NotFound
    BY <1>1, <1>4, FirstFromIs, CursorsDiffer
  <2>2. a = AtEnd /\ AtEnd \in Cursor
    BY <2>1 DEF NotFound, Cursor
  <2> HIDE DEF a
  <2> QED BY <1>1, <1>2, <1>4, <2>2
<1>5. CASE FirstFrom(look.buf) # AtEnd
  <2>1. PICK key \in held : FirstFrom(look.buf) = On(key) /\ r = Fits(key, look.ulen)
    BY <1>1, <1>5, FirstFromIs
  <2>2. key \in Searched /\ On(key) \in Cursor
    BY <1>1, DefaultCompares DEF PageInv, Cursor
  <2>3. Len(key) \in Nat
    BY <2>2 DEF Searched
  <2>4. CASE Len(key) > look.ulen
    <3>1. a = look.at
      BY <2>1, <2>4 DEF Fits
    <3> HIDE DEF a
    <3>2. ASSUME ~look.overwritten
          PROVE  /\ a = Nowhere /\ look.disturbed /\ FirstFrom(Goal(look)) # AtEnd
                 /\ Len(FirstFrom(Goal(look)).key) > look.ulen
      <4>1. Goal(look) = look.buf /\ Measured(look)
        BY <1>1, <3>2
      <4>2. FirstFrom(Goal(look)) # AtEnd /\ FirstFrom(Goal(look)).key = key
        BY <1>5, <2>1, <4>1, CursorsDiffer
      <4>3. look.at # On(Goal(look)) \/ look.at # FirstFrom(Goal(look)) \/ look.ulen # Len(Goal(look))
        <5> SUFFICES ASSUME look.at = On(Goal(look)), look.at = FirstFrom(Goal(look)),
                            look.ulen = Len(Goal(look))
                     PROVE  FALSE
          OBVIOUS
        <5>1. key = Goal(look)
          BY <2>1, <4>1, CursorsDiffer
        <5> QED BY <1>3, <2>4, <5>1
      <4>4. look.at = Nowhere /\ (~look.disturbed => Len(FirstFrom(Goal(look)).key) = look.ulen)
        BY <4>1, <4>3 DEF Measured
      <4>5. look.disturbed
        BY <1>3, <2>4, <4>2, <4>4
      <4> QED BY <2>4, <3>1, <4>2, <4>4, <4>5
    <3> QED BY <1>2, <1>3, <3>1, <3>2
  <2>5. CASE ~(Len(key) > look.ulen)
    <3>1. a = On(key)
      BY <2>1, <2>5 DEF Fits
    <3> HIDE DEF a
    <3> QED BY <1>1, <1>2, <2>1, <2>2, <3>1
  <2> QED BY <2>4, <2>5
<1> QED BY <1>4, <1>5

\* The second search.
LEMMA SecondSearchOk ==
  ASSUME PageInv, LookOk(look), SecondSearch
  PROVE  LookOk(look')
<1>1. PICK a \in Cursor :
         /\ look' = Bound(look, a)
         /\ ~look.overwritten =>
              \/ a = FirstFrom(Goal(look))
              \/ /\ a = Nowhere /\ look.disturbed /\ FirstFrom(Goal(look)) # AtEnd
                 /\ Len(FirstFrom(Goal(look)).key) > look.ulen
  BY SecondSearchLands
<1>2. look.phase = "sized" /\ look \in LookType
  BY DEF SecondSearch, LookOk
<1>3. ~look.overwritten /\ ~look.disturbed => a = FirstFrom(Goal(look))
  BY <1>1
<1>4. CASE look.for = "lower"
  <2> DEFINE m == [look EXCEPT !.lower = a, !.at = Nowhere, !.phase = "between"]
  <2>1. look' = m
    BY <1>1, <1>4 DEF Bound
  <2>2. m \in LookType
    BY <1>2 DEF LookType, Cursor
  <2>3. /\ m.phase = "between" /\ m.lower = a /\ m.for = "lower" /\ m.asked = look.asked
        /\ m.buf = look.buf /\ m.overwritten = look.overwritten /\ m.disturbed = look.disturbed
    BY <1>2, <1>4 DEF LookType
  <2> HIDE DEF m
  <2>4. Goal(look) = look.asked
    BY <1>4 DEF Goal
  <2>5. LookOk(m)
    BY <1>2, <1>3, <1>4, <2>2, <2>3, <2>4 DEF LookOk
  <2> QED BY <2>1, <2>5
<1>5. CASE look.for # "lower"
  <2> DEFINE m == [look EXCEPT !.at = a, !.phase = "done"]
  <2>1. look' = m
    BY <1>1, <1>5 DEF Bound
  <2>2. m \in LookType
    BY <1>2 DEF LookType
  <2>3. /\ m.phase = "done" /\ m.at = a /\ m.for = look.for /\ m.asked = look.asked
        /\ m.lower = look.lower /\ m.buf = look.buf
        /\ m.overwritten = look.overwritten /\ m.disturbed = look.disturbed
    BY <1>2 DEF LookType
  <2>4. Goal(m) = Goal(look)
    BY <2>3 DEF Goal
  <2> HIDE DEF m
  <2>5. LookOk(m)
    BY <1>2, <1>3, <2>2, <2>3, <2>4 DEF LookOk
  <2> QED BY <2>1, <2>5
<1> QED BY <1>4, <1>5

\* Nobody writes under an iterator on a record, and a look-up that another
\* thread gets between the searches of is disturbed.
LEMMA DisturbedOk ==
  ASSUME LookOk(look), MayWrite, Disturbed, UNCHANGED compare
  PROVE  LookOk(look)'
<1>1. CASE look.phase \in {"none", "done"}
  <2>1. look' = Idle
    BY <1>1 DEF Disturbed
  <2>2. Idle \in LookType /\ Idle.phase = "none"
    BY IdleOk DEF LookOk, Idle
  <2> QED BY <2>1, <2>2 DEF LookOk
<1>2. CASE look.phase \notin {"none", "done"}
  <2> DEFINE m == [look EXCEPT !.disturbed = TRUE]
  <2>1. look' = m
    BY <1>2 DEF Disturbed
  <2>2. look \in LookType /\ look.at.on # "record"
    BY <1>2 DEF LookOk, MayWrite
  <2>3. m \in LookType
    BY <2>2 DEF LookType
  <2>4. /\ m.phase = look.phase /\ m.at = look.at /\ m.for = look.for /\ m.asked = look.asked
        /\ m.lower = look.lower /\ m.buf = look.buf /\ m.ulen = look.ulen
        /\ m.overwritten = look.overwritten /\ m.disturbed = TRUE
    BY <2>2 DEF LookType
  <2>5. Goal(m) = Goal(look)
    BY <2>4 DEF Goal
  <2> HIDE DEF m
  <2>6. look.phase = "sized" /\ ~look.overwritten => m.buf = Goal(m) /\ m.at = Nowhere
    BY <2>2, <2>4, <2>5, CursorsDiffer DEF LookOk, Measured
  <2>7. look'.phase = "sized" /\ ~look'.overwritten => Measured(look)'
    BY <2>1, <2>4, <2>6 DEF Measured
  <2> QED BY <2>1, <2>3, <2>4, <2>5, <2>6, <2>7 DEF LookOk, Goal
<1> QED BY <1>1, <1>2

LEMMA SamePage ==
  ASSUME UNCHANGED <<compare, page>>
  PROVE  \A k : FirstFrom(k)' = FirstFrom(k)
<1> SUFFICES ASSUME NEW k PROVE FirstFrom(k)' = FirstFrom(k)
  OBVIOUS
<1>1. \A a, b : bt_compare(a, b)' = bt_compare(a, b)
  BY SameCompare
<1>2. {i \in DOMAIN page : bt_compare(page[i], k) >= 0}' = {i \in DOMAIN page : bt_compare(page[i], k) >= 0}
  BY <1>1
<1> QED BY <1>2 DEF FirstFrom

\* A look-up that is as it should be before a step that leaves the page alone is
\* so after it.
LEMMA SameNext ==
  ASSUME UNCHANGED <<compare, page>>, LookOk(look')
  PROVE  LookOk(look)'
<1>1. \A k : FirstFrom(k)' = FirstFrom(k)
  BY SamePage
<1>2. (Measured(look'))  <=> Measured(look)'
  BY <1>1 DEF Measured, Goal
<1> QED BY <1>1, <1>2 DEF LookOk, Goal

-----------------------------------------------------------------------------
(* The invariant. *)

LEMMA InitInv == Init => IInv
<1> SUFFICES ASSUME Init PROVE IInv
  OBVIOUS
<1>1. Comparison /\ held = {} /\ page = <<>> /\ edge = FALSE /\ look = Idle
  BY DEF Init, Comparison
<1>2. TellsApart(held)
  BY <1>1 DEF TellsApart
<1>3. Sorted(held)
  BY <1>1 DEF Sorted
<1>4. PageInv
  BY <1>1, <1>2, <1>3 DEF PageInv
<1> QED BY <1>1, <1>4, IdleOk DEF IInv

LEMMA PageKept ==
  ASSUME PageInv, UNCHANGED <<compare, page, edge, held>>
  PROVE  PageInv'
<1>1. /\ Comparison' <=> Comparison
      /\ \A a, b : Ordered(a, b)' <=> Ordered(a, b)
      /\ \A K : TellsApart(K)' <=> TellsApart(K)
  BY SameCompare
<1>2. TellsApart(held)' /\ Sorted(held)'
  BY <1>1 DEF PageInv, Sorted
<1> QED BY <1>1, <1>2 DEF PageInv

LEMMA FindPartialOk ==
  ASSUME PageInv, NEW k \in Partial, find_partial(k) \/ equal_range_partial(k)
  PROVE  LookOk(look')
<1>1. PICK for \in {"find", "lower"} : look' = FirstSearch(k, [Idle EXCEPT !.asked = k, !.for = for])
  BY DEF find_partial, equal_range_partial
<1> DEFINE l == [Idle EXCEPT !.asked = k, !.for = for]
<1>2. k \in Searched /\ k \in Seq(Byte) /\ compare.kind = "default"
  BY PartialIs DEF find_partial, equal_range_partial
<1>3. l \in LookType /\ l.asked = k /\ l.phase = "none" /\ l.for = for
  <2>1. Idle \in LookType /\ Idle.phase = "none"
    BY IdleOk DEF LookOk, Idle
  <2> QED BY <1>2, <2>1 DEF LookType
<1>4. Goal(l) = k
  BY <1>3 DEF Goal
<1>5. look' = FirstSearch(k, l)
  BY <1>1
<1> HIDE DEF l
<1>6. LookOk(FirstSearch(k, l))
  BY <1>2, <1>3, <1>4, FirstSearchOk
<1> QED BY <1>5, <1>6

LEMMA UpperBoundOk ==
  ASSUME PageInv, LookOk(look), upper_bound_partial
  PROVE  LookOk(look')
<1>1. /\ look.phase = "between" /\ look.for = "lower" /\ look \in LookType
      /\ compare.kind = "default" /\ look.asked \in Partial /\ Len(look.buf) = Len(look.asked)
      /\ ~look.overwritten => look.buf = look.asked
      /\ ~look.overwritten /\ ~look.disturbed => look.lower = FirstFrom(look.asked)
  BY DEF LookOk, upper_bound_partial
<1> DEFINE l == [look EXCEPT !.for = "upper"]
           k == AdvanceFunctorBytes(look.buf)
<1>2. k \in Searched
  BY <1>1, PartialIs DEF LookType
<1>3. /\ l \in LookType /\ l.asked = look.asked /\ l.phase = "between" /\ l.for = "upper"
      /\ l.overwritten = look.overwritten /\ l.disturbed = look.disturbed /\ l.lower = look.lower
  BY <1>1 DEF LookType
<1>4. ~l.overwritten => k = Goal(l)
  BY <1>1, <1>3 DEF Goal
<1>5. look' = FirstSearch(k, l)
  BY DEF upper_bound_partial
<1> HIDE DEF l, k
<1>6. LookOk(FirstSearch(k, l))
  BY <1>1, <1>2, <1>3, <1>4, FirstSearchOk
<1> QED BY <1>5, <1>6

\* Each step of a careful application and of its look-ups keeps the invariant.
LEMMA NextInv ==
  ASSUME Careful, IInv, [Next]_vars
  PROVE  IInv'
<1>1. PageInv /\ LookOk(look)
  BY DEF IInv
<1>2. ASSUME LookOk(look'), UNCHANGED <<compare, page, edge, held>> PROVE IInv'
  <2>1. PageInv'
    BY <1>1, <1>2, PageKept
  <2>2. LookOk(look)'
    BY <1>2, SameNext
  <2> QED BY <2>1, <2>2 DEF IInv
<1>3. CASE PutAKey
  <2>1. PICK k \in Keys[compare.kind] : Put(k)
    BY <1>3 DEF PutAKey
  <2>2. PageInv'
    BY <1>1, <2>1, PutKeepsOrder
  <2>3. LookOk(look)'
    BY <1>1, <2>1, DisturbedOk DEF Put
  <2> QED BY <2>2, <2>3 DEF IInv
<1>4. CASE DelAKey
  <2>1. PICK k \in Keys[compare.kind] : Del(k)
    BY <1>4 DEF DelAKey
  <2>2. PageInv'
    BY <1>1, <2>1, DelKeepsOrder
  <2>3. LookOk(look)'
    BY <1>1, <2>1, DisturbedOk DEF Del
  <2> QED BY <2>2, <2>3 DEF IInv
<1>5. CASE \E k \in Partial : find_partial(k) \/ equal_range_partial(k)
  <2>1. PICK k \in Partial : find_partial(k) \/ equal_range_partial(k)
    BY <1>5
  <2>2. LookOk(look')
    BY <1>1, <2>1, FindPartialOk
  <2>3. UNCHANGED <<compare, page, edge, held>>
    BY <2>1 DEF find_partial, equal_range_partial
  <2> QED BY <1>2, <2>2, <2>3
<1>6. CASE SecondSearch
  <2>1. LookOk(look')
    BY <1>1, <1>6, SecondSearchOk
  <2> QED BY <1>2, <1>6, <2>1 DEF SecondSearch
<1>7. CASE upper_bound_partial
  <2>1. LookOk(look')
    BY <1>1, <1>7, UpperBoundOk
  <2> QED BY <1>2, <1>7, <2>1 DEF upper_bound_partial
<1>8. CASE UNCHANGED vars
  <2>1. look' = look /\ UNCHANGED <<compare, page, edge, held>>
    BY <1>8 DEF vars
  <2> QED BY <1>1, <1>2, <2>1
<1> QED BY <1>3, <1>4, <1>5, <1>6, <1>7, <1>8 DEF Next

LEMMA Invariant ==
  ASSUME Careful
  PROVE  Spec => []IInv
<1>1. IInv /\ [Next]_vars => IInv'
  BY NextInv
<1> QED BY <1>1, InitInv, PTL DEF Spec

-----------------------------------------------------------------------------
(* The theorems. *)

\* The page and the look-ups are what they should be at every state of a
\* careful application's histories of set(), erase() and partial look-ups:
\* the page has only the keys it holds, and each of them once.
THEOREM TypeCorrect ==
  ASSUME Careful
  PROVE  Spec => []TypeOK
<1>1. IInv => TypeOK
  <2> SUFFICES ASSUME IInv PROVE TypeOK
    OBVIOUS
  <2>1. /\ Comparison /\ held \subseteq Keys[compare.kind] /\ edge \in BOOLEAN
        /\ Comparable(held) /\ Sorted(held)
    BY KeysCompare DEF IInv, PageInv
  <2>2. page \in Seq(held) /\ DOMAIN page = 1..Len(page) /\ Len(page) \in Nat
    BY <2>1 DEF Sorted
  <2>3. Range(page) \subseteq held
    BY <2>2 DEF Range
  <2>4. ASSUME NEW i \in DOMAIN page, NEW j \in DOMAIN page, page[i] = page[j]
        PROVE  i = j
    <3>1. ASSUME NEW a \in held PROVE ~Ordered(a, a)
      <4>1. Tells(bt_compare(a, a), a, a, Ordered(a, a), Ordered(a, a))
        BY <2>1, CompareTells
      <4> QED BY <4>1 DEF Tells
    <3>2. ~Ordered(page[i], page[j]) /\ ~Ordered(page[j], page[i])
      BY <2>2, <2>4, <3>1
    <3> QED BY <2>1, <2>2, <3>2 DEF Sorted
  <2>5. look \in LookType
    BY DEF IInv, LookOk
  <2> QED BY <2>1, <2>3, <2>4, <2>5 DEF TypeOK, LookType
<1> QED BY <1>1, Invariant, PTL

\* Whatever the application stored and did not erase is found by the binary
\* search of the page, with every comparison function of libstldb4 and for all
\* the keys it can tell apart.
THEOREM KeysFound ==
  ASSUME Careful
  PROVE  Spec => []EveryKeyFound
<1>1. IInv => EveryKeyFound
  <2> SUFFICES ASSUME IInv, NEW k \in held PROVE bam_search(k).exact
    BY DEF EveryKeyFound
  <2>1. Comparison /\ Comparable(held) /\ Sorted(held)
    BY KeysCompare DEF IInv, PageInv
  <2>2. Found(k, bam_search(k))
    BY <2>1, SearchFinds
  <2>3. CASE \E i \in 1..Len(page) : bam_search(k) = Exact(i) /\ page[i] = k
    BY <2>3 DEF Exact
  <2>4. ASSUME NEW i \in 1..(Len(page) + 1),
               \A j \in 1..Len(page) : IF j < i THEN Ordered(page[j], k) ELSE Ordered(k, page[j])
        PROVE  FALSE
    <3>1. PICK j \in 1..Len(page) : page[j] = k
      BY DEF IInv, PageInv
    <3>2. Ordered(k, k)
      BY <2>4, <3>1
    <3>3. Tells(bt_compare(k, k), k, k, Ordered(k, k), Ordered(k, k))
      BY <2>1, CompareTells
    <3> QED BY <3>2, <3>3 DEF Tells
  <2> QED BY <2>2, <2>3, <2>4 DEF Found
<1> QED BY <1>1, Invariant, PTL

\* An iteration meets the keys in the order the comparison function is named
\* for, and backwards under makeReverseCompare().
THEOREM KeysInOrder ==
  ASSUME Careful
  PROVE  Spec => []PageInOrder
<1>1. IInv => PageInOrder
  <2> SUFFICES ASSUME IInv, NEW i \in DOMAIN page, NEW j \in DOMAIN page, i < j
               PROVE  Ordered(page[i], page[j])
    BY DEF PageInOrder, Ordered
  <2>1. Sorted(held)
    BY DEF IInv, PageInv
  <2> QED BY <2>1 DEF Sorted
<1> QED BY <1>1, Invariant, PTL

LEMMA RangeIs ==
  ASSUME IInv, look.phase = "done", look.for = "upper", ~look.disturbed, ~look.overwritten,
         ~compare.reverse, Len(look.asked) >= 2, look.asked[Len(look.asked)] < MaxByte,
         NEW x \in held
  PROVE  InRange(x, look.lower, look.at) <=> IsPrefix(look.asked, x)
<1> DEFINE k == look.asked
           n == Len(k)
           next == AdvanceFunctorBytes(k)
<1>1. /\ PageInv /\ compare.kind = "default" /\ k \in Partial
      /\ look.lower = FirstFrom(k) /\ look.at = FirstFrom(next)
  BY DEF IInv, LookOk, Goal
<1>2. k \in Searched /\ k \in Seq(Byte) /\ next \in Searched /\ x \in Searched
  BY <1>1, PartialIs, DefaultCompares
<1>3. n \in Nat \ {0} /\ k \in [1..n -> Byte] /\ next = [k EXCEPT ![n] = @ + 1] /\ next \in Seq(Byte)
  <2>1. n \in Nat /\ n >= 2 /\ k \in [1..n -> Byte]
    BY <1>2
  <2>2. next = [k EXCEPT ![n] = @ + 1]
    BY <1>2, AdvanceIs
  <2>3. next \in Seq(Byte)
    BY <1>2 DEF Searched
  <2> HIDE DEF n, k, next
  <2> QED BY <2>1, <2>2, <2>3
<1>4. Len(next) = n /\ next[n] = k[n] + 1 /\ \A i \in 1..(n - 1) : next[i] = k[i]
  <2>1. DOMAIN next = 1..n /\ \A i \in 1..n : next[i] = IF i = n THEN k[n] + 1 ELSE k[i]
    BY <1>3
  <2>2. Len(next) = n
    BY <1>3, <2>1
  <2>3. n \in 1..n /\ \A i \in 1..(n - 1) : i \in 1..n /\ i # n
    BY <1>3
  <2> QED BY <2>1, <2>2, <2>3
<1> HIDE DEF next, n, k
<1>5. IsPrefix(k, x) <=> ~ByBytes(x, k, Unsigned, TRUE) /\ ByBytes(x, next, Unsigned, TRUE)
  <2>1. x \in Seq(Byte) /\ k \in Seq(Byte) /\ next \in Seq(Byte) /\ n \in Nat \ {0}
    BY <1>2, <1>3 DEF Searched
  <2>2. Len(k) = n
    BY DEF n
  <2> QED BY <1>4, <2>1, <2>2, PrefixIsRange
<1>6. ASSUME NEW b \in Searched
      PROVE  bt_compare(x, b) >= 0 <=> ~ByBytes(x, b, Unsigned, TRUE)
  <2>1. Tells(bt_compare(x, b), x, b, Ordered(x, b), Ordered(b, x))
    BY <1>1, <1>2, <1>6, DefaultCompares
  <2>2. Ordered(x, b) <=> ByBytes(x, b, Unsigned, TRUE)
    <3>1. Comparison /\ x \in Seq(Byte) /\ b \in Seq(Byte)
      BY <1>1, <1>2, <1>6 DEF PageInv, Searched
    <3> QED BY <1>1, <3>1, KindsAre DEF Ordered
  <2>3. bt_compare(x, b) \in Int /\ (bt_compare(x, b) < 0 <=> Ordered(x, b))
    BY <2>1, HalfFacts DEF Tells
  <2>4. bt_compare(x, b) >= 0 <=> ~(bt_compare(x, b) < 0)
    BY <2>3
  <2> QED BY <2>2, <2>3, <2>4, Zenon
<1>7. ASSUME NEW b \in Searched, NEW a, a = FirstFrom(b)
      PROVE  /\ (a.on = "record" /\ bt_compare(x, a.key) >= 0) <=> bt_compare(x, b) >= 0
             /\ (a.on = "record" => bt_compare(x, a.key) < 0) <=> bt_compare(x, b) < 0
  <2>1. bt_compare(x, b) \in Int
    <3>1. Tells(bt_compare(x, b), x, b, Ordered(x, b), Ordered(b, x))
      BY <1>1, <1>2, <1>7, DefaultCompares
    <3> QED BY <3>1, HalfFacts DEF Tells
  <2>2. CASE a = AtEnd /\ ~(bt_compare(x, b) >= 0)
    BY <2>1, <2>2, CursorsDiffer
  <2>3. CASE \E r \in held : a = On(r) /\ (bt_compare(x, b) >= 0 <=> bt_compare(x, r) >= 0)
    <3>1. PICK r \in held : a = On(r) /\ (bt_compare(x, b) >= 0 <=> bt_compare(x, r) >= 0)
      BY <2>3
    <3>2. r \in Searched
      BY <1>1, DefaultCompares
    <3>3. bt_compare(x, r) \in Int
      <4>1. Tells(bt_compare(x, r), x, r, Ordered(x, r), Ordered(r, x))
        BY <1>1, <1>2, <3>2, DefaultCompares
      <4> QED BY <4>1, HalfFacts DEF Tells
    <3>4. a.on = "record" /\ a.key = r
      BY <3>1, CursorsDiffer
    <3> QED BY <2>1, <3>1, <3>3, <3>4
  <2> QED BY <1>1, <1>7, <2>2, <2>3, FirstFromIs
<1>8. InRange(x, look.lower, look.at) <=> bt_compare(x, k) >= 0 /\ bt_compare(x, next) < 0
  BY <1>1, <1>2, <1>7 DEF InRange, k, next
<1>9. bt_compare(x, next) < 0 <=> ~(bt_compare(x, next) >= 0)
  <2>1. Tells(bt_compare(x, next), x, next, Ordered(x, next), Ordered(next, x))
    BY <1>1, <1>2, DefaultCompares
  <2> QED BY <2>1, HalfFacts DEF Tells
<1>10. InRange(x, look.lower, look.at) <=> IsPrefix(k, x)
  BY <1>2, <1>5, <1>6, <1>8, <1>9
<1> QED BY <1>10 DEF k

\* equal_range_partial( k ) has exactly the records that begin with k: both its
\* ends are where they belong, and the key AdvanceFunctorBytes makes is the first
\* after all that begin with k.
THEOREM PartialRanges ==
  ASSUME Careful
  PROVE  Spec => []PartialRangeIsThePrefix
<1>1. IInv => PartialRangeIsThePrefix
  <2> SUFFICES ASSUME IInv, look.phase = "done", look.for = "upper", ~look.disturbed,
                      ~look.overwritten, ~compare.reverse, Len(look.asked) >= 2,
                      look.asked[Len(look.asked)] < MaxByte
               PROVE  {r \in Range(page) : InRange(r, look.lower, look.at)}
                         = {r \in Range(page) : IsPrefix(look.asked, r)}
    BY DEF PartialRangeIsThePrefix
  <2>1. page \in Seq(held)
    BY DEF IInv, PageInv, Sorted
  <2>2. Range(page) \subseteq held
    BY <2>1 DEF Range
  <2>3. \A r \in Range(page) : InRange(r, look.lower, look.at) <=> IsPrefix(look.asked, r)
    BY <2>2, RangeIs
  <2> QED BY <2>3
<1> QED BY <1>1, Invariant, PTL

\* find_partial( k ) ends on the first record from k on, or nowhere if another
\* thread has put a longer one there between its two searches, unless the first
\* search has written on k.
THEOREM PartialFinds ==
  ASSUME Careful
  PROVE  Spec => PartialFindLands
<1>1. ASSUME IInv, SecondSearch, look.for = "find", ~look.overwritten
      PROVE  \/ look'.at = FirstFrom(look.asked)
             \/ look'.at = Nowhere /\ look.disturbed /\ FirstFrom(look.asked) # AtEnd
                   /\ Len(FirstFrom(look.asked).key) > look.ulen
  <2>1. PageInv /\ LookOk(look) /\ look \in LookType /\ Goal(look) = look.asked
    BY <1>1 DEF IInv, LookOk, Goal
  <2>2. PICK a \in Cursor :
           /\ look' = Bound(look, a)
           /\ \/ a = FirstFrom(Goal(look))
              \/ /\ a = Nowhere /\ look.disturbed /\ FirstFrom(Goal(look)) # AtEnd
                 /\ Len(FirstFrom(Goal(look)).key) > look.ulen
    BY <1>1, <2>1, SecondSearchLands
  <2>3. look'.at = a
    BY <1>1, <2>1, <2>2 DEF Bound, LookType
  <2> QED BY <2>1, <2>2, <2>3
<1>2. ASSUME IInv, [Next]_vars
      PROVE  [SecondSearch /\ look.for = "find" /\ ~look.overwritten =>
                \/ look'.at = FirstFrom(look.asked)
                \/ look'.at = Nowhere /\ look.disturbed /\ FirstFrom(look.asked) # AtEnd
                      /\ Len(FirstFrom(look.asked).key) > look.ulen]_vars
  BY <1>1, <1>2
<1> QED BY <1>2, Invariant, PTL DEF Spec, PartialFindLands

=============================================================================
