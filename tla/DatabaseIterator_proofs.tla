----------------------- MODULE DatabaseIterator_proofs -----------------------
(***************************************************************************)
(* What DatabaseIterator promises for any number of records, duplicates,   *)
(* iterators and transactions: types (TypeCorrect), the range erase(iter,  *)
(* last) keeps to (EraseRangeSoundHolds), and that iterators and count()   *)
(* are those of a sorted multimap (SortedMapTheorem).  A position is the   *)
(* number of a record, so all of it is about the least and the greatest    *)
(* live record of a set, and about records of one key standing together.   *)
(***************************************************************************)
EXTENDS DatabaseIterator, WellFoundedInduction, FiniteSetTheorems, TLAPS

-----------------------------------------------------------------------------
(* Induction on numbers, and functions defined by recursion on them *)

\* Every set of numbers that is not empty has a least one.
LEMMA LeastNat ==
  ASSUME NEW S, S \subseteq Nat, S # {}
  PROVE  \E n \in S : \A m \in S : n =< m
<1>1. IsWellFoundedOn(OpToRel(<, Nat), Nat)
  BY NatLessThanWellFounded
<1>2. PICK n \in S : \A m \in S : ~(<<m, n>> \in OpToRel(<, Nat))
  BY <1>1, WFMin
<1>3. \A m \in S : ~(m < n)
  BY <1>2 DEF OpToRel
<1> QED BY <1>3

\* Induction: a set with 0, and with n + 1 for every n in it.
LEMMA SetInduction ==
  ASSUME NEW S, 0 \in S, \A n \in Nat : n \in S => n + 1 \in S
  PROVE  Nat \subseteq S
<1> SUFFICES ASSUME Nat \ S # {} PROVE FALSE
  OBVIOUS
<1>1. PICK n \in Nat \ S : \A m \in Nat \ S : n =< m
  BY LeastNat
<1>2. n # 0 /\ n - 1 \in Nat
  BY <1>1
<1>3. n - 1 \in S
  BY <1>1, <1>2
<1> QED BY <1>1, <1>2, <1>3

\* f is defined on 0..N by recursion to the number before.
CountStep(N, V, base, step) == base \in V /\ step \in [1..N -> [V -> V]]

ByCount(f, N, V, base, step) ==
    /\ f \in [0..N -> V]
    /\ \A n \in 0..N : f[n] = IF n = 0 THEN base ELSE step[n][f[n - 1]]

LEMMA CountRecursion ==
  ASSUME NEW N \in Nat, NEW V, NEW base, NEW step, CountStep(N, V, base, step)
  PROVE  \E f : ByCount(f, N, V, base, step)
<1> USE DEF CountStep
<1> DEFINE ByTheRule(n, f) ==
              \A m \in 0..n : f[m] = IF m = 0 THEN base ELSE step[m][f[m - 1]]
           S == {n \in Nat : n =< N => \E f \in [0..n -> V] : ByTheRule(n, f)}
<1>1. 0 \in S
  <2>1. [m \in 0..0 |-> base] \in [0..0 -> V] /\ ByTheRule(0, [m \in 0..0 |-> base])
    OBVIOUS
  <2> QED BY <2>1
<1>2. ASSUME NEW n \in Nat, n \in S PROVE n + 1 \in S
  <2> SUFFICES ASSUME n + 1 =< N PROVE \E f \in [0..n + 1 -> V] : ByTheRule(n + 1, f)
    OBVIOUS
  <2>1. PICK f \in [0..n -> V] : ByTheRule(n, f)
    BY <1>2
  <2>2. PICK g : g = [m \in 0..n + 1 |-> IF m = n + 1 THEN step[n + 1][f[n]] ELSE f[m]]
    OBVIOUS
  <2>3. step[n + 1][f[n]] \in V
    BY <2>1
  <2>4. g \in [0..n + 1 -> V]
    BY <2>1, <2>2, <2>3
  <2>5. ASSUME NEW m \in 0..n + 1
        PROVE  g[m] = IF m = 0 THEN base ELSE step[m][g[m - 1]]
    <3>1. CASE m = n + 1
      BY <3>1, <2>2
    <3>2. CASE m # n + 1
      <4>1. m \in 0..n /\ g[m] = f[m]
        BY <3>2, <2>2
      <4>2. m # 0 => g[m - 1] = f[m - 1]
        BY <4>1, <2>2
      <4> QED BY <4>1, <4>2, <2>1
    <3> QED BY <3>1, <3>2
  <2> QED BY <2>4, <2>5
<1> HIDE DEF S
<1>3. N \in S
  BY <1>1, <1>2, SetInduction
<1>4. PICK f \in [0..N -> V] : ByTheRule(N, f)
  BY <1>3 DEF S
<1> QED BY <1>4 DEF ByCount

\* The greatest of a set of numbers that has a bound.
LEMMA GreatestNat ==
  ASSUME NEW S, NEW N \in Nat, S \subseteq 0..N, S # {}
  PROVE  \E n \in S : \A m \in S : n >= m
<1>1. PICK T : T = {N - m : m \in S}
  OBVIOUS
<1>2. T \subseteq Nat /\ T # {}
  <2>1. \A m \in S : N - m \in Nat
    OBVIOUS
  <2> QED BY <1>1, <2>1
<1>3. PICK k \in T : \A m \in T : k =< m
  BY <1>2, LeastNat
<1>4. PICK n \in S : k = N - n
  BY <1>1, <1>3
<1>5. ASSUME NEW m \in S PROVE n >= m
  <2>1. N - m \in T
    BY <1>1
  <2>2. N - n =< N - m
    BY <1>3, <1>4, <2>1
  <2> QED BY <2>2
<1> QED BY <1>5

-----------------------------------------------------------------------------
(* Records, keys, the least and the greatest record. *)

USE RecordAssumption

\* The records of a smaller key come first.
LEMMA KeysInOrder ==
  ASSUME NEW a \in Nat \ {0}, NEW b \in Nat \ {0}, a =< b
  PROVE  KeyOf(a) =< KeyOf(b)
<1> DEFINE x == a - 1
           y == b - 1
<1>1. x \in Nat /\ y \in Nat /\ x =< y
  OBVIOUS
<1> HIDE DEF x, y
<1>2. x \div MaxDup =< y \div MaxDup
  BY <1>1
<1>3. x \div MaxDup \in Nat /\ y \div MaxDup \in Nat
  BY <1>1
<1>4. KeyOf(a) = x \div MaxDup + 1 /\ KeyOf(b) = y \div MaxDup + 1
  BY DEF KeyOf, x, y
<1> QED BY <1>2, <1>3, <1>4

\* A key is a number.
LEMMA KeyIsNat ==
  ASSUME NEW r \in Rec
  PROVE  KeyOf(r) \in Nat
<1>1. r - 1 \in Nat
  BY DEF Rec
<1>2. (r - 1) \div MaxDup \in Nat
  BY <1>1
<1> QED BY <1>2 DEF KeyOf

\* A set of records has a least one, and Min finds it.
LEMMA MinIsLeast ==
  ASSUME NEW S, S \subseteq Rec, S # {}
  PROVE  Min(S) \in S /\ \A r \in S : Min(S) =< r
<1>0. S \subseteq Nat
  BY DEF Rec
<1>1. \E n \in S : \A m \in S : n =< m
  BY <1>0, LeastNat
<1> QED BY <1>1 DEF Min

\* A set of records has a greatest one, and Max finds it.
LEMMA MaxIsGreatest ==
  ASSUME NEW S, S \subseteq Rec, S # {}
  PROVE  Max(S) \in S /\ \A r \in S : r =< Max(S)
<1>1. S \subseteq 0..NumRec
  BY DEF Rec
<1>2. \E n \in S : \A m \in S : n >= m
  BY <1>1, GreatestNat
<1> QED BY <1>2 DEF Max

\* The live records are records.
LEMMA LiveAreRec == Live \subseteq Rec
  BY DEF Live

\* The least record of a set that has one, as a set.
LEMMA FirstIs ==
  ASSUME NEW S, S \subseteq Rec
  PROVE  /\ S = {} => First(S) = {}
         /\ S # {} => First(S) = {Min(S)} /\ Min(S) \in S /\ First(S) # {} /\ Min(First(S)) = Min(S)
         /\ First(S) \subseteq S
<1>1. CASE S = {}
  BY <1>1 DEF First
<1>2. CASE S # {}
  <2>1. First(S) = {Min(S)} /\ Min(S) \in S
    BY <1>2, MinIsLeast DEF First
  <2>2. First(S) \subseteq Rec /\ First(S) # {}
    BY <2>1
  <2>3. Min(First(S)) \in First(S)
    BY <2>2, MinIsLeast
  <2> QED BY <1>2, <2>1, <2>3
<1> QED BY <1>1, <1>2

\* The greatest record of a set that has one, as a set.
LEMMA LastIs ==
  ASSUME NEW S, S \subseteq Rec
  PROVE  /\ S = {} => Last(S) = {}
         /\ S # {} => Last(S) = {Max(S)} /\ Max(S) \in S /\ Last(S) # {} /\ Min(Last(S)) = Max(S)
         /\ Last(S) \subseteq S
<1>1. CASE S = {}
  BY <1>1 DEF Last
<1>2. CASE S # {}
  <2>1. Last(S) = {Max(S)} /\ Max(S) \in S
    BY <1>2, MaxIsGreatest DEF Last
  <2>2. Last(S) \subseteq Rec /\ Last(S) # {}
    BY <2>1
  <2>3. Min(Last(S)) \in Last(S)
    BY <2>2, MinIsLeast
  <2> QED BY <1>2, <2>1, <2>3
<1> QED BY <1>1, <1>2

-----------------------------------------------------------------------------
(* moveCursor(). *)

\* The flags iterators are moved with.
Moving == {DB_NEXT, DB_NEXT_DUP, DB_NEXT_NODUP, DB_PREV}

\* Both tests of moveCursor() hold for every flag: a forward move from end()
\* opens a new cursor too, and every failed move sets the iterator to end().
LEMMA FlagsShareBits ==
  ASSUME NEW f \in Moving
  PROVE  /\ SharesBit(f, DB_PREV) /\ SharesBit(f, DB_NEXT_DUP)
         /\ SharesBit(DB_LAST, DB_NEXT_DUP)
<1>1. f \in {16, 17, 18, 23}
  BY DEF Moving, DB_NEXT, DB_NEXT_DUP, DB_NEXT_NODUP, DB_PREV
<1>2. SharesBit(16, 23) /\ SharesBit(17, 23) /\ SharesBit(18, 23) /\ SharesBit(23, 23)
  BY DEF SharesBit
<1>3. SharesBit(16, 17) /\ SharesBit(17, 17) /\ SharesBit(18, 17) /\ SharesBit(23, 17)
  BY DEF SharesBit
<1>4. SharesBit(15, 17)
  BY DEF SharesBit
<1> QED BY <1>1, <1>2, <1>3, <1>4 DEF DB_LAST, DB_NEXT_DUP, DB_PREV

\* The flags are different numbers.
LEMMA FlagsDiffer ==
  /\ DB_LAST # DB_FIRST
  /\ DB_NEXT # DB_FIRST /\ DB_NEXT # DB_LAST
  /\ DB_NEXT_DUP # DB_FIRST /\ DB_NEXT_DUP # DB_LAST /\ DB_NEXT_DUP # DB_NEXT
  /\ DB_NEXT_NODUP # DB_FIRST /\ DB_NEXT_NODUP # DB_LAST /\ DB_NEXT_NODUP # DB_NEXT
  /\ DB_NEXT_NODUP # DB_NEXT_DUP
  /\ DB_PREV # DB_FIRST /\ DB_PREV # DB_LAST /\ DB_PREV # DB_NEXT /\ DB_PREV # DB_NEXT_DUP
  /\ DB_PREV # DB_NEXT_NODUP
  BY DEF DB_FIRST, DB_LAST, DB_NEXT, DB_NEXT_DUP, DB_NEXT_NODUP, DB_PREV

\* What c_get finds, flag by flag.
LEMMA CGetIs ==
  ASSUME NEW at
  PROVE  /\ CGet(at, DB_LAST) = Last(Live)
         /\ CGet(at, DB_NEXT) = First({r \in Live : r > at})
         /\ CGet(at, DB_NEXT_DUP) =
               {r \in First({s \in Live : s > at}) : at # Unset /\ KeyOf(r) = KeyOf(at)}
         /\ CGet(at, DB_NEXT_NODUP) =
               First({r \in {s \in Live : s > at} : ~(at # Unset /\ KeyOf(r) = KeyOf(at))})
         /\ CGet(at, DB_PREV) = Last({r \in Live : at = Unset \/ r < at})
<1>1. CGet(at, DB_LAST) = Last(Live)
  BY FlagsDiffer DEF CGet
<1>2. CGet(at, DB_NEXT) = First({r \in Live : r > at})
  BY FlagsDiffer DEF CGet
<1>3. CGet(at, DB_NEXT_DUP) =
         {r \in First({s \in Live : s > at}) : at # Unset /\ KeyOf(r) = KeyOf(at)}
  BY FlagsDiffer DEF CGet
<1>4. CGet(at, DB_NEXT_NODUP) =
         First({r \in {s \in Live : s > at} : ~(at # Unset /\ KeyOf(r) = KeyOf(at))})
  BY FlagsDiffer DEF CGet
<1>5. CGet(at, DB_PREV) = Last({r \in Live : at = Unset \/ r < at})
  BY FlagsDiffer DEF CGet
<1> QED BY <1>1, <1>2, <1>3, <1>4, <1>5

\* What c_get finds is live.
LEMMA CGetIsLive ==
  ASSUME NEW at, NEW f \in Moving \cup {DB_LAST}
  PROVE  CGet(at, f) \subseteq Live
<1>1. \A S : S \subseteq Live => First(S) \subseteq Live /\ Last(S) \subseteq Live
  BY LiveAreRec, FirstIs, LastIs
<1> QED BY <1>1 DEF CGet, Moving, DB_FIRST, DB_LAST, DB_NEXT, DB_NEXT_DUP, DB_NEXT_NODUP, DB_PREV

\* The cursor moveCursor() works with, and what it is asked for.
Moved(x) == IF x.at = AtEnd THEN Opened(x) ELSE x
Asked(x, f) == IF x.at = AtEnd THEN DB_LAST ELSE f

\* moveCursor() without the tests that always hold.
LEMMA MoveCursorIs ==
  ASSUME NEW x, NEW f \in Moving
  PROVE  LET found == CGet(Moved(x).at, Asked(x, f))
         IN moveCursor(x, f) = IF found = {} THEN setCursorToEnd(Moved(x))
                                             ELSE [Moved(x) EXCEPT !.at = Min(found)]
<1>1. SharesBit(f, DB_PREV) /\ SharesBit(Asked(x, f), DB_NEXT_DUP)
  BY FlagsShareBits DEF Asked
<1> QED BY <1>1 DEF moveCursor, Moved, Asked

-----------------------------------------------------------------------------
(* Types. *)

\* An iterator whose cursor, if it has one, is open in a transaction that runs
\* or in none.
Open(x) ==
    /\ x \in Iterator
    /\ x.at # AtEnd /\ x.within \in Trans => txn[x.within] = "running"

\* What the thread inside erase(iter, last) works with, and its steps.
Running == {"keys", "values", "move", "read", "erase"}

Loop == [step : Running \cup {"none", "crashed"},
         iter : Iterator \cup {NoObject}, last : Iterator \cup {NoObject},
         next : Iterator \cup {NoObject}, trans : Given,
         unread : SUBSET Operands, seen : Val \cup {Absent}, lost : BOOLEAN]

\* Its iterators exist while it runs, and are open.
WellOpen(e) ==
    /\ e \in Loop
    /\ IF e.step \in Running THEN Open(e.iter) /\ Open(e.last)
                             ELSE e.iter = NoObject /\ e.last = NoObject
    /\ IF e.step \in {"read", "erase"} THEN Open(e.next) ELSE e.next = NoObject

\* The inductive invariant of TypeOK: also of the variables of the loops.
Types ==
    /\ store \in [Rec -> Val \cup {Absent}]
    /\ it \in [Iter -> Iterator \cup {NoObject}]
    /\ \A i \in Iter : it[i] # NoObject => Open(it[i])
    /\ txn \in [Trans -> {"unused", "running", "ended"}]
    /\ victim \in SUBSET Trans
    /\ implicit \in Trans \cup {NoTrans}
    /\ WellOpen(erasing)
    /\ inserting \in {NotInserting} \cup
          [rec : Rec, val : Val, trans : Given]

\* The end position is no record.
LEMMA EndIsNoRecord == AtEnd \notin Rec /\ AtEnd # Unset /\ AtEnd \in Nat /\ Unset \notin Rec
  BY DEF AtEnd, Rec, Unset

\* raw() is a transaction that runs, or none.
LEMMA RawRuns ==
  ASSUME Types, NEW t \in Trans \cup {NullTrans}
  PROVE  Raw(t) \in Trans \cup {NullTrans} /\ (Raw(t) \in Trans => txn[Raw(t)] = "running")
  BY TransAssumption DEF Raw

LEMMA FreshenIs ==
  ASSUME Types, NEW t \in Given
  PROVE  Freshen(t) \in Trans \cup {NullTrans}
  BY TransAssumption DEF Types, Freshen, Given

\* A new cursor is open in a transaction that runs.
LEMMA OpenedIsOpen ==
  ASSUME Types, NEW x \in Iterator
  PROVE  /\ Opened(x) \in Iterator /\ Open(Opened(x)) /\ Opened(x).at = Unset
         /\ Opened(x).trans = x.trans
<1>1. x.trans \in Trans \cup {NullTrans}
  BY DEF Iterator
<1> QED BY <1>1, RawRuns DEF Opened, Open, Iterator

LEMMA SetToEndIsOpen ==
  ASSUME NEW x \in Iterator
  PROVE  Open(setCursorToEnd(x))
  BY DEF setCursorToEnd, Open, Iterator

\* An iterator that moves keeps its type, and its cursor or gets a new one.
LEMMA MoveIsOpen ==
  ASSUME Types, NEW x, Open(x), NEW f \in Moving
  PROVE  Open(moveCursor(x, f)) /\ Open(Thrown(x))
<1>1. Open(Moved(x)) /\ Moved(x).at # AtEnd /\ Moved(x) \in Iterator
  BY OpenedIsOpen, EndIsNoRecord DEF Moved, Open
<1> DEFINE found == CGet(Moved(x).at, Asked(x, f))
<1>2. found \subseteq Rec
  BY CGetIsLive, LiveAreRec DEF Asked
<1>3. CASE found = {}
  BY <1>1, <1>3, MoveCursorIs, SetToEndIsOpen, OpenedIsOpen DEF Thrown, Open
<1>4. CASE found # {}
  <2>1. Min(found) \in Rec
    BY <1>2, <1>4, MinIsLeast
  <2>2. Open([Moved(x) EXCEPT !.at = Min(found)])
    BY <1>1, <2>1 DEF Open, Iterator
  <2> QED BY <1>4, <2>2, MoveCursorIs, OpenedIsOpen DEF Thrown, Open
<1> QED BY <1>3, <1>4

\* An iterator that a look-up makes is open, at what was found or at the end.
LEMMA AtIsOpen ==
  ASSUME Types, NEW t \in Given, NEW S, S \subseteq Rec
  PROVE  Open(At(Freshen(t), First(S)))
<1>1. Freshen(t) \in Trans \cup {NullTrans}
  BY FreshenIs
<1>2. CASE S = {}
  BY <1>1, <1>2, FirstIs DEF At, Open, Iterator
<1>3. CASE S # {}
  BY <1>1, <1>3, RawRuns, FirstIs DEF At, Open, Iterator
<1> QED BY <1>2, <1>3

\* The iterators that the calls of Database return are open.
LEMMA CallsAreOpen ==
  ASSUME Types, NEW t \in Given, NEW k \in Key
  PROVE  /\ Open(end(t)) /\ Open(begin(t)) /\ Open(find(k, t)) /\ Open(find_partial(k, t))
         /\ Open(lower_bound(k, t)) /\ Open(upper_bound(k, t)) /\ Open(Unpositioned(t))
<1>1. \A u \in Given : Open(end(u))
  <2>1. First({}) = {}
    BY DEF First
  <2> QED BY <2>1, AtIsOpen DEF end
<1>2. \A u \in Given : Open(begin(u))
  BY <1>1, AtIsOpen, LiveAreRec DEF begin, Given
<1>3. Open(find(k, t))
  BY AtIsOpen, LiveAreRec DEF find, CGetSet
<1>4. Open(find_partial(k, t))
  BY AtIsOpen, LiveAreRec DEF find_partial, CGetSetRange
<1>5. Open(lower_bound(k, t))
  BY <1>2, <1>3 DEF lower_bound, Given
<1>6. Open(upper_bound(k, t))
  BY <1>5, MoveIsOpen DEF upper_bound, Moving
<1>7. Open(Unpositioned(t))
  BY FreshenIs, RawRuns DEF Unpositioned, Open, Iterator
<1> QED BY <1>1, <1>2, <1>3, <1>4, <1>5, <1>6, <1>7

\* The types of what most calls leave alone.
LEMMA QuietTypes ==
  ASSUME Types, Quiet
  PROVE  /\ txn' \in [Trans -> {"unused", "running", "ended"}]
         /\ implicit' \in Trans \cup {NoTrans}
         /\ WellOpen(erasing)'
         /\ inserting' \in {NotInserting} \cup [rec : Rec, val : Val, trans : Given]
         /\ \A x : Open(x) => x \in Iterator /\ (x.at # AtEnd /\ x.within \in Trans => txn'[x.within] = "running")
  BY DEF Types, Quiet, Open, WellOpen

\* A call that changes one variable, the records or the victims.
LEMMA CallTypes ==
  ASSUME Types, Quiet,
         store' \in [Rec -> Val \cup {Absent}],
         victim' \in SUBSET Trans,
         UNCHANGED it \/ \E i \in Iter, x \in Iterator \cup {NoObject} :
                            (x # NoObject => Open(x)) /\ Assign(i, x)
  PROVE  Types'
<1>1. it' \in [Iter -> Iterator \cup {NoObject}]
  BY DEF Types, Assign
<1>2. \A i \in Iter : it'[i] # NoObject => Open(it'[i])
  BY DEF Types, Assign
<1>3. \A i \in Iter : it'[i] # NoObject => Open(it[i])'
  BY <1>2, QuietTypes DEF Open
<1> QED BY <1>1, <1>3, QuietTypes DEF Types

\* A refusal adds a transaction to the victims.
LEMMA RefuseTypes ==
  ASSUME Types, NEW t, Refuse(t) \/ CallThrows(t) \/ UNCHANGED victim
  PROVE  victim' \in SUBSET Trans
  BY DEF Types, Refuse, CallThrows

\* What the thread inside erase(iter, last) works with after a step that ends
\* no transaction.
LEMMA WellOpenAfter ==
  ASSUME NEW e, WellOpen(e), erasing' = e, UNCHANGED txn
  PROVE  WellOpen(erasing)'
  BY DEF WellOpen, Open

LEMMA IdleIsWellOpen == WellOpen(NotErasing)
  BY DEF WellOpen, NotErasing, Loop, Running, Given

\* Before a comparison.
LEMMA TurnIsWellOpen ==
  ASSUME NEW e \in Loop, Open(e.iter), Open(e.last), e.next = NoObject
  PROVE  WellOpen(Turn(e))
<1>1. CASE e.iter.at = AtEnd /\ e.last.at = AtEnd
  BY <1>1, IdleIsWellOpen DEF Turn
<1>2. CASE e.iter.at # AtEnd /\ e.last.at # AtEnd
  <2>1. Turn(e) = [e EXCEPT !.step = "keys", !.unread = Operands]
    BY <1>2 DEF Turn
  <2> QED BY <2>1 DEF WellOpen, Loop, Running
<1>3. CASE ~(e.iter.at = AtEnd /\ e.last.at = AtEnd) /\ ~(e.iter.at # AtEnd /\ e.last.at # AtEnd)
  <2>1. Turn(e) = [e EXCEPT !.step = "move"]
    BY <1>3 DEF Turn
  <2> QED BY <2>1 DEF WellOpen, Loop, Running
<1> QED BY <1>1, <1>2, <1>3

\* A range is entered.
LEMMA EnteredIsWellOpen ==
  ASSUME NEW x, NEW y, Open(x), Open(y), NEW t \in Given
  PROVE  WellOpen(Entered(x, y, t))
<1> DEFINE e == [NotErasing EXCEPT !.iter = x, !.last = y, !.trans = t, !.lost = ~IsRange(x, y)]
<1>1. e \in Loop /\ e.iter = x /\ e.last = y /\ e.next = NoObject
  BY DEF NotErasing, Loop, Running, Open, IsRange
<1> HIDE DEF e
<1>2. WellOpen(Turn(e))
  BY <1>1, TurnIsWellOpen
<1> QED BY <1>2 DEF Entered, e

LEMMA InitTypes == Init => Types
  BY TransAssumption, IdleIsWellOpen DEF Init, Types, Given, NotInserting

LEMMA IteratorTypes ==
  ASSUME Types, NEW i \in Iter, IteratorStep(i)
  PROVE  Types'
<1>1. store \in [Rec -> Val \cup {Absent}] /\ victim \in SUBSET Trans
  BY DEF Types
<1>2. it[i] # NoObject => Open(it[i]) /\ Open(Thrown(it[i])) /\ \A f \in Moving : Open(moveCursor(it[i], f))
  <2>1. DB_NEXT \in Moving
    BY DEF Moving
  <2>2. it[i] # NoObject => Open(it[i])
    BY DEF Types
  <2> QED BY <2>1, <2>2, MoveIsOpen
<1>3. \A x : Open(x) => x \in Iterator
  BY DEF Open
<1>4. ASSUME NEW f \in Moving, it[i] # NoObject, Moves(i, f)
      PROVE  Types'
  BY <1>1, <1>2, <1>3, <1>4, CallTypes, RefuseTypes DEF Moves
<1>5. CASE Increment(i)
  BY <1>4, <1>5 DEF Increment, MayUse, Moving
<1>6. CASE Decrement(i)
  BY <1>4, <1>6 DEF Decrement, MayUse, Moving
<1>7. CASE moveCursorNextDup(i)
  <2>1. it[i] # NoObject /\ Quiet /\ UNCHANGED store
    BY <1>7 DEF moveCursorNextDup, MayUse
  <2>2. Open(setCursorToEnd(it[i])) /\ Open(moveCursor(it[i], DB_NEXT_DUP))
    BY <1>2, <1>3, <2>1, SetToEndIsOpen DEF Moving
  <2>3. \E x \in Iterator : Open(x) /\ Assign(i, x)
    BY <1>3, <1>7, <2>2 DEF moveCursorNextDup
  <2>4. victim' \in SUBSET Trans
    BY <1>7, RefuseTypes DEF moveCursorNextDup
  <2> QED BY <1>1, <2>1, <2>3, <2>4, CallTypes
<1>8. CASE Destroy(i)
  BY <1>1, <1>8, CallTypes DEF Destroy
<1>9. CASE EraseAt(i)
  BY <1>1, <1>9, CallTypes, RefuseTypes DEF EraseAt
<1>10. ASSUME NEW j \in Iter, Copy(i, j) PROVE Types'
  BY <1>1, <1>2, <1>3, <1>10, CallTypes DEF Copy
<1>11. ASSUME NEW v \in Val, SetValue(i, v) PROVE Types'
  BY <1>1, <1>11, CallTypes, RefuseTypes DEF SetValue
<1>12. ASSUME NEW j \in Iter, NEW t \in Given, EraseRangeStart(i, j, t)
       PROVE  Types'
  <2>1. it[i] # NoObject /\ it[j] # NoObject
    BY <1>12 DEF EraseRangeStart, MayUse
  <2>2. Open(it[i]) /\ Open(it[j])
    BY <2>1 DEF Types
  <2>3. WellOpen(erasing)'
    BY <1>12, <2>2, EnteredIsWellOpen, WellOpenAfter DEF EraseRangeStart, Rest
  <2>4. \A j1 \in Iter : it'[j1] # NoObject => Open(it[j1])'
    BY <1>12 DEF EraseRangeStart, Rest, Open, Types
  <2> QED BY <1>12, <2>3, <2>4 DEF EraseRangeStart, Rest, Types
<1> QED BY <1>5, <1>6, <1>7, <1>8, <1>9, <1>10, <1>11, <1>12 DEF IteratorStep

\* Records change to values, or are gone.
LEMMA StoreTypes ==
  ASSUME Types
  PROVE  /\ \A r \in Rec, v \in Val \cup {Absent} : [store EXCEPT ![r] = v] \in [Rec -> Val \cup {Absent}]
         /\ \A k : [r \in Rec |-> IF KeyOf(r) = k THEN Absent ELSE store[r]]
                      \in [Rec -> Val \cup {Absent}]
  BY DEF Types

LEMMA DatabaseTypes ==
  ASSUME Types, NEW t \in Given, DatabaseStep(t)
  PROVE  Types'
<1>1. store \in [Rec -> Val \cup {Absent}] /\ victim \in SUBSET Trans
  BY DEF Types
<1>2. \A x : Open(x) => x \in Iterator
  BY DEF Open
<1>3. \A i \in Iter : it'[i] # NoObject /\ Rest /\ UNCHANGED txn => Open(it[i])'
  BY DEF Rest, Open, Types
<1>4. \A k \in Key :
         /\ Open(end(t)) /\ Open(begin(t)) /\ Open(find(k, t)) /\ Open(find_partial(k, t))
         /\ Open(lower_bound(k, t)) /\ Open(upper_bound(k, t)) /\ Open(Unpositioned(t))
  BY CallsAreOpen
<1>5. Key # {}
  BY DEF Key, Rec
<1>6. Open(end(t)) /\ Open(begin(t)) /\ Open(Unpositioned(t))
  BY <1>4, <1>5
<1>7. CASE Clear(t)
  <2>1. WellOpen(erasing)'
    <3>1. WellOpen(Entered(begin(t), end(t), NoTrans)) /\ WellOpen(erasing)
      BY <1>6, EnteredIsWellOpen DEF Given, Types
    <3> QED BY <1>7, <3>1, WellOpenAfter DEF Clear, Rest
  <2>2. victim' \in SUBSET Trans
    BY <1>7, RefuseTypes DEF Clear
  <2> QED BY <1>3, <1>7, <2>1, <2>2 DEF Clear, Rest, Types
<1>8. ASSUME NEW r \in Rec, NEW v \in Val, InsertRangeStart(r, v, t)
      PROVE  Types'
  <2>1. inserting' \in [rec : Rec, val : Val, trans : Given]
    BY <1>8 DEF InsertRangeStart
  <2>2. WellOpen(erasing)'
    BY <1>8, WellOpenAfter DEF InsertRangeStart, Rest, Types
  <2> QED BY <1>3, <1>8, <2>1, <2>2 DEF InsertRangeStart, Rest, Types
<1>9. ASSUME NEW k \in Key, EraseKey(k, t) PROVE Types'
  BY <1>1, <1>9, CallTypes, RefuseTypes, StoreTypes DEF EraseKey
<1>10. ASSUME NEW r \in Rec, NEW v \in Val, Put(r, v, t) PROVE Types'
  BY <1>1, <1>10, CallTypes, RefuseTypes, StoreTypes DEF Put
<1>11. ASSUME NEW r \in Rec, NEW v \in Val, NEW i \in Iter, Insert(i, r, v, t)
       PROVE  Types'
  <2>1. Open(At(Freshen(t), First({s \in Live \cup {r} : KeyOf(s) = KeyOf(r)})))
    BY AtIsOpen, LiveAreRec
  <2>2. store' \in [Rec -> Val \cup {Absent}]
    BY <1>1, <1>11, StoreTypes DEF Insert
  <2>3. victim' \in SUBSET Trans
    BY <1>11, RefuseTypes DEF Insert
  <2>4. UNCHANGED it \/ \E x \in Iterator : Open(x) /\ Assign(i, x)
    BY <1>2, <1>6, <1>11, <2>1 DEF Insert
  <2> QED BY <1>11, <2>2, <2>3, <2>4, CallTypes DEF Insert
<1>12. ASSUME NEW i \in Iter, Begin(i, t) \/ End(i, t) PROVE Types'
  BY <1>1, <1>2, <1>6, <1>12, CallTypes, RefuseTypes DEF Begin, End, Makes
<1>13. ASSUME NEW i \in Iter, NEW k \in Key, Find(i, k, t) \/ FindPartial(i, k, t)
       PROVE  Types'
  BY <1>1, <1>2, <1>4, <1>13, CallTypes, RefuseTypes DEF Find, FindPartial
<1>14. ASSUME NEW i \in Iter, NEW k \in Key, LowerBound(i, k, t)
       PROVE  Types'
  BY <1>1, <1>2, <1>4, <1>14, CallTypes, RefuseTypes DEF LowerBound
<1>15. ASSUME NEW i \in Iter, NEW k \in Key, UpperBound(i, k, t)
       PROVE  Types'
  <2>1. Open(moveCursor(Unpositioned(t), DB_NEXT_NODUP))
    BY <1>6, MoveIsOpen DEF Moving
  <2> QED BY <1>1, <1>2, <1>4, <1>15, <2>1, CallTypes, RefuseTypes DEF UpperBound
<1> QED BY <1>7, <1>8, <1>9, <1>10, <1>11, <1>12, <1>13, <1>14, <1>15 DEF DatabaseStep

LEMMA SubscriptTypes ==
  ASSUME Types, NEW k \in Key, NEW v \in Val, Subscript(k, v)
  PROVE  Types'
<1>1. Slot(k) \notin Rec \/ Slot(k) \in Rec
  OBVIOUS
<1>2. \A w \in Val : [store EXCEPT ![Slot(k)] = w] \in [Rec -> Val \cup {Absent}]
  BY <1>1 DEF Types
<1>3. store' \in [Rec -> Val \cup {Absent}] /\ UNCHANGED it /\ Quiet
  BY <1>2, ValueAssumption DEF Subscript, Types
<1>4. victim' \in SUBSET Trans
  BY RefuseTypes DEF Subscript
<1> QED BY <1>3, <1>4, CallTypes

\* A step of erase(iter, last) leaves what is not its own alone.
LEMMA EraseLoopKeeps ==
  ASSUME Types, EraseLoop
  PROVE  /\ UNCHANGED <<it, txn, implicit, inserting>> /\ victim' \in SUBSET Trans
         /\ UNCHANGED store \/ EraseOne
<1>1. ASSUME NEW x \in Operands, CompareKeys(x) \/ CompareValues(x)
      PROVE  UNCHANGED <<it, txn, implicit, inserting, victim, store>>
  BY <1>1 DEF CompareKeys, CompareValues, Reads, Rest
<1>2. CASE EraseRangeThrows
  <2>1. victim' \in SUBSET Trans
    BY <1>2, RefuseTypes DEF EraseRangeThrows, TurnThrows
  <2> QED BY <1>2, <2>1 DEF EraseRangeThrows, Rest
<1> QED BY <1>1, <1>2 DEF EraseLoop, MoveNext, ReadFirst, EraseOne, Crash, Rest, Types

\* Each step of the loop, as it changes the loop's variables.
LEMMA LoopIsWellOpen ==
  ASSUME Types, EraseLoop
  PROVE  WellOpen(erasing)'
<1>1. WellOpen(erasing) /\ UNCHANGED txn
  BY EraseLoopKeeps DEF Types
<1>2. ASSUME NEW x \in Operands, CompareKeys(x)
      PROVE  WellOpen(erasing)'
  <2>1. erasing.step = "keys"
    BY <1>2 DEF CompareKeys, Reads
  <2>2. \/ erasing' = [erasing EXCEPT !.unread = @ \ {x}]
        \/ erasing' = [erasing EXCEPT !.step = "values", !.unread = Operands]
        \/ erasing' = [erasing EXCEPT !.step = "move", !.unread = {}]
    BY <1>2 DEF CompareKeys
  <2>3. PICK e : e = erasing'
    OBVIOUS
  <2>4. WellOpen(e)
    BY <1>1, <2>1, <2>2, <2>3 DEF WellOpen, Loop, Running
  <2> QED BY <1>1, <2>3, <2>4, WellOpenAfter
<1>3. ASSUME NEW x \in Operands, CompareValues(x)
      PROVE  WellOpen(erasing)'
  <2>1. erasing.step = "values" /\ Operand(x).at \in Rec
    BY <1>3, LiveAreRec DEF CompareValues, Reads, Readable
  <2>2. PICK v : v = store[Operand(x).at] /\ v \in Val \cup {Absent}
    BY <2>1 DEF Types
  <2>3. PICK b \in BOOLEAN : b = (erasing.lost \/ SameRecord)
    BY DEF SameRecord
  <2>4. \/ erasing' = [erasing EXCEPT !.unread = @ \ {x}, !.seen = v]
        \/ erasing' = NotErasing
        \/ erasing' = [erasing EXCEPT !.step = "move", !.unread = {}, !.seen = Absent,
                                       !.lost = b]
    BY <1>3, <2>2, <2>3 DEF CompareValues
  <2>5. PICK e : e = erasing'
    OBVIOUS
  <2>6. WellOpen(e)
    <3>1. CASE e = [erasing EXCEPT !.unread = @ \ {x}, !.seen = v]
      BY <1>1, <2>1, <2>2, <3>1 DEF WellOpen, Loop, Running
    <3>2. CASE e = [erasing EXCEPT !.step = "move", !.unread = {}, !.seen = Absent, !.lost = b]
      BY <1>1, <2>1, <3>2 DEF WellOpen, Loop, Running
    <3> QED BY <2>4, <2>5, <3>1, <3>2, IdleIsWellOpen
  <2> QED BY <1>1, <2>5, <2>6, WellOpenAfter
<1>4. CASE MoveNext
  <2>1. erasing.step = "move" /\ Open(erasing.iter)
    BY <1>1, <1>4 DEF MoveNext, WellOpen, Running
  <2>2. PICK n : n = moveCursor(erasing.iter, DB_NEXT) /\ Open(n)
    BY <2>1, MoveIsOpen DEF Moving
  <2>3. PICK b \in BOOLEAN :
           b = (erasing.lost \/ (erasing.last.at # AtEnd /\ erasing.last.at \notin Live))
    OBVIOUS
  <2>4. PICK e : e = [erasing EXCEPT !.step = "read", !.next = n, !.lost = b]
    OBVIOUS
  <2>5. erasing' = e
    BY <1>4, <2>2, <2>3, <2>4 DEF MoveNext
  <2>6. WellOpen(e)
    <3>1. n \in Iterator
      BY <2>2 DEF Open
    <3> QED BY <1>1, <2>1, <2>2, <2>4, <3>1 DEF WellOpen, Loop, Running
  <2> QED BY <1>1, <2>5, <2>6, WellOpenAfter
<1>5. CASE ReadFirst
  <2>1. erasing.step = "read" /\ erasing' = [erasing EXCEPT !.step = "erase"]
    BY <1>5 DEF ReadFirst
  <2>2. WellOpen([erasing EXCEPT !.step = "erase"])
    BY <1>1, <2>1 DEF WellOpen, Loop, Running
  <2> QED BY <1>1, <2>1, <2>2, WellOpenAfter
<1>6. CASE EraseOne
  <2> DEFINE e == [erasing EXCEPT !.iter = erasing.next, !.next = NoObject]
  <2>1. erasing.step = "erase" /\ erasing' = Turn(e)
    BY <1>6 DEF EraseOne
  <2>2. e \in Loop /\ Open(e.iter) /\ Open(e.last) /\ e.next = NoObject
    BY <1>1, <2>1 DEF WellOpen, Loop, Running
  <2> HIDE DEF e
  <2>3. WellOpen(Turn(e))
    BY <2>2, TurnIsWellOpen
  <2> QED BY <1>1, <2>1, <2>3, WellOpenAfter
<1>7. CASE Crash
  <2>1. WellOpen([NotErasing EXCEPT !.step = "crashed"])
    BY DEF WellOpen, NotErasing, Loop, Running, Given
  <2> QED BY <1>1, <1>7, <2>1, WellOpenAfter DEF Crash
<1>8. CASE EraseRangeThrows
  BY <1>1, <1>8, IdleIsWellOpen, WellOpenAfter DEF EraseRangeThrows
<1> QED BY <1>2, <1>3, <1>4, <1>5, <1>6, <1>7, <1>8 DEF EraseLoop

LEMMA EraseTypes ==
  ASSUME Types, EraseLoop
  PROVE  Types'
<1>1. WellOpen(erasing)'
  BY LoopIsWellOpen
<1>2. /\ UNCHANGED <<it, txn, implicit, inserting>> /\ victim' \in SUBSET Trans
      /\ UNCHANGED store \/ EraseOne
  BY EraseLoopKeeps
<1>3. \A i \in Iter : it'[i] # NoObject => Open(it[i])'
  BY <1>2 DEF Open, Types
<1>4. store' \in [Rec -> Val \cup {Absent}]
  <2>1. CASE EraseOne
    <3>1. PICK k : k = ErasedKey
      OBVIOUS
    <3>2. store' = [r \in Rec |-> IF KeyOf(r) = k THEN Absent ELSE store[r]]
      BY <2>1, <3>1 DEF EraseOne
    <3> QED BY <3>2, StoreTypes
  <2> QED BY <1>2, <2>1 DEF Types
<1> QED BY <1>1, <1>2, <1>3, <1>4 DEF Types

LEMMA InsertTypes ==
  ASSUME Types, InsertLoop
  PROVE  Types'
<1>1. Rest /\ UNCHANGED erasing
  BY DEF InsertLoop, InsertRangeStep, InsertRangeThrows
<1>2. \A i \in Iter : it'[i] # NoObject => Open(it[i])'
  BY <1>1 DEF Rest, Open, Types
<1>3. WellOpen(erasing)'
  BY <1>1, WellOpenAfter DEF Rest, Types
<1>4. victim' \in SUBSET Trans
  BY RefuseTypes DEF InsertLoop, InsertRangeStep, InsertRangeThrows
<1>5. CASE InsertRangeStep
  <2>1. inserting \in [rec : Rec, val : Val, trans : Given]
    BY <1>5 DEF InsertRangeStep, Types
  <2>2. store' \in [Rec -> Val \cup {Absent}]
    BY <1>5, <2>1, StoreTypes DEF InsertRangeStep
  <2> QED BY <1>1, <1>2, <1>3, <1>4, <1>5, <2>1, <2>2 DEF InsertRangeStep, Rest, Types
<1>6. CASE InsertRangeThrows
  BY <1>1, <1>2, <1>3, <1>4, <1>6 DEF InsertRangeThrows, Rest, Types
<1> QED BY <1>5, <1>6 DEF InsertLoop

\* A transaction that commits has no cursor.
LEMMA TransTypes ==
  ASSUME Types, NEW t \in Trans, StartTransaction(t) \/ setImplicitTransaction(t) \/ Commit(t)
  PROVE  Types'
<1>1. UNCHANGED <<store, it, victim, erasing, inserting>>
  BY DEF StartTransaction, setImplicitTransaction, Commit
<1>2. /\ txn' \in [Trans -> {"unused", "running", "ended"}]
      /\ implicit' \in Trans \cup {NoTrans}
  BY DEF StartTransaction, setImplicitTransaction, Commit, Types
<1>3. ASSUME NEW x \in Iterator, Open(x), x # NoObject,
             x \in {it[i] : i \in Iter} \cup {erasing.iter, erasing.last, erasing.next}
      PROVE  x.at # AtEnd /\ x.within \in Trans => txn'[x.within] = "running"
  <2>1. CASE Commit(t)
    <3>1. x.at # AtEnd => x.within # t
      BY <1>3, <2>1 DEF Commit, HasCursor
    <3> QED BY <1>3, <2>1, <3>1 DEF Commit, Types, Open
  <2>2. CASE StartTransaction(t)
    BY <1>3, <2>2 DEF StartTransaction, Types, Open
  <2>3. CASE setImplicitTransaction(t)
    BY <1>3, <2>3 DEF setImplicitTransaction, Open
  <2> QED BY <2>1, <2>2, <2>3
<1>4. \A i \in Iter : it[i] # NoObject => Open(it[i])'
  BY <1>1, <1>3 DEF Types, Open
<1>5. WellOpen(erasing)'
  <2>1. ASSUME NEW x \in {erasing.iter, erasing.last, erasing.next}, Open(x)
        PROVE  x.at # AtEnd /\ x.within \in Trans => txn'[x.within] = "running"
    BY <1>3, <2>1, ObjectAssumption DEF Open
  <2>2. \A x \in {erasing.iter, erasing.last, erasing.next} : Open(x) =>
           x \in Iterator /\ (x.at # AtEnd /\ x.within \in Trans => txn'[x.within] = "running")
    BY <2>1 DEF Open
  <2>3. WellOpen(erasing)
    BY DEF Types
  <2>4. /\ Open(erasing.iter) => Open(erasing.iter)'
        /\ Open(erasing.last) => Open(erasing.last)'
        /\ Open(erasing.next) => Open(erasing.next)'
    BY <1>1, <2>2 DEF Open
  <2> QED BY <1>1, <2>3, <2>4 DEF WellOpen
<1> QED BY <1>1, <1>2, <1>4, <1>5 DEF Types

LEMMA NextTypes ==
  ASSUME Types, [Next]_vars
  PROVE  Types'
<1>1. CASE UNCHANGED vars
  BY <1>1 DEF vars, Types, Open, WellOpen
<1>2. CASE Next
  BY <1>2, IteratorTypes, DatabaseTypes, SubscriptTypes, EraseTypes, InsertTypes, TransTypes
     DEF Next
<1> QED BY <1>1, <1>2

LEMMA TypesAlways == Spec => []Types
  BY InitTypes, NextTypes, PTL DEF Spec

\* Every variable keeps its type, and every open cursor belongs to a
\* transaction that runs or to none: raw() gives no ended one, and a commit
\* waits for the cursors.
THEOREM TypeCorrect == Spec => []TypeOK
<1>1. Types => TypeOK
  <2> SUFFICES ASSUME Types PROVE TypeOK
    OBVIOUS
  <2>1. WellOpen(erasing) /\ erasing \in Loop
    BY DEF Types, WellOpen
  <2>2. ASSUME NEW t \in Trans, HasCursor(t) PROVE txn[t] = "running"
    <3>1. PICK x \in {it[i] : i \in Iter} \cup {erasing.iter, erasing.last, erasing.next} :
             x # NoObject /\ x.at # AtEnd /\ x.within = t
      BY <2>2 DEF HasCursor
    <3>2. Open(x)
      BY <2>1, <3>1 DEF Types, WellOpen
    <3> QED BY <3>1, <3>2 DEF Open
  <2>3. inserting \in {NotInserting} \cup [rec : Rec, val : Val, trans : Trans \cup {NoTrans}]
    BY DEF Types, Given
  <2> QED BY <2>1, <2>2, <2>3 DEF Types, TypeOK, Loop, Running, Given
<1> QED BY <1>1, TypesAlways, PTL

-----------------------------------------------------------------------------
(* Where the moves lead from a record. *)

\* The least record of a set, or the end.
FirstAt(S) == IF S = {} THEN AtEnd ELSE Min(S)

\* At: where an iterator on the first record of a set is.
LEMMA AtIsAt ==
  ASSUME NEW t, NEW S, S \subseteq Rec
  PROVE  At(t, First(S)).at = FirstAt(S)
  BY FirstIs DEF At, FirstAt

\* The position after a move is that of the record found.
LEMMA MoveAt ==
  ASSUME NEW x \in Iterator, x.at \in Rec, NEW f \in Moving
  PROVE  moveCursor(x, f).at = FirstAt(CGet(x.at, f))
<1>1. Moved(x) = x /\ Asked(x, f) = f
  BY EndIsNoRecord DEF Moved, Asked
<1>2. setCursorToEnd(x).at = AtEnd
  BY DEF setCursorToEnd, Iterator
<1>3. \A p : [x EXCEPT !.at = p].at = p
  BY DEF Iterator
<1>4. moveCursor(x, f) = IF CGet(x.at, f) = {} THEN setCursorToEnd(x)
                         ELSE [x EXCEPT !.at = Min(CGet(x.at, f))]
  BY <1>1, MoveCursorIs
<1> QED BY <1>2, <1>3, <1>4 DEF FirstAt

\* operator++ goes to the next live record.
LEMMA NextAt ==
  ASSUME NEW x \in Iterator, x.at \in Rec
  PROVE  moveCursor(x, DB_NEXT).at = FirstAt({r \in Live : r > x.at})
<1> DEFINE after == {r \in Live : r > x.at}
<1>1. CGet(x.at, DB_NEXT) = First(after)
  BY CGetIs
<1>2. after \subseteq Rec /\ First(after) \subseteq Rec
  BY LiveAreRec, FirstIs
<1>3. FirstAt(First(after)) = FirstAt(after)
  BY <1>2, FirstIs DEF FirstAt
<1> QED BY <1>1, <1>3, MoveAt DEF Moving

\* moveCursorNextDup() goes to the next live record of the key.
LEMMA NextDupAt ==
  ASSUME NEW x \in Iterator, x.at \in Rec
  PROVE  moveCursor(x, DB_NEXT_DUP).at =
            FirstAt({r \in Live : r > x.at /\ KeyOf(r) = KeyOf(x.at)})
<1> DEFINE after == {r \in Live : r > x.at}
           dups == {r \in Live : r > x.at /\ KeyOf(r) = KeyOf(x.at)}
           found == {r \in First(after) : KeyOf(r) = KeyOf(x.at)}
<1>1. CGet(x.at, DB_NEXT_DUP) = found
  <2>1. CGet(x.at, DB_NEXT_DUP) = {r \in First(after) : x.at # Unset /\ KeyOf(r) = KeyOf(x.at)}
    BY CGetIs
  <2> QED BY <2>1, EndIsNoRecord
<1>2. after \subseteq Rec /\ dups \subseteq after /\ dups \subseteq Rec /\ found \subseteq Rec
  BY LiveAreRec, FirstIs
<1>3. /\ \A r \in after : x.at < r
      /\ \A r \in dups : KeyOf(r) = KeyOf(x.at)
      /\ \A r \in after : KeyOf(r) = KeyOf(x.at) => r \in dups
  BY LiveAreRec DEF Rec
<1>4. Rec \subseteq Nat \ {0}
  BY DEF Rec
<1> HIDE DEF after, dups
<1>5. CASE dups = {}
  <2>1. found = {}
    BY <1>2, <1>3, <1>5, FirstIs
  <2> QED BY <1>1, <1>5, <2>1, MoveAt DEF Moving, FirstAt, dups
<1>6. CASE dups # {}
  <2>1. after # {} /\ First(after) = {Min(after)} /\ Min(after) \in after
    BY <1>2, <1>6, FirstIs
  <2>2. Min(dups) \in dups /\ \A r \in dups : Min(dups) =< r
    BY <1>2, <1>6, MinIsLeast
  <2>3. Min(after) =< Min(dups)
    BY <1>2, <2>1, <2>2, MinIsLeast
  <2>4. x.at \in Nat \ {0} /\ Min(after) \in Nat \ {0} /\ Min(dups) \in Nat \ {0}
    BY <1>2, <1>4, <2>1, <2>2
  <2>5. x.at =< Min(after)
    BY <1>3, <2>1, <2>4
  <2>6. KeyOf(x.at) =< KeyOf(Min(after)) /\ KeyOf(Min(after)) =< KeyOf(Min(dups))
    BY <2>3, <2>4, <2>5, KeysInOrder
  <2>7. KeyOf(x.at) \in Nat /\ KeyOf(Min(after)) \in Nat /\ KeyOf(Min(dups)) = KeyOf(x.at)
    BY <1>2, <1>3, <2>1, <2>2, KeyIsNat
  <2>8. KeyOf(Min(after)) = KeyOf(x.at)
    BY <2>6, <2>7
  <2>9. Min(after) \in dups
    BY <1>3, <2>1, <2>8
  <2>10. Min(dups) = Min(after)
    BY <2>2, <2>3, <2>4, <2>9
  <2>11. found = First(after)
    BY <2>1, <2>8
  <2>12. FirstAt(found) = Min(dups)
    BY <1>2, <2>1, <2>10, <2>11, FirstIs DEF FirstAt
  <2> QED BY <1>1, <1>6, <2>12, MoveAt DEF Moving, FirstAt, dups
<1> QED BY <1>5, <1>6

\* upper_bound() goes on to the first live record of a greater key.
LEMMA NextNodupAt ==
  ASSUME NEW x \in Iterator, x.at \in Rec
  PROVE  moveCursor(x, DB_NEXT_NODUP).at = FirstAt({r \in Live : KeyOf(r) > KeyOf(x.at)})
<1> DEFINE others == {r \in Live : r > x.at /\ KeyOf(r) # KeyOf(x.at)}
           above == {r \in Live : KeyOf(r) > KeyOf(x.at)}
<1>1. CGet(x.at, DB_NEXT_NODUP) = First(others)
  <2>1. CGet(x.at, DB_NEXT_NODUP) =
           First({r \in {s \in Live : s > x.at} : ~(x.at # Unset /\ KeyOf(r) = KeyOf(x.at))})
    BY CGetIs
  <2>2. {r \in {s \in Live : s > x.at} : ~(x.at # Unset /\ KeyOf(r) = KeyOf(x.at))} = others
    BY EndIsNoRecord
  <2> QED BY <2>1, <2>2
<1>2. others = above
  <2>1. ASSUME NEW r \in Live
        PROVE  r > x.at /\ KeyOf(r) # KeyOf(x.at) <=> KeyOf(r) > KeyOf(x.at)
    <3>1. r \in Rec /\ x.at \in Rec /\ r \in Nat \ {0} /\ x.at \in Nat \ {0}
      BY LiveAreRec DEF Rec
    <3>2. KeyOf(r) \in Nat /\ KeyOf(x.at) \in Nat
      BY <3>1, KeyIsNat
    <3>3. (r =< x.at => KeyOf(r) =< KeyOf(x.at)) /\ (x.at =< r => KeyOf(x.at) =< KeyOf(r))
      BY <3>1, KeysInOrder
    <3> QED BY <3>1, <3>2, <3>3
  <2> QED BY <2>1
<1>3. others \subseteq Rec
  BY LiveAreRec
<1>4. FirstAt(First(others)) = FirstAt(others)
  BY <1>3, FirstIs DEF FirstAt
<1> QED BY <1>1, <1>2, <1>4, MoveAt DEF Moving

\* operator-- goes to the last live record before the iterator, if there is one.
LEMMA PrevAt ==
  ASSUME NEW x \in Iterator, x.at \in Rec \cup {AtEnd}, \E r \in Live : r < x.at
  PROVE  moveCursor(x, DB_PREV).at = Max({r \in Live : r < x.at})
<1> DEFINE before == {r \in Live : r < x.at}
<1>1. before # {} /\ before \subseteq Rec
  BY LiveAreRec
<1>0. \A r \in Rec : r \in Nat /\ r =< NumRec
  BY DEF Rec
<1>2. Last(before) # {} /\ Min(Last(before)) = Max(before)
  BY <1>1, LastIs
<1>3. CGet(Moved(x).at, Asked(x, DB_PREV)) = Last(before)
  <2>1. CASE x.at = AtEnd
    <3>1. before = Live
      <4>1. \A r \in Live : r \in Nat /\ r =< NumRec
        BY <1>0, LiveAreRec
      <4>2. \A r \in Live : r < AtEnd
        BY <4>1 DEF AtEnd
      <4> QED BY <2>1, <4>2
    <3>2. Asked(x, DB_PREV) = DB_LAST
      BY <2>1 DEF Asked
    <3>3. CGet(Moved(x).at, DB_LAST) = Last(Live)
      BY CGetIs
    <3> QED BY <3>1, <3>2, <3>3
  <2>2. CASE x.at # AtEnd
    <3>1. Moved(x).at = x.at /\ Asked(x, DB_PREV) = DB_PREV /\ x.at # Unset
      BY <2>2, EndIsNoRecord DEF Moved, Asked
    <3>2. CGet(x.at, DB_PREV) = Last({r \in Live : x.at = Unset \/ r < x.at})
      BY CGetIs
    <3>3. {r \in Live : x.at = Unset \/ r < x.at} = before
      BY <3>1
    <3> QED BY <3>1, <3>2, <3>3
  <2> QED BY <2>1, <2>2
<1>4. \A p : [Moved(x) EXCEPT !.at = p].at = p
  BY DEF Moved, Opened, Iterator
<1> QED BY <1>2, <1>3, <1>4, MoveCursorIs DEF Moving

-----------------------------------------------------------------------------
(* erase(iter, last). *)

Place == Rec \cup {AtEnd}

\* A loop that is not lost: iter and next have not passed last, and a record is
\* moved from, read and erased only if it is before last.
InRangeOf(e) ==
    ~e.lost /\ e.step \in Running =>
       /\ {e.iter.at, e.last.at} \subseteq Place /\ e.iter.at =< e.last.at
       /\ e.step \in {"keys", "values"} => {e.iter.at, e.last.at} \subseteq Rec
       /\ e.step \in {"move", "read", "erase"} => e.iter.at \in Rec /\ e.iter.at < e.last.at
       /\ e.step \in {"read", "erase"} => e.next.at \in Place /\ e.next.at =< e.last.at

InRange == InRangeOf(erasing)

LEMMA PositionsAreNat ==
  ASSUME NEW x \in Iterator
  PROVE  x.at \in Nat /\ x.at =< AtEnd
  BY DEF Iterator, Rec, AtEnd, Unset

LEMMA PlacesAreNat ==
  /\ \A r \in Rec : r \in Nat /\ r > 0 /\ r < AtEnd /\ r \in Place
  /\ \A p \in Place : p \in Nat /\ p > 0 /\ p =< AtEnd
  BY DEF Place, Rec, AtEnd

\* Positions decide whether a comparison reads: one null cursor is iter's only if
\* it is also last's.
LEMMA TurnInRange ==
  ASSUME NEW e \in Loop,
         ~e.lost => /\ e.iter.at \in Place /\ e.last.at \in Place /\ e.iter.at =< e.last.at
  PROVE  InRangeOf(Turn(e))
<1>1. CASE e.iter.at = AtEnd /\ e.last.at = AtEnd
  BY <1>1 DEF Turn, InRangeOf, NotErasing, Running
<1>2. CASE e.iter.at # AtEnd /\ e.last.at # AtEnd
  <2>1. Turn(e) = [e EXCEPT !.step = "keys", !.unread = Operands]
    BY <1>2 DEF Turn
  <2> QED BY <1>2, <2>1 DEF InRangeOf, Loop, Running, Place
<1>3. CASE ~(e.iter.at = AtEnd /\ e.last.at = AtEnd) /\ ~(e.iter.at # AtEnd /\ e.last.at # AtEnd)
  <2>1. Turn(e) = [e EXCEPT !.step = "move"]
    BY <1>3 DEF Turn
  <2>2. ~e.lost => e.iter.at \in Rec /\ e.iter.at < e.last.at
    <3> SUFFICES ASSUME ~e.lost PROVE e.iter.at \in Rec /\ e.iter.at < e.last.at
      OBVIOUS
    <3>1. e.iter.at # AtEnd
      BY <1>3, PlacesAreNat, EndIsNoRecord
    <3>2. e.last.at = AtEnd /\ e.iter.at \in Rec
      BY <1>3, <3>1 DEF Place
    <3> QED BY <3>2 DEF AtEnd, Rec
  <2> QED BY <2>1, <2>2 DEF InRangeOf, Loop, Running
<1> QED BY <1>1, <1>2, <1>3

\* A range that is entered is one, or counts as lost.
LEMMA EnteredInRange ==
  ASSUME NEW x, NEW y, Open(x), Open(y), NEW t \in Given
  PROVE  InRangeOf(Entered(x, y, t))
<1> DEFINE e == [NotErasing EXCEPT !.iter = x, !.last = y, !.trans = t, !.lost = ~IsRange(x, y)]
<1>1. e \in Loop /\ e.iter = x /\ e.last = y /\ e.lost = ~IsRange(x, y)
  BY DEF NotErasing, Loop, Open, IsRange
<1>2. IsRange(x, y) => x.at \in Place /\ y.at \in Place /\ x.at =< y.at
  BY LiveAreRec DEF IsRange, Readable, Place
<1> HIDE DEF e
<1>3. InRangeOf(Turn(e))
  BY <1>1, <1>2, TurnInRange
<1> QED BY <1>3 DEF Entered, e

\* Steps of the loop.  The next live record is not behind last, if last is live
\* or the end when the cursor moves.
LEMMA LoopInRange ==
  ASSUME Types, InRange, EraseLoop
  PROVE  InRange'
<1>1. WellOpen(erasing) /\ erasing \in Loop
  BY DEF Types, WellOpen
<1>2. InRangeOf(erasing)
  BY DEF InRange
<1>3. SUFFICES InRangeOf(erasing')
  BY DEF InRange, InRangeOf, Place, Rec, AtEnd
<1>4. ASSUME NEW x \in Operands, CompareKeys(x)
      PROVE  InRangeOf(erasing')
  <2>1. erasing.step = "keys"
    BY <1>4 DEF CompareKeys, Reads
  <2>2. CASE erasing' = [erasing EXCEPT !.unread = @ \ {x}]
    BY <1>1, <1>2, <2>1, <2>2 DEF InRangeOf, Loop, Running
  <2>3. CASE erasing' = [erasing EXCEPT !.step = "values", !.unread = Operands]
    BY <1>1, <1>2, <2>1, <2>3 DEF InRangeOf, Loop, Running
  <2>4. CASE ~SameKey /\ erasing' = [erasing EXCEPT !.step = "move", !.unread = {}]
    <3>1. erasing.iter.at # erasing.last.at
      BY <2>4 DEF SameKey
    <3>2. ~erasing.lost => /\ erasing.iter.at \in Rec /\ erasing.last.at \in Rec
                           /\ erasing.iter.at =< erasing.last.at
      BY <1>2, <2>1 DEF InRangeOf, Running
    <3>3. ~erasing.lost => erasing.iter.at < erasing.last.at
      BY <3>1, <3>2, PlacesAreNat
    <3> QED BY <1>1, <1>2, <2>1, <2>4, <3>2, <3>3 DEF InRangeOf, Loop, Running
  <2> QED BY <1>4, <2>2, <2>3, <2>4 DEF CompareKeys
<1>5. ASSUME NEW x \in Operands, CompareValues(x)
      PROVE  InRangeOf(erasing')
  <2>1. erasing.step = "values"
    BY <1>5 DEF CompareValues, Reads
  <2>2. PICK v : v = store[Operand(x).at]
    OBVIOUS
  <2>3. PICK b \in BOOLEAN : b = (erasing.lost \/ SameRecord)
    BY DEF SameRecord
  <2>4. CASE erasing' = [erasing EXCEPT !.unread = @ \ {x}, !.seen = v]
    BY <1>1, <1>2, <2>1, <2>4 DEF InRangeOf, Loop, Running
  <2>5. CASE erasing' = NotErasing
    BY <2>5 DEF InRangeOf, NotErasing, Running
  <2>6. CASE erasing' = [erasing EXCEPT !.step = "move", !.unread = {}, !.seen = Absent,
                                        !.lost = b]
    <3>1. ~b => /\ erasing.iter.at \in Rec /\ erasing.last.at \in Rec
                /\ erasing.iter.at =< erasing.last.at /\ erasing.iter.at # erasing.last.at
      BY <1>2, <2>1, <2>3 DEF InRangeOf, Running, SameRecord
    <3>2. ~b => erasing.iter.at < erasing.last.at
      BY <3>1, PlacesAreNat
    <3>3. /\ erasing'.iter = erasing.iter /\ erasing'.last = erasing.last
          /\ erasing'.step = "move" /\ erasing'.lost = b
      BY <1>1, <2>6 DEF Loop
    <3> QED BY <3>1, <3>2, <3>3 DEF InRangeOf, Running, Place
  <2> QED BY <1>5, <2>2, <2>3, <2>4, <2>5, <2>6 DEF CompareValues
<1>6. CASE MoveNext
  <2>1. erasing.step = "move" /\ erasing.iter \in Iterator /\ erasing.last \in Iterator
    BY <1>1, <1>6 DEF MoveNext, WellOpen, Running, Open
  <2>2. PICK n : n = moveCursor(erasing.iter, DB_NEXT)
    OBVIOUS
  <2>3. PICK b \in BOOLEAN :
           b = (erasing.lost \/ (erasing.last.at # AtEnd /\ erasing.last.at \notin Live))
    OBVIOUS
  <2>4. erasing' = [erasing EXCEPT !.step = "read", !.next = n, !.lost = b]
    BY <1>6, <2>2, <2>3 DEF MoveNext
  <2>5. /\ erasing'.iter = erasing.iter /\ erasing'.last = erasing.last /\ erasing'.next = n
        /\ erasing'.step = "read" /\ erasing'.lost = b
    BY <1>1, <2>4 DEF Loop
  <2>6. ~b => n.at \in Place /\ n.at =< erasing.last.at
    <3> SUFFICES ASSUME ~b PROVE n.at \in Place /\ n.at =< erasing.last.at
      OBVIOUS
    <3> DEFINE after == {r \in Live : r > erasing.iter.at}
    <3>1. /\ erasing.iter.at \in Rec /\ erasing.iter.at < erasing.last.at
          /\ erasing.last.at \in Live \cup {AtEnd}
      BY <1>2, <2>1, <2>3 DEF InRangeOf, Running
    <3>2. n.at = FirstAt(after) /\ after \subseteq Rec
      BY <2>1, <2>2, <3>1, NextAt, LiveAreRec
    <3>3. n.at \in Place
      BY <3>2, MinIsLeast DEF FirstAt, Place
    <3>4. CASE erasing.last.at = AtEnd
      BY <3>3, <3>4, PlacesAreNat
    <3>5. CASE erasing.last.at \in Live
      <4>1. erasing.last.at \in after
        BY <3>1, <3>5, LiveAreRec, PlacesAreNat
      <4>2. Min(after) =< erasing.last.at
        BY <3>2, <4>1, MinIsLeast
      <4> QED BY <3>2, <3>3, <4>1, <4>2 DEF FirstAt
    <3> QED BY <3>1, <3>4, <3>5
  <2> QED BY <1>2, <2>1, <2>3, <2>5, <2>6 DEF InRangeOf, Running
<1>7. CASE ReadFirst
  <2>1. erasing.step = "read" /\ erasing' = [erasing EXCEPT !.step = "erase"]
    BY <1>7 DEF ReadFirst
  <2> QED BY <1>1, <1>2, <2>1 DEF InRangeOf, Loop, Running
<1>8. CASE EraseOne
  <2> DEFINE e == [erasing EXCEPT !.iter = erasing.next, !.next = NoObject]
  <2>1. erasing.step = "erase" /\ erasing' = Turn(e)
    BY <1>8 DEF EraseOne
  <2>2. /\ e \in Loop /\ e.iter = erasing.next /\ e.last = erasing.last
        /\ e.lost = erasing.lost
    BY <1>1 DEF Loop
  <2>3. ~erasing.lost => /\ erasing.next.at \in Place /\ erasing.last.at \in Place
                         /\ erasing.next.at =< erasing.last.at
    BY <1>2, <2>1 DEF InRangeOf, Running
  <2> HIDE DEF e
  <2>4. InRangeOf(Turn(e))
    BY <2>2, <2>3, TurnInRange
  <2> QED BY <2>1, <2>4
<1>9. CASE Crash
  BY <1>9 DEF Crash, NotErasing, InRangeOf, Running
<1>10. CASE EraseRangeThrows
  BY <1>10 DEF EraseRangeThrows, NotErasing, InRangeOf, Running
<1> QED BY <1>4, <1>5, <1>6, <1>7, <1>8, <1>9, <1>10 DEF EraseLoop

LEMMA NextInRange ==
  ASSUME Types, InRange, [Next]_vars
  PROVE  InRange'
<1>0. \A e : InRangeOf(e) /\ erasing' = e => InRange'
  BY DEF InRange, InRangeOf, Place, Rec, AtEnd
<1>1. CASE UNCHANGED erasing
  BY <1>0, <1>1 DEF InRange
<1>2. ASSUME NEW i \in Iter, NEW j \in Iter, NEW t \in Given, EraseRangeStart(i, j, t)
      PROVE  InRange'
  <2>1. Open(it[i]) /\ Open(it[j])
    BY <1>2 DEF EraseRangeStart, MayUse, Types
  <2>2. erasing' = Entered(it[i], it[j], t)
    BY <1>2 DEF EraseRangeStart
  <2> QED BY <1>0, <2>1, <2>2, EnteredInRange
<1>3. ASSUME NEW t \in Given, Clear(t)
      PROVE  InRange'
  <2>1. Open(begin(t)) /\ Open(end(t))
    <3>1. Key # {}
      BY DEF Key, Rec
    <3> QED BY <3>1, CallsAreOpen
  <2>2. InRangeOf(Entered(begin(t), end(t), NoTrans)) /\ InRangeOf(erasing)
    BY <2>1, EnteredInRange DEF InRange, Given
  <2> QED BY <1>0, <1>3, <2>2 DEF Clear
<1>4. CASE EraseLoop
  BY <1>4, LoopInRange
<1>6. ASSUME NEW i \in Iter, IteratorStep(i)
      PROVE  UNCHANGED erasing \/ \E j \in Iter, t \in Given : EraseRangeStart(i, j, t)
  BY <1>6 DEF IteratorStep, Increment, Decrement, moveCursorNextDup, Destroy, EraseAt, Copy,
              SetValue, Moves, Quiet
<1>7. ASSUME NEW t \in Given, DatabaseStep(t)
      PROVE  UNCHANGED erasing \/ Clear(t)
  BY <1>7 DEF DatabaseStep, InsertRangeStart, EraseKey, Put, Insert, Begin, End, Makes, Find,
              FindPartial, LowerBound, UpperBound, Quiet, Rest
<1>8. ASSUME NEW k \in Key, NEW v \in Val, Subscript(k, v)
      PROVE  UNCHANGED erasing
  BY <1>8 DEF Subscript, Quiet
<1>9. CASE InsertLoop
  BY <1>1, <1>9 DEF InsertLoop, InsertRangeStep, InsertRangeThrows
<1>10. ASSUME NEW t \in Trans, StartTransaction(t) \/ setImplicitTransaction(t) \/ Commit(t)
       PROVE  UNCHANGED erasing
  BY <1>10 DEF StartTransaction, setImplicitTransaction, Commit
<1>11. CASE UNCHANGED vars
  BY <1>1, <1>11 DEF vars
<1>12. CASE \E i \in Iter : IteratorStep(i)
  BY <1>1, <1>2, <1>6, <1>12
<1>13. CASE \E t \in Given : DatabaseStep(t)
  BY <1>1, <1>3, <1>7, <1>13
<1> QED BY <1>1, <1>4, <1>8, <1>9, <1>10, <1>11, <1>12, <1>13 DEF Next

\* erase(iter, last) and clear() remove only records of keys from that of *iter
\* to that of the last record before last, and do not read through a null cursor,
\* with the calls of other threads between any two of theirs: unless they were
\* not given a range, last's record was gone at a ++next, or the value of the
\* record at which iter reached last changed while the two were compared.
THEOREM EraseRangeSoundHolds == Spec => EraseRangeSound
<1>1. Init => InRange
  BY DEF Init, InRange, InRangeOf, NotErasing, Running
<1>2. Types /\ InRange /\ [Next]_vars => InRange'
  BY NextInRange
<1>3. Types /\ InRange =>
         [~erasing.lost =>
            /\ ~Crash
            /\ EraseOne => \A r \in Rec : store'[r] # store[r] =>
                              /\ KeyOf(erasing.iter.at) =< KeyOf(r)
                              /\ KeyOf(r) =< KeyOf(erasing.last.at - 1)]_vars
  <2> SUFFICES ASSUME Types, InRange, ~erasing.lost
               PROVE  /\ ~Crash
                      /\ EraseOne => \A r \in Rec : store'[r] # store[r] =>
                                        /\ KeyOf(erasing.iter.at) =< KeyOf(r)
                                        /\ KeyOf(r) =< KeyOf(erasing.last.at - 1)
    OBVIOUS
  <2>1. ~Crash
    BY EndIsNoRecord DEF Crash, InRange, InRangeOf, Running
  <2>2. ASSUME EraseOne, NEW r \in Rec, store'[r] # store[r]
        PROVE  /\ KeyOf(erasing.iter.at) =< KeyOf(r)
               /\ KeyOf(r) =< KeyOf(erasing.last.at - 1)
    <3>1. KeyOf(r) = KeyOf(erasing.iter.at)
      BY <2>2 DEF EraseOne, ErasedKey
    <3>2. /\ erasing.iter.at \in Rec /\ erasing.last.at \in Place
          /\ erasing.iter.at < erasing.last.at
      BY <2>2 DEF EraseOne, InRange, InRangeOf, Running
    <3>3. /\ erasing.iter.at \in Nat \ {0} /\ erasing.last.at - 1 \in Nat \ {0}
          /\ erasing.iter.at =< erasing.last.at - 1
      BY <3>2, PlacesAreNat
    <3>4. KeyOf(erasing.iter.at) =< KeyOf(erasing.last.at - 1)
      BY <3>3, KeysInOrder
    <3>5. KeyOf(r) \in Nat
      BY KeyIsNat
    <3> QED BY <3>1, <3>4, <3>5
  <2> QED BY <2>1, <2>2
<1>4. Spec => []InRange
  BY <1>1, <1>2, TypesAlways, PTL DEF Spec
<1> QED BY <1>3, <1>4, TypesAlways, PTL DEF EraseRangeSound

-----------------------------------------------------------------------------
(* The sorted map: its operators are this module's. *)

LEMMA SameOperators ==
  /\ M!Rec = Rec /\ M!Key = Key /\ M!AtEnd = AtEnd /\ M!Live = Live
  /\ \A r : M!KeyOf(r) = KeyOf(r)
  /\ \A S : M!Min(S) = Min(S) /\ M!Max(S) = Max(S) /\ M!FirstOf(S) = FirstAt(S)
<1>1. M!Rec = Rec /\ M!AtEnd = AtEnd /\ \A r : M!KeyOf(r) = KeyOf(r)
  BY DEF M!Rec, Rec, M!AtEnd, AtEnd, M!KeyOf, KeyOf
<1>2. M!Key = Key
  BY <1>1 DEF M!Key, Key
<1>3. M!Live = Live
  BY <1>1 DEF M!Live, Live
<1>4. \A S : M!Min(S) = Min(S) /\ M!Max(S) = Max(S)
  BY DEF M!Min, Min, M!Max, Max
<1>5. \A S : M!FirstOf(S) = FirstAt(S)
  BY <1>1, <1>4 DEF M!FirstOf, FirstAt
<1> QED BY <1>1, <1>2, <1>3, <1>4, <1>5

\* An iterator that is there has a position: at a record or at the end.
Placed == \A i \in Iter : it[i] # NoObject => it[i].at # Unset

\* An assignment to a variable places the iterator.
LEMMA AssignPlaces ==
  ASSUME Types, NEW i \in Iter, NEW x \in Iterator, Assign(i, x), UNCHANGED store
  PROVE  M!Place(i, x.at)
<1>1. x # NoObject
  BY ObjectAssumption
<1>2. it' = [it EXCEPT ![i] = x] /\ it \in [Iter -> Iterator \cup {NoObject}]
  BY DEF Assign, Types
<1>3. [j \in Iter |-> Position(it'[j])] = [[j \in Iter |-> Position(it[j])] EXCEPT ![i] = x.at]
  BY <1>1, <1>2 DEF Position
<1> QED BY <1>3 DEF M!Place

LEMMA ItStays ==
  ASSUME UNCHANGED it
  PROVE  UNCHANGED [j \in Iter |-> Position(it[j])]
  BY DEF Position

\* Where an iterator is.
LEMMA PositionIs ==
  ASSUME Types, NEW i \in Iter, it[i] # NoObject
  PROVE  /\ it[i] \in Iterator /\ Position(it[i]) = it[i].at
         /\ [j \in Iter |-> Position(it[j])][i] = it[i].at
         /\ Placed => it[i].at \in Rec \cup {AtEnd}
  BY DEF Types, Position, Placed, Iterator

-----------------------------------------------------------------------------
(* Each call is the call of the sorted map, without refusals and where the   *)
(* application is careful. *)

LEMMA IncrementMatches ==
  ASSUME Careful, ~Contended, Types, Placed, NEW i \in Iter, Increment(i)
  PROVE  M!Increment(i) /\ \E x \in Iterator : x.at # Unset /\ Assign(i, x)
<1>1. it[i] # NoObject /\ it[i].at # AtEnd
  BY DEF Increment, MayUse
<1>2. it[i] \in Iterator /\ it[i].at \in Rec /\ Open(it[i])
  BY <1>1, PositionIs DEF Types
<1> DEFINE x == moveCursor(it[i], DB_NEXT)
<1>3. Assign(i, x) /\ UNCHANGED store
  BY DEF Increment, Moves, Refuse
<1>4. x \in Iterator
  BY <1>2, MoveIsOpen DEF Moving, Open
<1>5. x.at = FirstAt({r \in Live : r > it[i].at})
  BY <1>2, NextAt
<1>6. x.at # Unset
  <2>1. {r \in Live : r > it[i].at} \subseteq Rec
    BY LiveAreRec
  <2> QED BY <1>5, <2>1, MinIsLeast, EndIsNoRecord DEF FirstAt
<1>7. M!Place(i, x.at)
  BY <1>3, <1>4, AssignPlaces
<1>8. M!Increment(i)
  <2>1. {r \in M!Live : r > [j \in Iter |-> Position(it[j])][i]} = {r \in Live : r > it[i].at}
    BY <1>1, PositionIs, SameOperators
  <2>2. M!FirstOf({r \in M!Live : r > [j \in Iter |-> Position(it[j])][i]}) = x.at
    BY <1>5, <2>1, SameOperators
  <2>3. [j \in Iter |-> Position(it[j])][i] \in M!Rec
    BY <1>1, <1>2, PositionIs, SameOperators
  <2> QED BY <1>7, <2>2, <2>3 DEF M!Increment
<1> QED BY <1>3, <1>4, <1>6, <1>8

\* The first record of a set, or the end, is a position.
LEMMA FirstAtIsPlace ==
  ASSUME NEW S, S \subseteq Rec
  PROVE  FirstAt(S) \in Rec \cup {AtEnd} /\ FirstAt(S) # Unset
  BY MinIsLeast, EndIsNoRecord DEF FirstAt

LEMMA DecrementMatches ==
  ASSUME Careful, ~Contended, Types, Placed, NEW i \in Iter, Decrement(i)
  PROVE  M!Decrement(i) /\ \E x \in Iterator : x.at # Unset /\ Assign(i, x)
<1>1. it[i] # NoObject /\ \E r \in Live : r < it[i].at
  BY DEF Decrement, MayUse
<1>2. it[i] \in Iterator /\ it[i].at \in Rec \cup {AtEnd} /\ Open(it[i])
  BY <1>1, PositionIs DEF Types
<1> DEFINE x == moveCursor(it[i], DB_PREV)
           before == {r \in Live : r < it[i].at}
<1>3. Assign(i, x) /\ UNCHANGED store
  BY DEF Decrement, Moves, Refuse
<1>4. x \in Iterator
  BY <1>2, MoveIsOpen DEF Moving, Open
<1>5. x.at = Max(before)
  BY <1>1, <1>2, PrevAt
<1>6. before \subseteq Rec /\ before # {}
  BY <1>1, LiveAreRec
<1>7. x.at # Unset
  BY <1>5, <1>6, MaxIsGreatest, EndIsNoRecord
<1>8. M!Place(i, x.at)
  BY <1>3, <1>4, AssignPlaces
<1>9. M!Decrement(i)
  <2>1. {r \in M!Live : r < [j \in Iter |-> Position(it[j])][i]} = before
    BY <1>1, PositionIs, SameOperators
  <2>2. M!Max({r \in M!Live : r < [j \in Iter |-> Position(it[j])][i]}) = x.at
    BY <1>5, <2>1, SameOperators
  <2> QED BY <1>6, <1>8, <2>1, <2>2 DEF M!Decrement
<1> QED BY <1>3, <1>4, <1>7, <1>9

LEMMA NextDupMatches ==
  ASSUME Careful, ~Contended, Types, Placed, NEW i \in Iter, moveCursorNextDup(i)
  PROVE  M!NextDup(i) /\ \E x \in Iterator : x.at # Unset /\ Assign(i, x)
<1>1. it[i] # NoObject /\ it[i].at # AtEnd
  BY DEF moveCursorNextDup, MayUse
<1>2. it[i] \in Iterator /\ it[i].at \in Rec /\ Open(it[i])
  BY <1>1, PositionIs DEF Types
<1> DEFINE x == moveCursor(it[i], DB_NEXT_DUP)
           dups == {r \in Live : r > it[i].at /\ KeyOf(r) = KeyOf(it[i].at)}
<1>3. Assign(i, x) /\ UNCHANGED store
  BY <1>1 DEF moveCursorNextDup, Refuse, Placed
<1>4. x \in Iterator
  BY <1>2, MoveIsOpen DEF Moving, Open
<1>5. x.at = FirstAt(dups)
  BY <1>2, NextDupAt
<1>6. dups \subseteq Rec
  BY LiveAreRec
<1>7. x.at # Unset
  BY <1>5, <1>6, FirstAtIsPlace
<1>8. M!Place(i, x.at)
  BY <1>3, <1>4, AssignPlaces
<1>9. M!NextDup(i)
  <2> DEFINE p == [j \in Iter |-> Position(it[j])][i]
  <2>1. p = it[i].at
    BY <1>1, PositionIs
  <2>2. {r \in M!Live : r > p /\ M!KeyOf(r) = M!KeyOf(p)} = dups
    BY <2>1, SameOperators
  <2>3. M!FirstOf({r \in M!Live : r > p /\ M!KeyOf(r) = M!KeyOf(p)}) = x.at
    BY <1>5, <2>2, SameOperators
  <2>4. p \in M!Rec
    BY <1>2, <2>1, SameOperators
  <2> QED BY <1>8, <2>3, <2>4 DEF M!NextDup
<1> QED BY <1>3, <1>4, <1>7, <1>9

\* The look-ups return where the sorted map's are.
LEMMA LookUps ==
  ASSUME Types, NEW t \in Given, NEW k \in Key
  PROVE  /\ end(t).at = AtEnd
         /\ begin(t).at = FirstAt(Live)
         /\ find(k, t).at = FirstAt({r \in Live : KeyOf(r) = k})
         /\ find_partial(k, t).at = FirstAt({r \in Live : KeyOf(r) >= k})
<1>1. \A u : end(u).at = AtEnd
  BY DEF end, At
<1>2. begin(t).at = FirstAt(Live)
  <2>1. CASE Live = {}
    BY <1>1, <2>1 DEF begin, FirstAt
  <2>2. CASE Live # {}
    BY <2>2, AtIsAt, LiveAreRec DEF begin
  <2> QED BY <2>1, <2>2
<1>3. find(k, t).at = FirstAt({r \in Live : KeyOf(r) = k})
  BY AtIsAt, LiveAreRec DEF find, CGetSet
<1>4. find_partial(k, t).at = FirstAt({r \in Live : KeyOf(r) >= k})
  BY AtIsAt, LiveAreRec DEF find_partial, CGetSetRange
<1> QED BY <1>1, <1>2, <1>3, <1>4

\* For a key that exists lower_bound() is find(), and the first record of the
\* key is the first record of no smaller key.
LEMMA LowerBoundIs ==
  ASSUME Types, NEW t \in Given, NEW k \in Key, Present(k)
  PROVE  /\ lower_bound(k, t) = find(k, t)
         /\ lower_bound(k, t).at \in Live /\ KeyOf(lower_bound(k, t).at) = k
         /\ lower_bound(k, t).at = FirstAt({r \in Live : KeyOf(r) >= k})
         /\ \A r \in Live : KeyOf(r) = k => lower_bound(k, t).at =< r
<1> DEFINE same == {r \in Live : KeyOf(r) = k}
           above == {r \in Live : KeyOf(r) >= k}
<1>1. same # {} /\ same \subseteq Rec /\ above \subseteq Rec
  BY LiveAreRec DEF Present
<1>2. find(k, t).at = Min(same) /\ Min(same) \in same /\ \A r \in same : Min(same) =< r
  BY <1>1, LookUps, MinIsLeast DEF FirstAt
<1>3. lower_bound(k, t) = find(k, t)
  BY <1>1, <1>2, EndIsNoRecord DEF lower_bound
<1>4. \A r \in above : r \in Nat \ {0} /\ KeyOf(r) \in Nat /\ KeyOf(r) >= k
  BY <1>1, KeyIsNat DEF Rec
<1>5. \A r \in same : r \in above /\ r \in Nat \ {0} /\ KeyOf(r) = k
  BY <1>1, KeyIsNat DEF Rec, Key
<1>6. \A r \in above : KeyOf(r) = k => r \in same
  OBVIOUS
<1> HIDE DEF same, above
<1>7. \A r \in above : Min(same) =< r
  <2> SUFFICES ASSUME NEW r \in above, r < Min(same) PROVE FALSE
    BY <1>2, <1>4, <1>5
  <2>1. r =< Min(same) /\ r \in Nat \ {0} /\ Min(same) \in Nat \ {0}
    BY <1>2, <1>4, <1>5
  <2>2. KeyOf(r) =< KeyOf(Min(same)) /\ KeyOf(Min(same)) = k /\ KeyOf(r) >= k /\ KeyOf(r) \in Nat
    BY <1>2, <1>4, <1>5, <2>1, KeysInOrder
  <2>3. k \in Nat
    BY KeyIsNat DEF Key
  <2>4. KeyOf(r) = k
    BY <2>2, <2>3
  <2> QED BY <1>2, <1>6, <2>1, <2>4
<1>8. Min(above) = Min(same) /\ above # {}
  <2>1. Min(same) \in above /\ above # {}
    BY <1>2, <1>5
  <2>2. Min(above) \in above /\ Min(above) =< Min(same)
    BY <1>1, <2>1, MinIsLeast
  <2> QED BY <1>4, <1>7, <2>1, <2>2
<1>9. /\ find(k, t).at \in Live /\ KeyOf(find(k, t).at) = k
      /\ \A r \in Live : KeyOf(r) = k => find(k, t).at =< r
  BY <1>2 DEF same
<1>10. find(k, t).at = FirstAt(above)
  BY <1>2, <1>8 DEF FirstAt
<1> QED BY <1>3, <1>9, <1>10 DEF above

\* For a key that exists upper_bound() is at the first record of a greater key.
LEMMA UpperBoundIs ==
  ASSUME Types, NEW t \in Given, NEW k \in Key, Present(k)
  PROVE  upper_bound(k, t).at = FirstAt({r \in Live : KeyOf(r) > k})
<1>1. lower_bound(k, t).at \in Rec /\ KeyOf(lower_bound(k, t).at) = k
  BY LowerBoundIs, LiveAreRec
<1>2. lower_bound(k, t) \in Iterator
  BY CallsAreOpen DEF Open
<1> QED BY <1>1, <1>2, NextNodupAt DEF upper_bound

LEMMA BeginEndMatch ==
  ASSUME ~Contended, Types, NEW i \in Iter, NEW t \in Given
  PROVE  /\ Begin(i, t) => M!Begin(i) /\ \E x \in Iterator : x.at # Unset /\ Assign(i, x)
         /\ End(i, t) => M!End(i) /\ \E x \in Iterator : x.at # Unset /\ Assign(i, x)
<1>1. Key # {}
  BY DEF Key, Rec
<1>2. begin(t) \in Iterator /\ end(t) \in Iterator
  BY <1>1, CallsAreOpen DEF Open
<1>3. begin(t).at = FirstAt(Live) /\ end(t).at = AtEnd
  BY <1>1, LookUps
<1>4. begin(t).at # Unset /\ end(t).at # Unset
  BY <1>3, FirstAtIsPlace, LiveAreRec, EndIsNoRecord
<1>5. ASSUME Begin(i, t)
      PROVE  M!Begin(i) /\ \E x \in Iterator : x.at # Unset /\ Assign(i, x)
  <2>1. Assign(i, begin(t)) /\ UNCHANGED store
    BY <1>5 DEF Begin, Makes, Refuse
  <2>2. M!Place(i, M!FirstOf(M!Live))
    BY <1>2, <1>3, <2>1, AssignPlaces, SameOperators
  <2> QED BY <1>2, <1>4, <2>1, <2>2 DEF M!Begin
<1>6. ASSUME End(i, t)
      PROVE  M!End(i) /\ \E x \in Iterator : x.at # Unset /\ Assign(i, x)
  <2>1. Assign(i, end(t)) /\ UNCHANGED store
    BY <1>6 DEF End
  <2>2. M!Place(i, M!AtEnd)
    BY <1>2, <1>3, <2>1, AssignPlaces, SameOperators
  <2> QED BY <1>2, <1>4, <2>1, <2>2 DEF M!End
<1> QED BY <1>5, <1>6

LEMMA LookUpsMatch ==
  ASSUME Careful, ~Contended, Types, NEW i \in Iter, NEW t \in Given, NEW k \in Key
  PROVE  /\ Find(i, k, t) => M!Find(i, k) /\ \E x \in Iterator : x.at # Unset /\ Assign(i, x)
         /\ FindPartial(i, k, t) =>
               M!LowerBound(i, k) /\ \E x \in Iterator : x.at # Unset /\ Assign(i, x)
         /\ LowerBound(i, k, t) =>
               M!LowerBound(i, k) /\ \E x \in Iterator : x.at # Unset /\ Assign(i, x)
         /\ UpperBound(i, k, t) =>
               M!UpperBound(i, k) /\ \E x \in Iterator : x.at # Unset /\ Assign(i, x)
<1> DEFINE same == {r \in Live : KeyOf(r) = k}
           above == {r \in Live : KeyOf(r) >= k}
           beyond == {r \in Live : KeyOf(r) > k}
<1>1. /\ find(k, t) \in Iterator /\ find_partial(k, t) \in Iterator
      /\ lower_bound(k, t) \in Iterator /\ upper_bound(k, t) \in Iterator
  BY CallsAreOpen DEF Open
<1>2. find(k, t).at = FirstAt(same) /\ find_partial(k, t).at = FirstAt(above)
  BY LookUps
<1>3. /\ same = {r \in M!Live : M!KeyOf(r) = k}
      /\ above = {r \in M!Live : M!KeyOf(r) >= k}
      /\ beyond = {r \in M!Live : M!KeyOf(r) > k}
  BY SameOperators
<1>4. /\ FirstAt(same) # Unset /\ FirstAt(above) # Unset /\ FirstAt(beyond) # Unset
  BY FirstAtIsPlace, LiveAreRec
<1>5. /\ M!Find(i, k) <=> M!Place(i, FirstAt(same))
      /\ M!LowerBound(i, k) <=> M!Place(i, FirstAt(above))
      /\ M!UpperBound(i, k) <=> M!Place(i, FirstAt(beyond))
  BY <1>3, SameOperators DEF M!Find, M!LowerBound, M!UpperBound
<1> HIDE DEF same, above, beyond
<1>6. ASSUME Find(i, k, t)
      PROVE  M!Find(i, k) /\ \E x \in Iterator : x.at # Unset /\ Assign(i, x)
  <2>1. Assign(i, find(k, t)) /\ UNCHANGED store
    BY <1>6 DEF Find, Refuse
  <2> QED BY <1>1, <1>2, <1>4, <1>5, <2>1, AssignPlaces
<1>7. ASSUME FindPartial(i, k, t)
      PROVE  M!LowerBound(i, k) /\ \E x \in Iterator : x.at # Unset /\ Assign(i, x)
  <2>1. Assign(i, find_partial(k, t)) /\ UNCHANGED store
    BY <1>7 DEF FindPartial, Refuse
  <2> QED BY <1>1, <1>2, <1>4, <1>5, <2>1, AssignPlaces
<1>8. ASSUME LowerBound(i, k, t)
      PROVE  M!LowerBound(i, k) /\ \E x \in Iterator : x.at # Unset /\ Assign(i, x)
  <2>0. Present(k) /\ ~AsksBegin(k, t)
    BY <1>8, LowerBoundIs, LiveAreRec, EndIsNoRecord DEF LowerBound, AsksBegin
  <2>1. Assign(i, lower_bound(k, t)) /\ UNCHANGED store /\ Present(k)
    BY <1>8, <2>0 DEF LowerBound, Refuse
  <2>2. lower_bound(k, t).at = FirstAt(above)
    BY <2>1, LowerBoundIs DEF above
  <2> QED BY <1>1, <1>4, <1>5, <2>1, <2>2, AssignPlaces
<1>9. ASSUME UpperBound(i, k, t)
      PROVE  M!UpperBound(i, k) /\ \E x \in Iterator : x.at # Unset /\ Assign(i, x)
  <2>0. Present(k) /\ ~AsksBegin(k, t)
    BY <1>9, LowerBoundIs, LiveAreRec, EndIsNoRecord DEF UpperBound, AsksBegin
  <2>1. Assign(i, upper_bound(k, t)) /\ UNCHANGED store /\ Present(k)
    BY <1>9, <2>0 DEF UpperBound, Refuse
  <2>2. upper_bound(k, t).at = FirstAt(beyond)
    BY <2>1, UpperBoundIs DEF beyond
  <2> QED BY <1>1, <1>4, <1>5, <2>1, <2>2, AssignPlaces
<1> QED BY <1>6, <1>7, <1>8, <1>9

LEMMA EraseAtMatches ==
  ASSUME ~Contended, Types, NEW i \in Iter, EraseAt(i)
  PROVE  M!Erase(i) /\ UNCHANGED it
<1>1. it[i] # NoObject /\ it[i].at \in Live /\ UNCHANGED it
  BY DEF EraseAt, MayUse, Readable
<1>2. store' = [store EXCEPT ![it[i].at] = Absent]
  BY DEF EraseAt, Refuse
<1>3. [j \in Iter |-> Position(it[j])][i] = it[i].at
  BY <1>1, PositionIs
<1>4. UNCHANGED [j \in Iter |-> Position(it[j])]
  BY <1>1, ItStays
<1> QED BY <1>1, <1>2, <1>3, <1>4, SameOperators DEF M!Erase

\* insert() returns the record it put, if it is the first of its key.
LEMMA InsertMatches ==
  ASSUME Careful, ~Contended, Types, NEW i \in Iter, NEW t \in Given, NEW r \in Rec, NEW v \in Val,
         Insert(i, r, v, t)
  PROVE  M!Insert(i, r, v) /\ \E x \in Iterator : x.at # Unset /\ Assign(i, x)
<1> DEFINE same == {s \in Live \cup {r} : KeyOf(s) = KeyOf(r)}
           x == At(Freshen(t), First(same))
<1>1. /\ store' = [store EXCEPT ![r] = v] /\ Assign(i, x)
      /\ \A s \in Live : KeyOf(s) = KeyOf(r) => s >= r
  BY DEF Insert, Refuse, FirstOfKey
<1>2. same \subseteq Rec /\ r \in same /\ \A s \in same : s >= r
  <2>1. same \subseteq Rec /\ r \in same
    BY LiveAreRec
  <2>2. r >= r
    BY DEF Rec
  <2> QED BY <1>1, <2>1, <2>2
<1>3. x \in Iterator
  BY <1>2, AtIsOpen DEF Open
<1>4. x.at = r
  <2>1. x.at = Min(same)
    BY <1>2, AtIsAt DEF FirstAt
  <2>2. Min(same) \in Rec /\ Min(same) =< r /\ Min(same) >= r
    BY <1>2, MinIsLeast
  <2> QED BY <2>1, <2>2 DEF Rec
<1>5. [j \in Iter |-> Position(it'[j])] = [[j \in Iter |-> Position(it[j])] EXCEPT ![i] = r]
  <2>1. x # NoObject /\ it' = [it EXCEPT ![i] = x] /\ it \in [Iter -> Iterator \cup {NoObject}]
    BY <1>1, <1>3, ObjectAssumption DEF Assign, Types
  <2> QED BY <1>4, <2>1 DEF Position
<1> QED BY <1>1, <1>3, <1>4, <1>5, EndIsNoRecord DEF M!Insert

-----------------------------------------------------------------------------
(* count(): the steps of operator++ from lower_bound() to upper_bound(). *)

\* The walk of count(), as a function of the number of steps.
Walk(k, w) ==
    w = [n \in 0..AtEnd |-> IF n = 0 THEN lower_bound(k, NoTrans) ELSE moveCursor(w[n - 1], DB_NEXT)]

\* What the walk is, and how many steps it is asked for.
CountOf(k, w) == Min({n \in 0..AtEnd : Equal(w[n], upper_bound(k, NoTrans))})

\* There is such a walk, through open iterators, and count() follows one.
LEMMA WalkExists ==
  ASSUME Types, NEW k \in Key
  PROVE  \E w \in [0..AtEnd -> Iterator] : Walk(k, w) /\ count(k) = CountOf(k, w)
<1> DEFINE V == {x \in Iterator : Open(x)}
           step == [n \in 1..AtEnd |-> [x \in V |-> moveCursor(x, DB_NEXT)]]
           base == lower_bound(k, NoTrans)
           IsWalk(w) == w = [n \in 0..AtEnd |-> IF n = 0 THEN lower_bound(k, NoTrans)
                                                 ELSE moveCursor(w[n - 1], DB_NEXT)]
<1>1. base \in V
  BY CallsAreOpen DEF Given, Open
<1>2. \A x \in V : moveCursor(x, DB_NEXT) \in V
  BY MoveIsOpen DEF Moving, Open
<1>3. CountStep(AtEnd, V, base, step)
  BY <1>1, <1>2 DEF CountStep
<1>4. PICK f : ByCount(f, AtEnd, V, base, step)
  BY <1>3, CountRecursion, EndIsNoRecord
<1>5. f \in [0..AtEnd -> V] /\ IsWalk(f)
  <2>1. f \in [0..AtEnd -> V] /\ \A n \in 0..AtEnd : f[n] = IF n = 0 THEN base ELSE step[n][f[n - 1]]
    BY <1>4 DEF ByCount
  <2>2. \A n \in 0..AtEnd : n # 0 => n \in 1..AtEnd /\ n - 1 \in 0..AtEnd
    BY EndIsNoRecord
  <2>3. \A n \in 0..AtEnd : n # 0 => step[n][f[n - 1]] = moveCursor(f[n - 1], DB_NEXT)
    BY <2>1, <2>2
  <2>4. \A n \in 0..AtEnd :
           f[n] = IF n = 0 THEN lower_bound(k, NoTrans) ELSE moveCursor(f[n - 1], DB_NEXT)
    BY <2>1, <2>3
  <2>5. f = [n \in 0..AtEnd |-> f[n]]
    BY <2>1
  <2> QED BY <2>1, <2>4, <2>5
<1> DEFINE walk == CHOOSE w : IsWalk(w)
<1>6. IsWalk(walk)
  BY <1>5
<1>7. count(k) = CountOf(k, walk)
  BY DEF count, CountOf<1> HIDE DEF walk
<1>8. walk \in [0..AtEnd -> Iterator]
  <2> DEFINE S == {n \in Nat : n =< AtEnd => walk[n] \in V}
  <2>1. walk[0] \in V
    BY <1>1, <1>6, EndIsNoRecord
  <2>2. 0 \in S
    BY <2>1
  <2>3. ASSUME NEW n \in Nat, n \in S PROVE n + 1 \in S
    <3> SUFFICES ASSUME n + 1 =< AtEnd PROVE walk[n + 1] \in V
      OBVIOUS
    <3>1. walk[n] \in V /\ n + 1 \in 0..AtEnd /\ n + 1 # 0 /\ (n + 1) - 1 = n
      BY <2>3, EndIsNoRecord
    <3>2. walk[n + 1] = moveCursor(walk[n], DB_NEXT)
      BY <1>6, <3>1
    <3> QED BY <1>2, <3>1, <3>2
  <2> HIDE DEF S
  <2>4. Nat \subseteq S
    BY <2>2, <2>3, SetInduction
  <2>5. \A n \in 0..AtEnd : walk[n] \in Iterator
    BY <2>4, EndIsNoRecord DEF S
  <2>6. walk = [n \in 0..AtEnd |-> walk[n]]
    BY <1>6
  <2> QED BY <2>5, <2>6
<1> QED BY <1>6, <1>7, <1>8 DEF Walk

\* After n steps the walk is at the record with n records of the key before it,
\* as long as there is one, and then at the first record of a greater key.
LEMMA CountHolds ==
  ASSUME Types, NEW k \in Key, Present(k)
  PROVE  count(k) = Cardinality({r \in Live : KeyOf(r) = k})
<1> DEFINE D == {r \in Live : KeyOf(r) = k}
           beyond == {r \in Live : KeyOf(r) > k}
           after(p) == {r \in Live : r > p}
           below(p) == {r \in D : r < p}
<1>1. PICK w \in [0..AtEnd -> Iterator] : Walk(k, w) /\ count(k) = CountOf(k, w)
  BY WalkExists
<1>2. NoTrans \in Given
  BY DEF Given
<1>3. /\ w[0] = lower_bound(k, NoTrans)
      /\ \A n \in 0..AtEnd : n # 0 => w[n] = moveCursor(w[n - 1], DB_NEXT)
  BY <1>1, EndIsNoRecord DEF Walk
<1>4. PICK c : c = Cardinality(D)
  OBVIOUS
<1>5. D \subseteq Rec /\ beyond \subseteq Rec /\ D \cap beyond = {} /\ k \in Nat
  BY LiveAreRec, KeyIsNat DEF Key
<1>6. IsFiniteSet(D) /\ c \in Nat /\ c =< NumRec
  <2>1. IsFiniteSet(Rec) /\ Cardinality(Rec) = NumRec
    BY FS_Interval DEF Rec
  <2> QED BY <1>4, <1>5, <2>1, FS_Subset, FS_CardinalityType
<1>7. \A r \in Live : r \in Nat \ {0} /\ KeyOf(r) \in Nat
  BY LiveAreRec, KeyIsNat DEF Rec
<1>8. ASSUME NEW p \in D, NEW q \in Live, q > p
      PROVE  KeyOf(q) >= k /\ (q \notin D => q \in beyond)
  <2>1. KeyOf(p) = k /\ KeyOf(p) =< KeyOf(q)
    BY <1>7, <1>8, KeysInOrder
  <2> QED BY <1>5, <1>7, <2>1
<1>9. ASSUME NEW p \in D, NEW n \in Nat, Cardinality(below(p)) = n
      PROVE  /\ IsFiniteSet(below(p) \cup {p}) /\ Cardinality(below(p) \cup {p}) = n + 1
             /\ below(p) \cup {p} \subseteq D
             /\ \A r \in D : r \notin below(p) \cup {p} => r > p
  <2>1. below(p) \subseteq D /\ p \notin below(p) /\ IsFiniteSet(below(p))
    BY <1>6, <1>7, FS_Subset
  <2>2. IsFiniteSet(below(p) \cup {p}) /\ Cardinality(below(p) \cup {p}) = n + 1
    BY <1>9, <2>1, FS_AddElement
  <2>3. \A r \in D : r \notin below(p) \cup {p} => r > p
    BY <1>7
  <2> QED BY <2>1, <2>2, <2>3
<1> DEFINE P(n) == n < c => w[n].at \in D /\ Cardinality(below(w[n].at)) = n
           S == {n \in Nat : P(n)}
<1>10. 0 \in S
  <2>1. w[0].at \in D /\ \A r \in D : w[0].at =< r
    BY <1>2, <1>3, LowerBoundIs
  <2>2. below(w[0].at) = {}
    BY <1>7, <2>1
  <2> QED BY <2>1, <2>2, FS_EmptySet
<1>11. \A n \in 0..c : w[n] \in Iterator /\ n \in 0..AtEnd /\ n + 1 \in 0..AtEnd
  BY <1>6 DEF AtEnd
<1>12. ASSUME NEW n \in Nat, n < c, w[n].at \in D
       PROVE  w[n + 1].at = FirstAt(after(w[n].at)) /\ after(w[n].at) \subseteq Rec
  <2>1. n \in 0..c /\ n + 1 # 0 /\ (n + 1) - 1 = n
    BY <1>6, <1>12
  <2>2. w[n + 1] = moveCursor(w[n], DB_NEXT)
    BY <1>3, <1>11, <2>1
  <2>3. w[n].at \in Rec /\ w[n] \in Iterator
    BY <1>5, <1>11, <1>12, <2>1
  <2> QED BY <2>2, <2>3, NextAt, LiveAreRec
<1>13. ASSUME NEW n \in Nat, n \in S PROVE n + 1 \in S
  <2> SUFFICES ASSUME n + 1 < c
               PROVE  w[n + 1].at \in D /\ Cardinality(below(w[n + 1].at)) = n + 1
    OBVIOUS
  <2>1. n < c
    BY <1>6
  <2>2. PICK p : p = w[n].at
    OBVIOUS
  <2>3. p \in D /\ Cardinality(below(p)) = n
    BY <1>13, <2>1, <2>2
  <2>4. PICK d \in D : d > p
    <3>1. below(p) \cup {p} # D
      BY <1>4, <1>6, <1>9, <2>3
    <3> QED BY <1>9, <2>3, <3>1
  <2>5. PICK q : q = w[n + 1].at
    OBVIOUS
  <2>6. q \in Live /\ q > p /\ \A r \in after(p) : q =< r
    <3>1. after(p) # {} /\ after(p) \subseteq Rec /\ q = FirstAt(after(p))
      BY <1>12, <2>1, <2>2, <2>3, <2>4, <2>5
    <3> QED BY <3>1, MinIsLeast DEF FirstAt
  <2>7. q \in D
    <3>1. q =< d /\ KeyOf(q) >= k
      BY <1>8, <2>3, <2>4, <2>6
    <3>2. KeyOf(q) =< KeyOf(d) /\ KeyOf(d) = k
      BY <1>7, <2>6, <3>1, KeysInOrder
    <3> QED BY <1>5, <1>7, <2>6, <3>1, <3>2
  <2>8. below(q) = below(p) \cup {p}
    <3>1. ASSUME NEW r \in D PROVE r < q <=> r < p \/ r = p
      BY <1>7, <2>3, <2>6
    <3> QED BY <2>3, <3>1
  <2>9. Cardinality(below(p) \cup {p}) = n + 1
    BY <1>9, <2>3
  <2> HIDE DEF below, D
  <2>10. Cardinality(below(q)) = n + 1
    BY <2>8, <2>9
  <2> QED BY <2>5, <2>7, <2>10
<1>14. \A n \in Nat : P(n)
  <2> HIDE DEF P
  <2>1. 0 \in S /\ \A n \in Nat : n \in S => n + 1 \in S
    BY <1>10, <1>13 DEF P
  <2> HIDE DEF S
  <2>2. Nat \subseteq S
    BY <2>1, SetInduction
  <2> QED BY <2>2 DEF S
<1>15. upper_bound(k, NoTrans).at = FirstAt(beyond) /\ FirstAt(beyond) \notin D
  <2>1. FirstAt(beyond) \notin D
    BY <1>5, MinIsLeast, EndIsNoRecord DEF FirstAt
  <2> QED BY <1>2, <2>1, UpperBoundIs
<1>16. c # 0
  BY <1>4, <1>6, FS_EmptySet, SMTT(30) DEF Present
<1>17. w[c].at = FirstAt(beyond)
  <2> DEFINE m == c - 1
  <2>1. m \in Nat /\ m < c /\ m + 1 = c
    BY <1>6, <1>16
  <2>2. PICK p : p = w[m].at
    OBVIOUS
  <2>3. p \in D /\ Cardinality(below(p)) = m
    BY <1>14, <2>1, <2>2
  <2>4. below(p) \cup {p} = D
    <3> DEFINE B == below(p) \cup {p}
    <3>1. B \in SUBSET D /\ Cardinality(B) = Cardinality(D)
      BY <1>4, <1>9, <2>1, <2>3
    <3> HIDE DEF B
    <3>2. B = D
      BY <1>6, <3>1, FS_Subset
    <3> QED BY <3>2 DEF B
  <2>5. after(p) = beyond
    <3>1. ASSUME NEW r \in Live, r > p PROVE r \in beyond
      <4>1. r \notin D
        BY <1>7, <2>3, <2>4, <3>1
      <4> QED BY <1>8, <2>3, <3>1, <4>1
    <3>2. ASSUME NEW r \in Live, KeyOf(r) > k PROVE r > p
      <4>1. r =< p => KeyOf(r) =< KeyOf(p)
        BY <1>7, <2>3, KeysInOrder
      <4> QED BY <1>5, <1>7, <2>3, <3>2, <4>1
    <3> QED BY <3>1, <3>2
  <2>6. w[m + 1].at = FirstAt(after(w[m].at))
    BY <1>12, <2>1, <2>2, <2>3
  <2> QED BY <2>1, <2>2, <2>5, <2>6
<1>18. \A n \in Nat : n < c => w[n].at \in D
  BY <1>14
<1> DEFINE steps == {n \in 0..AtEnd : Equal(w[n], upper_bound(k, NoTrans))}
<1>19. c \in steps /\ steps \subseteq Nat
  <2>1. Equal(w[c], upper_bound(k, NoTrans))
    BY <1>15, <1>17 DEF Equal
  <2> QED BY <1>6, <1>11, <2>1
<1>20. \A n \in steps : w[n].at \notin D
  <2> SUFFICES ASSUME NEW n \in steps, w[n].at \in D PROVE FALSE
    OBVIOUS
  <2>1. PICK q : q = FirstAt(beyond)
    OBVIOUS
  <2>2. w[n].at # AtEnd /\ KeyOf(w[n].at) = k
    BY <1>5, EndIsNoRecord
  <2>3. q # AtEnd /\ KeyOf(q) = k
    BY <1>15, <2>1, <2>2 DEF Equal
  <2>4. q \in beyond
    BY <1>5, <2>1, <2>3, MinIsLeast DEF FirstAt
  <2> QED BY <1>5, <1>7, <2>3, <2>4
<1> HIDE DEF steps, D, P, S
<1>21. \A n \in steps : c =< n
  BY <1>6, <1>18, <1>19, <1>20
<1>22. Min(steps) = c
  <2>1. \E m \in steps : \A n \in steps : m =< n
    BY <1>19, <1>21
  <2>2. PICK m : m = Min(steps)
    OBVIOUS
  <2>3. m \in steps /\ \A n \in steps : m =< n
    BY <2>1, <2>2 DEF Min
  <2>4. m \in Nat /\ m =< c /\ c =< m
    BY <1>19, <1>21, <2>3
  <2> QED BY <1>6, <2>2, <2>4
<1> QED BY <1>1, <1>4, <1>22 DEF CountOf, steps, D

-----------------------------------------------------------------------------
(* Every step is one of the sorted map. *)

\* A step leaves the iterators, assigns one that has a position, or destroys one.
PlacesOne ==
    \/ UNCHANGED it
    \/ \E i \in Iter, x \in Iterator : x.at # Unset /\ Assign(i, x)
    \/ \E i \in Iter : Assign(i, NoObject)

LEMMA PlacesKeep ==
  ASSUME Types, Placed, PlacesOne
  PROVE  Placed'
<1>1. CASE UNCHANGED it
  BY <1>1 DEF Placed
<1>2. ASSUME NEW i \in Iter, NEW x \in Iterator, x.at # Unset, Assign(i, x)
      PROVE  Placed'
  BY <1>2 DEF Placed, Assign, Types
<1>3. ASSUME NEW i \in Iter, Assign(i, NoObject)
      PROVE  Placed'
  BY <1>3 DEF Placed, Assign, Types
<1> QED BY <1>1, <1>2, <1>3 DEF PlacesOne

\* A step that changes neither the records nor an iterator.
LEMMA Stutters ==
  ASSUME UNCHANGED <<store, it>>
  PROVE  UNCHANGED M!vars /\ PlacesOne
  BY ItStays DEF M!vars, PlacesOne

\* The steps of an iterator; erase(iter, last) only begins with them.
LEMMA IteratorMatches ==
  ASSUME Careful, ~Contended, Types, Placed, NEW i \in Iter, IteratorStep(i)
  PROVE  [M!Next]_M!vars /\ PlacesOne
<1> USE DEF PlacesOne
<1>1. CASE Increment(i)
  BY <1>1, IncrementMatches DEF M!Next
<1>2. CASE Decrement(i)
  BY <1>2, DecrementMatches DEF M!Next
<1>3. CASE moveCursorNextDup(i)
  BY <1>3, NextDupMatches DEF M!Next
<1>4. CASE EraseAt(i)
  BY <1>4, EraseAtMatches DEF M!Next
<1>5. CASE Destroy(i)
  <2>1. it' = [it EXCEPT ![i] = NoObject] /\ UNCHANGED store /\ it \in [Iter -> Iterator \cup {NoObject}]
    BY <1>5 DEF Destroy, Assign, Types
  <2>2. [j \in Iter |-> Position(it'[j])] = [[j \in Iter |-> Position(it[j])] EXCEPT ![i] = 0]
    BY <2>1 DEF Position
  <2>3. M!Destroy(i)
    BY <2>1, <2>2 DEF M!Destroy, M!Place, M!Nowhere
  <2> QED BY <1>5, <2>3 DEF M!Next, Destroy
<1>6. ASSUME NEW j \in Iter, Copy(i, j)
      PROVE  [M!Next]_M!vars /\ PlacesOne
  <2>1. it[i] # NoObject /\ Assign(j, it[i]) /\ UNCHANGED store
    BY <1>6 DEF Copy
  <2>2. it[i] \in Iterator /\ it[i].at # Unset
    BY <2>1, PositionIs DEF Placed
  <2>3. M!Place(j, it[i].at)
    BY <2>1, <2>2, AssignPlaces
  <2>4. [k \in Iter |-> Position(it[k])][i] = it[i].at /\ it[i].at # M!Nowhere
    BY <2>1, <2>2, PositionIs DEF M!Nowhere, Unset
  <2>5. M!Copy(i, j)
    BY <2>3, <2>4 DEF M!Copy
  <2> QED BY <2>1, <2>2, <2>5 DEF M!Next
<1>7. ASSUME NEW v \in Val, SetValue(i, v)
      PROVE  [M!Next]_M!vars /\ PlacesOne
  <2>1. /\ it[i] # NoObject /\ it[i].at \in Live /\ UNCHANGED it
        /\ store' = [store EXCEPT ![it[i].at] = v]
    BY <1>7 DEF SetValue, MayUse, Readable, Refuse
  <2>2. [j \in Iter |-> Position(it[j])][i] = it[i].at /\ UNCHANGED [j \in Iter |-> Position(it[j])]
    BY <2>1, PositionIs, ItStays
  <2>3. M!SetValue(i, v)
    BY <2>1, <2>2, SameOperators DEF M!SetValue
  <2> QED BY <2>1, <2>3 DEF M!Next
<1>8. ASSUME NEW j \in Iter, NEW t \in Given, EraseRangeStart(i, j, t)
      PROVE  [M!Next]_M!vars /\ PlacesOne
  BY <1>8, Stutters DEF EraseRangeStart, Rest
<1> QED BY <1>1, <1>2, <1>3, <1>4, <1>5, <1>6, <1>7, <1>8 DEF IteratorStep

\* A put of one record.
LEMMA PutMatches ==
  ASSUME NEW r \in Rec, NEW v \in Val, store' = [store EXCEPT ![r] = v], UNCHANGED it
  PROVE  [M!Next]_M!vars /\ PlacesOne
<1>1. M!Put(r, v)
  BY ItStays DEF M!Put
<1> QED BY <1>1, SameOperators DEF M!Next, PlacesOne

\* The records of one key go.
LEMMA EraseKeyMatches ==
  ASSUME NEW k \in Key, UNCHANGED it,
         store' = [r \in Rec |-> IF KeyOf(r) = k THEN Absent ELSE store[r]]
  PROVE  [M!Next]_M!vars /\ PlacesOne
<1>1. store' = [r \in M!Rec |-> IF M!KeyOf(r) = k THEN Absent ELSE store[r]]
  BY SameOperators
<1>2. M!EraseKey(k)
  BY <1>1, ItStays DEF M!EraseKey
<1> QED BY <1>2, SameOperators DEF M!Next, PlacesOne

LEMMA DatabaseMatches ==
  ASSUME Careful, ~Contended, Types, Placed, NEW t \in Given, DatabaseStep(t)
  PROVE  [M!Next]_M!vars /\ PlacesOne
<1>1. CASE Clear(t)
  BY <1>1, Stutters DEF Clear, Rest
<1>2. ASSUME NEW r \in Rec, NEW v \in Val, InsertRangeStart(r, v, t)
      PROVE  [M!Next]_M!vars /\ PlacesOne
  BY <1>2, Stutters DEF InsertRangeStart, Rest
<1>3. ASSUME NEW k \in Key, EraseKey(k, t)
      PROVE  [M!Next]_M!vars /\ PlacesOne
  BY <1>3, EraseKeyMatches DEF EraseKey, Refuse
<1>4. ASSUME NEW r \in Rec, NEW v \in Val, Put(r, v, t)
      PROVE  [M!Next]_M!vars /\ PlacesOne
  BY <1>4, PutMatches DEF Put, Refuse
<1>5. ASSUME NEW r \in Rec, NEW v \in Val, NEW i \in Iter, Insert(i, r, v, t)
      PROVE  [M!Next]_M!vars /\ PlacesOne
  BY <1>5, InsertMatches, SameOperators DEF M!Next, PlacesOne
<1>6. ASSUME NEW i \in Iter, Begin(i, t) \/ End(i, t)
      PROVE  [M!Next]_M!vars /\ PlacesOne
  BY <1>6, BeginEndMatch DEF M!Next, PlacesOne
<1>7. ASSUME NEW i \in Iter, NEW k \in Key,
             Find(i, k, t) \/ FindPartial(i, k, t) \/ LowerBound(i, k, t) \/ UpperBound(i, k, t)
      PROVE  [M!Next]_M!vars /\ PlacesOne
  <2>1. M!Find(i, k) \/ M!LowerBound(i, k) \/ M!UpperBound(i, k)
    BY <1>7, LookUpsMatch
  <2>2. PlacesOne
    BY <1>7, LookUpsMatch DEF PlacesOne
  <2> QED BY <2>1, <2>2, SameOperators DEF M!Next
<1> QED BY <1>1, <1>2, <1>3, <1>4, <1>5, <1>6, <1>7 DEF DatabaseStep

\* db[ k ] = v puts one record.
LEMMA SubscriptMatches ==
  ASSUME ~Contended, Types, NEW k \in Key, NEW v \in Val, Subscript(k, v)
  PROVE  [M!Next]_M!vars /\ PlacesOne
<1>1. store' = [store EXCEPT ![Slot(k)] = v] /\ UNCHANGED it /\ MaxDup = 1
  BY DEF Subscript, Refuse
<1>2. k \in Rec
  <2>1. PICK r \in Rec : k = KeyOf(r)
    BY DEF Key
  <2>2. r \in Nat \ {0}
    BY DEF Rec
  <2>3. KeyOf(r) = r
    BY <1>1, <2>2 DEF KeyOf
  <2> QED BY <2>1, <2>3
<1>3. implicit \in Given
  BY DEF Types, Given
<1>4. lower_bound(k, implicit).at \in Rec \cup {AtEnd}
  <2>1. find(k, implicit).at \in Rec \cup {AtEnd} /\ begin(NoTrans).at \in Rec \cup {AtEnd}
    BY <1>3, LookUps, FirstAtIsPlace, LiveAreRec DEF Given
  <2> QED BY <2>1 DEF lower_bound
<1>5. Slot(k) \in Rec
  BY <1>2, <1>4 DEF Slot
<1> QED BY <1>1, <1>5, PutMatches

\* A step of erase(iter, last) erases a key or nothing, one of insert(it, end)
\* puts a record or nothing.
LEMMA LoopMatches ==
  ASSUME Types, EraseLoop \/ InsertLoop
  PROVE  [M!Next]_M!vars /\ PlacesOne
<1>1. CASE EraseOne
  <2>1. PICK r \in Live : KeyOf(r) = ErasedKey
    BY <1>1 DEF EraseOne, Present
  <2>2. PICK k \in Key : k = ErasedKey
    BY <2>1, LiveAreRec DEF Key
  <2>3. store' = [s \in Rec |-> IF KeyOf(s) = k THEN Absent ELSE store[s]] /\ UNCHANGED it
    BY <1>1, <2>2 DEF EraseOne, Rest
  <2> QED BY <2>3, EraseKeyMatches
<1>2. CASE EraseLoop /\ ~EraseOne
  BY <1>2, EraseLoopKeeps, Stutters
<1>3. CASE InsertRangeStep
  <2>1. inserting.rec \in Rec /\ inserting.val \in Val
    BY <1>3 DEF InsertRangeStep, Types
  <2> QED BY <1>3, <2>1, PutMatches DEF InsertRangeStep, Rest
<1>4. CASE InsertRangeThrows
  BY <1>4, Stutters DEF InsertRangeThrows, Rest
<1> QED BY <1>1, <1>2, <1>3, <1>4 DEF InsertLoop

LEMMA NextMatches ==
  ASSUME Careful, ~Contended, Types, Placed, [Next]_vars
  PROVE  [M!Next]_M!vars /\ Placed'
<1>1. [M!Next]_M!vars /\ PlacesOne
  <2>1. ASSUME NEW t \in Trans, StartTransaction(t) \/ setImplicitTransaction(t) \/ Commit(t)
        PROVE  UNCHANGED <<store, it>>
    BY <2>1 DEF StartTransaction, setImplicitTransaction, Commit
  <2>2. CASE UNCHANGED vars
    BY <2>2, Stutters DEF vars
  <2> QED BY <2>1, <2>2, Stutters, IteratorMatches, DatabaseMatches, SubscriptMatches, LoopMatches
         DEF Next
<1> QED BY <1>1, PlacesKeep

\* The calls, one by one, as CallsMatch has them.
LEMMA CallsMatchHere ==
  ASSUME Careful, ~Contended, Types, Placed
  PROVE  \A i \in Iter : OnlyOf(i) =>
         /\ EraseAt(i) => M!Erase(i)
         /\ \A t \in Given, r \in Rec : LET v == store'[r]
                IN v \in Val /\ Insert(i, r, v, t) => M!Insert(i, r, v)
         /\ OnlyMoves(i) =>
              /\ Increment(i) => M!Increment(i)
              /\ Decrement(i) => M!Decrement(i)
              /\ moveCursorNextDup(i) => M!NextDup(i)
              /\ \A t \in Given :
                   /\ Begin(i, t) => M!Begin(i)
                   /\ End(i, t) => M!End(i)
                   /\ \A k \in Key : /\ Find(i, k, t) => M!Find(i, k)
                                     /\ FindPartial(i, k, t) => M!LowerBound(i, k)
                                     /\ LowerBound(i, k, t) => M!LowerBound(i, k)
                                     /\ UpperBound(i, k, t) => M!UpperBound(i, k)
<1> QED BY IncrementMatches, DecrementMatches, NextDupMatches, EraseAtMatches,
           BeginEndMatch, LookUpsMatch, InsertMatches

LEMMA InitMatches == Init => M!Init /\ Placed
<1> SUFFICES ASSUME Init PROVE M!Init /\ Placed
  OBVIOUS
<1>1. \A i \in Iter : it[i] = NoObject
  BY DEF Init
<1>2. [i \in Iter |-> Position(it[i])] = [i \in Iter |-> 0]
  BY <1>1 DEF Position
<1>3. store \in [M!Rec -> Val \cup {Absent}]
  BY SameOperators DEF Init
<1> QED BY <1>1, <1>2, <1>3 DEF M!Init, M!Nowhere, Placed

\* The iterators are those of a sorted multimap and count() is right, for any
\* number of records, duplicates, iterators and transactions, whatever other
\* calls and erase(iter, last) do to the records meanwhile: for an application
\* that moves iterators as the STL allows, where no call is refused.
THEOREM SortedMapTheorem ==
  ASSUME Careful, ~Contended
  PROVE  Spec => ImplementsSortedMap
<1>1. Types /\ Placed /\ [Next]_vars => [M!Next]_M!vars /\ Placed'
  BY NextMatches
<1>2. Spec => []Placed
  BY <1>1, InitMatches, TypesAlways, PTL DEF Spec
<1>3. Types /\ Placed =>
       [\A i \in Iter : OnlyOf(i) =>
         /\ EraseAt(i) => M!Erase(i)
         /\ \A t \in Given, r \in Rec : LET v == store'[r]
                IN v \in Val /\ Insert(i, r, v, t) => M!Insert(i, r, v)
         /\ OnlyMoves(i) =>
              /\ Increment(i) => M!Increment(i)
              /\ Decrement(i) => M!Decrement(i)
              /\ moveCursorNextDup(i) => M!NextDup(i)
              /\ \A t \in Given :
                   /\ Begin(i, t) => M!Begin(i)
                   /\ End(i, t) => M!End(i)
                   /\ \A k \in Key : /\ Find(i, k, t) => M!Find(i, k)
                                     /\ FindPartial(i, k, t) => M!LowerBound(i, k)
                                     /\ LowerBound(i, k, t) => M!LowerBound(i, k)
                                     /\ UpperBound(i, k, t) => M!UpperBound(i, k)]_vars
  BY CallsMatchHere
<1>4. Spec => CallsMatch
  BY <1>2, <1>3, TypesAlways, PTL DEF CallsMatch
<1>6. Types => CountIsRight
  BY CountHolds DEF CountIsRight
<1>7. Spec => []CountIsRight
  BY <1>6, TypesAlways, PTL
<1>5. Spec => M!Spec
  BY <1>1, <1>2, InitMatches, TypesAlways, PTL DEF Spec, M!Spec
<1> QED BY <1>4, <1>5, <1>7 DEF ImplementsSortedMap

=============================================================================
