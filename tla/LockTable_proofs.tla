-------------------------- MODULE LockTable_proofs --------------------------
(***************************************************************************)
(* Theorems about LockTable: its types, that holders are compatible, that  *)
(* no wake-up is lost and that the detector finds deadlocks and nothing    *)
(* else, for any lockers, objects and bounds.                              *)
(*                                                                         *)
(* What the proofs need of the model is what happens to the entry of one   *)
(* object, holders and waiters, when a queue is promoted: the first part   *)
(* is about entries, the second about the steps of the whole table.  The   *)
(* third is the detector: what its search finds in any rows at all, that a *)
(* family has one request at a time, and from both that what it finds is   *)
(* what stands still.                                                      *)
(***************************************************************************)
EXTENDS LockTable, WellFoundedInduction, SequenceTheorems, FiniteSetTheorems, TLAPS

-----------------------------------------------------------------------------
(* Induction on numbers, and functions defined by recursion on them *)

\* Every set of numbers that is not empty has a least one.
LEMMA LeastNat ==
  ASSUME NEW S, S \subseteq Nat, S # {}
  PROVE  \E n \in S : \A m \in S : n =< m
<1>1. IsWellFoundedOn(OpToRel(<, Nat), Nat)
  BY NatLessThanWellFounded
<1>2. PICK n \in S : \A m \in S : ~(<<m, n>> \in OpToRel(<, Nat))
  BY <1>1, WFMin
<1>3. \A m \in S : ~(m < n)
  BY <1>2 DEF OpToRel
<1> QED BY <1>3

\* Induction: a set with 0, and with n + 1 for every n in it.
LEMMA SetInduction ==
  ASSUME NEW S, 0 \in S, \A n \in Nat : n \in S => n + 1 \in S
  PROVE  Nat \subseteq S
<1> SUFFICES ASSUME Nat \ S # {} PROVE FALSE
  OBVIOUS
<1>1. PICK n \in Nat \ S : \A m \in Nat \ S : n =< m
  BY LeastNat
<1>2. n # 0 /\ n - 1 \in Nat
  BY <1>1
<1>3. n - 1 \in S
  BY <1>1, <1>2
<1> QED BY <1>1, <1>2, <1>3

\* f is defined on 0..N by recursion to the number before.
CountStep(N, V, base, step) == base \in V /\ step \in [1..N -> [V -> V]]

ByCount(f, N, V, base, step) ==
    /\ f \in [0..N -> V]
    /\ \A n \in 0..N : f[n] = IF n = 0 THEN base ELSE step[n][f[n - 1]]

LEMMA CountRecursion ==
  ASSUME NEW N \in Nat, NEW V, NEW base, NEW step, CountStep(N, V, base, step)
  PROVE  \E f : ByCount(f, N, V, base, step)
<1> USE DEF CountStep
<1> DEFINE ByTheRule(n, f) ==
              \A m \in 0..n : f[m] = IF m = 0 THEN base ELSE step[m][f[m - 1]]
           S == {n \in Nat : n =< N => \E f \in [0..n -> V] : ByTheRule(n, f)}
<1>1. 0 \in S
  <2>1. [m \in 0..0 |-> base] \in [0..0 -> V] /\ ByTheRule(0, [m \in 0..0 |-> base])
    OBVIOUS
  <2> QED BY <2>1
<1>2. ASSUME NEW n \in Nat, n \in S PROVE n + 1 \in S
  <2> SUFFICES ASSUME n + 1 =< N PROVE \E f \in [0..n + 1 -> V] : ByTheRule(n + 1, f)
    OBVIOUS
  <2>1. PICK f \in [0..n -> V] : ByTheRule(n, f)
    BY <1>2
  <2>2. PICK g : g = [m \in 0..n + 1 |-> IF m = n + 1 THEN step[n + 1][f[n]] ELSE f[m]]
    OBVIOUS
  <2>3. step[n + 1][f[n]] \in V
    BY <2>1
  <2>4. g \in [0..n + 1 -> V]
    BY <2>1, <2>2, <2>3
  <2>5. ASSUME NEW m \in 0..n + 1
        PROVE  g[m] = IF m = 0 THEN base ELSE step[m][g[m - 1]]
    <3>1. CASE m = n + 1
      BY <3>1, <2>2
    <3>2. CASE m # n + 1
      <4>1. m \in 0..n /\ g[m] = f[m]
        BY <3>2, <2>2
      <4>2. m # 0 => g[m - 1] = f[m - 1]
        BY <4>1, <2>2
      <4> QED BY <4>1, <4>2, <2>1
    <3> QED BY <3>1, <3>2
  <2> QED BY <2>4, <2>5
<1> HIDE DEF S
<1>3. N \in S
  BY <1>1, <1>2, SetInduction
<1>4. PICK f \in [0..N -> V] : ByTheRule(N, f)
  BY <1>3 DEF S
<1> QED BY <1>4 DEF ByCount

-----------------------------------------------------------------------------
(* Lockers and entries *)

Mode == {"READ", "WRITE"}
Holder == [locker : Locker, mode : Mode, status : {"held", "pending"}]
Waiter == [locker : Locker, mode : Mode, status : {"waiting", "expired"}]
LockEntry == [holders : Seq(Holder), waiters : Seq(Waiter)]

HoldsIn(t, l) == \E i \in 1..Len(t.holders) : t.holders[i].locker = l
QueuedIn(t, l) == \E i \in 1..Len(t.waiters) : t.waiters[i].locker = l
PendingIn(t, l) == \E i \in 1..Len(t.holders) : t.holders[i].locker = l /\ t.holders[i].status = "pending"

\* A locker is among the holders with each mode once, among the waiters once,
\* waits for a mode it does not hold, and not while another request of it is
\* about to be told that it was granted.
HoldersDiffer(t) ==
    \A i, j \in 1..Len(t.holders) :
        t.holders[i].locker = t.holders[j].locker /\ t.holders[i].mode = t.holders[j].mode => i = j

WaitersDiffer(t) ==
    \A i, j \in 1..Len(t.waiters) : t.waiters[i].locker = t.waiters[j].locker => i = j

WaitsForMore(t) ==
    \A i \in 1..Len(t.waiters) : \A j \in 1..Len(t.holders) :
        t.holders[j].locker = t.waiters[i].locker =>
            t.holders[j].mode # t.waiters[i].mode /\ t.holders[j].status # "pending"

Distinct(t) == HoldersDiffer(t) /\ WaitersDiffer(t) /\ WaitsForMore(t)

\* Holders that conflict are of one family.
Compatible(t) ==
    \A i, j \in 1..Len(t.holders) :
        Conflicts(t.holders[i].mode, t.holders[j].mode)
            => Master[t.holders[i].locker] = Master[t.holders[j].locker]

\* If the first of the queue waits, a holder is in its way.
FirstIsBlocked(t) ==
    t.waiters # <<>> /\ Waits(t.waiters[1])
        => \E i \in 1..Len(t.holders) :
              InTheWay(t.holders[i], t.waiters[1].locker, t.waiters[1].mode)

EntryOK(t) == t \in LockEntry /\ Distinct(t) /\ Compatible(t) /\ FirstIsBlocked(t)

Types ==
    /\ life \in [Locker -> {"idle", "active", "asleep", "doomed"}]
    /\ used \in [Locker -> 0..MaxRequests]
    /\ need_dd \in BOOLEAN /\ next_timeout \in BOOLEAN
    /\ late \subseteq TimesOut

Entries == table \in [Object -> LockEntry] /\ \A o \in Object : EntryOK(table[o])

\* A child that runs has a parent that waits for it.
KidsOfActive ==
    \A l \in Locker : ParentOf[l] # NoLocker /\ life[l] # "idle" => life[ParentOf[l]] = "active"

Unanswered(t, l) == QueuedIn(t, l) \/ PendingIn(t, l)

\* A locker waits for one answer at a time, and sleeps.
OneRequest ==
    \A l \in Locker : \A o \in Object :
        Unanswered(table[o], l) =>
            life[l] = "asleep" /\ \A p \in Object : Unanswered(table[p], l) => p = o

IdleHoldsNothing ==
    \A l \in Locker : life[l] = "idle" => \A o \in Object : ~HoldsIn(table[o], l)

Inv == Types /\ Entries /\ KidsOfActive /\ OneRequest /\ IdleHoldsNothing

-----------------------------------------------------------------------------
(* Families *)

\* f is defined by recursion to the parent of each locker.
ParentStep(V, base, step) == base \in [Locker -> V] /\ step \in [Locker -> [V -> V]]

ByParent(f, V, base, step) ==
    /\ f \in [Locker -> V]
    /\ \A l \in Locker :
          f[l] = IF ParentOf[l] = NoLocker THEN base[l] ELSE step[l][f[ParentOf[l]]]

LEMMA TreeRecursion ==
  ASSUME NEW V, NEW base, NEW step, ParentStep(V, base, step)
  PROVE  \E f : ByParent(f, V, base, step)
<1> USE DEF ParentStep
<1> DEFINE Pairs == Locker \X V
           Closed(R) ==
              /\ \A l \in Locker : ParentOf[l] = NoLocker => <<l, base[l]>> \in R
              /\ \A l \in Locker : \A v \in V :
                    ParentOf[l] # NoLocker /\ <<ParentOf[l], v>> \in R => <<l, step[l][v]>> \in R
           G == {x \in Pairs : \A R \in SUBSET Pairs : Closed(R) => x \in R}
           Only(l, v) == <<l, v>> \in G /\ \A u \in V : <<l, u>> \in G => u = v
<1>1. Closed(G)
  <2>1. ASSUME NEW l \in Locker, ParentOf[l] = NoLocker PROVE <<l, base[l]>> \in G
    <3>1. <<l, base[l]>> \in Pairs
      OBVIOUS
    <3>2. \A R \in SUBSET Pairs : Closed(R) => <<l, base[l]>> \in R
      BY <2>1
    <3> QED BY <3>1, <3>2
  <2>2. ASSUME NEW l \in Locker, NEW v \in V, ParentOf[l] # NoLocker, <<ParentOf[l], v>> \in G
        PROVE  <<l, step[l][v]>> \in G
    <3>1. <<l, step[l][v]>> \in Pairs
      OBVIOUS
    <3>2. ASSUME NEW R \in SUBSET Pairs, Closed(R) PROVE <<l, step[l][v]>> \in R
      BY <2>2, <3>2
    <3> QED BY <3>1, <3>2
  <2> QED BY <2>1, <2>2
<1>2. ASSUME NEW l \in Locker, NEW v \in V, <<l, v>> \in G
      PROVE  ~Closed(G \ {<<l, v>>})
  <2>1. G \ {<<l, v>>} \in SUBSET Pairs
    OBVIOUS
  <2> QED BY <2>1, <1>2
<1>3. \A l \in Locker : \E v \in V : Only(l, v)
  <2> DEFINE S == {l \in Locker : ~ \E v \in V : Only(l, v)}
  <2> HIDE DEF Only
  <2> SUFFICES ASSUME S # {} PROVE FALSE
    OBVIOUS
  <2> USE DEF Only
  <2>1. PICK l \in S : ParentOf[l] \notin S
    <3>1. S \in (SUBSET Locker) \ {{}}
      OBVIOUS
    <3> HIDE DEF S
    <3> QED BY <3>1, LockerAssumption
  <2>2. l \in Locker /\ \A v \in V : ~Only(l, v)
    OBVIOUS
  <2> HIDE DEF S, G
  <2>3. CASE ParentOf[l] = NoLocker
    <3>1. <<l, base[l]>> \in G
      BY <1>1, <2>2, <2>3
    <3>2. PICK u \in V : <<l, u>> \in G /\ u # base[l]
      BY <3>1, <2>2
    <3>3. Closed(G \ {<<l, u>>})
      BY <1>1, <2>2, <2>3, <3>2
    <3> QED BY <1>2, <2>2, <3>2, <3>3
  <2>4. CASE ParentOf[l] # NoLocker
    <3>1. ParentOf[l] \in Locker
      BY <2>2, <2>4, LockerAssumption
    <3>2. PICK w \in V : Only(ParentOf[l], w)
      BY <2>1, <3>1 DEF S
    <3>3. <<l, step[l][w]>> \in G /\ step[l][w] \in V
      BY <1>1, <2>2, <2>4, <3>2
    <3>4. PICK u \in V : <<l, u>> \in G /\ u # step[l][w]
      BY <3>3, <2>2
    <3>5. Closed(G \ {<<l, u>>})
      BY <1>1, <2>2, <2>4, <3>2, <3>4
    <3> QED BY <1>2, <2>2, <3>4, <3>5
  <2> QED BY <2>3, <2>4
<1> HIDE DEF G
<1>4. PICK f \in [Locker -> V] : \A l \in Locker : Only(l, f[l])
  <2>1. [l \in Locker |-> CHOOSE v \in V : Only(l, v)] \in [Locker -> V]
    BY <1>3
  <2>2. \A l \in Locker : Only(l, [k \in Locker |-> CHOOSE v \in V : Only(k, v)][l])
    BY <1>3
  <2> QED BY <2>1, <2>2
<1>5. ASSUME NEW l \in Locker
      PROVE  f[l] = IF ParentOf[l] = NoLocker THEN base[l] ELSE step[l][f[ParentOf[l]]]
  <2>1. CASE ParentOf[l] = NoLocker
    BY <1>1, <1>4, <2>1
  <2>2. CASE ParentOf[l] # NoLocker
    <3>1. ParentOf[l] \in Locker
      BY <2>2, LockerAssumption
    <3>2. f[ParentOf[l]] \in V /\ <<ParentOf[l], f[ParentOf[l]]>> \in G
      BY <3>1, <1>4
    <3>3. <<l, step[l][f[ParentOf[l]]]>> \in G
      BY <3>2, <1>1, <2>2
    <3>4. step[l][f[ParentOf[l]]] \in V
      BY <3>2
    <3>5. step[l][f[ParentOf[l]]] = f[l]
      BY <1>4, <3>3, <3>4
    <3> QED BY <3>5, <2>2
  <2> QED BY <2>1, <2>2
<1> QED BY <1>4, <1>5 DEF ByParent

LEMMA MasterDef ==
  /\ Master \in [Locker -> Locker]
  /\ \A l \in Locker : Master[l] = IF ParentOf[l] = NoLocker THEN l ELSE Master[ParentOf[l]]
<1> DEFINE own == [l \in Locker |-> l]
           up == [l \in Locker |-> [m \in Locker |-> m]]
<1>1. ParentStep(Locker, own, up)
  BY DEF ParentStep
<1>2. PICK f : ByParent(f, Locker, own, up)
  <2> HIDE DEF own, up
  <2> QED BY <1>1, TreeRecursion
<1> USE DEF ByParent
<1>3. ASSUME NEW l \in Locker
      PROVE  (IF ParentOf[l] = NoLocker THEN own[l] ELSE up[l][f[ParentOf[l]]])
                = (IF ParentOf[l] = NoLocker THEN l ELSE f[ParentOf[l]])
  BY <1>2, LockerAssumption
<1>4. f = [l \in Locker |-> IF ParentOf[l] = NoLocker THEN l ELSE f[ParentOf[l]]]
  <2>1. \A l \in Locker : f[l] = IF ParentOf[l] = NoLocker THEN l ELSE f[ParentOf[l]]
    BY <1>2, <1>3
  <2> QED BY <1>2, <2>1
<1>5. Master = [l \in Locker |-> IF ParentOf[l] = NoLocker THEN l ELSE Master[ParentOf[l]]]
  BY <1>4, Zenon DEF Master
<1>6. ASSUME NEW g, g = [l \in Locker |-> IF ParentOf[l] = NoLocker THEN l ELSE g[ParentOf[l]]]
      PROVE  g \in [Locker -> Locker]
  <2> DEFINE S == {l \in Locker : g[l] \notin Locker}
  <2> SUFFICES ASSUME S # {} PROVE FALSE
    BY <1>6
  <2>1. PICK l \in S : ParentOf[l] \notin S
    <3>1. S \in (SUBSET Locker) \ {{}}
      OBVIOUS
    <3> HIDE DEF S
    <3> QED BY <3>1, LockerAssumption
  <2>2. l \in Locker /\ g[l] \notin Locker
    OBVIOUS
  <2>3. g[l] = IF ParentOf[l] = NoLocker THEN l ELSE g[ParentOf[l]]
    BY <2>2, <1>6
  <2>4. ParentOf[l] \in Locker
    BY <2>2, <2>3, LockerAssumption
  <2> QED BY <2>1, <2>2, <2>3, <2>4
<1>7. Master \in [Locker -> Locker]
  BY <1>5, <1>6
<1> HIDE DEF Master
<1> QED BY <1>5, <1>7

LEMMA AncestorsDef ==
  \A l \in Locker :
     Ancestors[l] = IF ParentOf[l] = NoLocker THEN {} ELSE {ParentOf[l]} \cup Ancestors[ParentOf[l]]
<1>1. PICK W : W = SUBSET Locker
  OBVIOUS
<1>2. PICK none : none = [l \in Locker |-> {}]
  OBVIOUS
<1>3. PICK up : up = [l \in Locker |-> [as \in W |-> IF ParentOf[l] = NoLocker THEN {}
                                                     ELSE {ParentOf[l]} \cup as]]
  OBVIOUS
<1>a. ParentStep(W, none, up)
  BY <1>1, <1>2, <1>3, LockerAssumption DEF ParentStep
<1>b. PICK f : ByParent(f, W, none, up)
  BY <1>a, TreeRecursion
<1> USE DEF ByParent
<1>4. \A l \in Locker : f[l] = IF ParentOf[l] = NoLocker THEN {} ELSE {ParentOf[l]} \cup f[ParentOf[l]]
  BY <1>1, <1>2, <1>3, <1>b, LockerAssumption, ZenonT(60)
<1>5. f = [l \in Locker |-> IF ParentOf[l] = NoLocker THEN {} ELSE {ParentOf[l]} \cup f[ParentOf[l]]]
  BY <1>b, <1>4
<1>6. Ancestors = [l \in Locker |-> IF ParentOf[l] = NoLocker THEN {}
                                    ELSE {ParentOf[l]} \cup Ancestors[ParentOf[l]]]
  BY <1>5, Zenon DEF Ancestors
<1> HIDE DEF Ancestors
<1> QED BY <1>6

\* An ancestor is of the same family.
LEMMA AncestorMaster ==
  \A l \in Locker : \A a \in Ancestors[l] : a \in Locker /\ Master[a] = Master[l]
<1> DEFINE S == {l \in Locker : \E a \in Ancestors[l] : ~(a \in Locker /\ Master[a] = Master[l])}
<1> SUFFICES ASSUME S # {} PROVE FALSE
  OBVIOUS
<1>1. PICK l \in S : ParentOf[l] \notin S
  <2>1. S \in (SUBSET Locker) \ {{}}
    OBVIOUS
  <2> HIDE DEF S
  <2> QED BY <2>1, LockerAssumption
<1>2. l \in Locker
  OBVIOUS
<1>3. PICK a \in Ancestors[l] : ~(a \in Locker /\ Master[a] = Master[l])
  BY <1>1
<1>4. ParentOf[l] # NoLocker /\ a \in {ParentOf[l]} \cup Ancestors[ParentOf[l]]
  BY <1>2, <1>3, AncestorsDef
<1>5. ParentOf[l] \in Locker
  BY <1>2, <1>4, LockerAssumption
<1>6. Master[l] = Master[ParentOf[l]]
  BY <1>2, <1>4, MasterDef
<1> QED BY <1>1, <1>3, <1>4, <1>5, <1>6

LEMMA NoOwnParent == \A l \in Locker : ParentOf[l] # l
<1> SUFFICES ASSUME NEW l \in Locker, ParentOf[l] = l PROVE FALSE
  OBVIOUS
<1>1. {l} \in (SUBSET Locker) \ {{}}
  OBVIOUS
<1> QED BY <1>1, LockerAssumption

-----------------------------------------------------------------------------
(* The entry of one object *)

\* r comes out of s by leaving elements out.
Embeds(e, r, s) ==
    /\ e \in [1..Len(r) -> 1..Len(s)]
    /\ \A i \in 1..Len(r) : r[i] = s[e[i]]
    /\ \A i, j \in 1..Len(r) : e[i] = e[j] => i = j

LEMMA KeptFacts ==
  ASSUME NEW S, NEW s \in Seq(S), NEW T
  PROVE  /\ Kept(s, T) \in Seq(S)
         /\ \E e : Embeds(e, Kept(s, T), s)
         /\ \A i \in 1..Len(Kept(s, T)) : Kept(s, T)[i] \in T
<1> DEFINE N == Len(s)
           base == <<>>
           step == [n \in 1..N |-> [r \in Seq(S) |-> IF s[n] \in T THEN Append(r, s[n]) ELSE r]]
<1>1. CountStep(N, Seq(S), base, step)
  BY DEF CountStep
<1>2. PICK kept : ByCount(kept, N, Seq(S), base, step)
  <2> N \in Nat
    OBVIOUS
  <2> HIDE DEF N, base, step
  <2> QED BY <1>1, CountRecursion
<1>a. kept \in [0..N -> Seq(S)]
  BY <1>2 DEF ByCount
<1>3. ASSUME NEW n \in 0..N
      PROVE  kept[n] = IF n = 0 THEN <<>>
                       ELSE IF s[n] \in T THEN Append(kept[n - 1], s[n]) ELSE kept[n - 1]
  <2>1. CASE n = 0
    BY <1>2, <2>1 DEF ByCount
  <2>2. CASE n # 0
    <3>1. n \in 1..N /\ n - 1 \in 0..N
      BY <2>2
    <3>2. kept[n - 1] \in Seq(S)
      BY <3>1, <1>a
    <3>3. kept[n] = step[n][kept[n - 1]]
      BY <1>2, <2>2 DEF ByCount
    <3>4. step[n][kept[n - 1]] = IF s[n] \in T THEN Append(kept[n - 1], s[n]) ELSE kept[n - 1]
      BY <3>1, <3>2
    <3> QED BY <2>2, <3>3, <3>4
  <2> QED BY <2>1, <2>2
<1>4. kept = [n \in 0..N |-> IF n = 0 THEN <<>>
                             ELSE IF s[n] \in T THEN Append(kept[n - 1], s[n]) ELSE kept[n - 1]]
  BY <1>a, <1>3
<1>5. \E g : /\ g = [n \in 0..Len(s) |->
                       IF n = 0 THEN <<>> ELSE IF s[n] \in T THEN Append(g[n - 1], s[n]) ELSE g[n - 1]]
             /\ Kept(s, T) = g[Len(s)]
  BY <1>4, Zenon DEF Kept
<1>6. ASSUME NEW g,
             g = [n \in 0..Len(s) |->
                    IF n = 0 THEN <<>> ELSE IF s[n] \in T THEN Append(g[n - 1], s[n]) ELSE g[n - 1]]
      PROVE  /\ g[Len(s)] \in Seq(S)
             /\ \E e : Embeds(e, g[Len(s)], s)
             /\ \A i \in 1..Len(g[Len(s)]) : g[Len(s)][i] \in T
  <2> DEFINE To(n, e, r) == /\ r \in Seq(S)
                            /\ e \in [1..Len(r) -> 1..n]
                            /\ \A i \in 1..Len(r) : r[i] = s[e[i]] /\ r[i] \in T
                            /\ \A i, j \in 1..Len(r) : e[i] = e[j] => i = j
             K == {n \in Nat : n =< Len(s) => \E e : To(n, e, g[n])}
  <2>1. 0 \in K
    <3>1. g[0] = <<>>
      BY <1>6
    <3>2. PICK e : e = [i \in 1..Len(<<>>) |-> i]
      OBVIOUS
    <3>3. Len(<<>>) = 0 /\ <<>> \in Seq(S) /\ 1..0 = {}
      OBVIOUS
    <3>4. e \in [1..Len(<<>>) -> 1..0]
      BY <3>2, <3>3
    <3>5. To(0, e, g[0])
      BY <3>1, <3>3, <3>4
    <3> HIDE DEF To
    <3> QED BY <3>5
  <2>2. ASSUME NEW n \in Nat, n \in K PROVE n + 1 \in K
    <3> SUFFICES ASSUME n + 1 =< Len(s) PROVE \E e : To(n + 1, e, g[n + 1])
      OBVIOUS
    <3>1. PICK e : To(n, e, g[n])
      BY <2>2
    <3>2. g[n + 1] = IF s[n + 1] \in T THEN Append(g[n], s[n + 1]) ELSE g[n]
      <4>1. n + 1 \in 0..Len(s) /\ n + 1 # 0 /\ (n + 1) - 1 = n
        OBVIOUS
      <4>2. \A m \in 0..Len(s) : m # 0 =>
               g[m] = IF s[m] \in T THEN Append(g[m - 1], s[m]) ELSE g[m - 1]
        BY <1>6
      <4> QED BY <4>1, <4>2
    <3>3. CASE s[n + 1] \in T
      <4>1. PICK r : r = Append(g[n], s[n + 1])
        OBVIOUS
      <4>2. PICK f : f = [i \in 1..Len(r) |-> IF i = Len(r) THEN n + 1 ELSE e[i]]
        OBVIOUS
      <4>3. r \in Seq(S) /\ Len(r) = Len(g[n]) + 1 /\ r[Len(r)] = s[n + 1]
            /\ \A i \in 1..Len(g[n]) : r[i] = g[n][i]
        BY <3>1, <4>1
      <4>4. f \in [1..Len(r) -> 1..n + 1]
        BY <3>1, <4>2, <4>3
      <4>a. \A i \in 1..Len(r) : i = Len(r) \/ i \in 1..Len(g[n])
        BY <3>1, <4>3
      <4>b. f[Len(r)] = n + 1
        BY <4>2, <4>3, <3>1
      <4>c. \A i \in 1..Len(g[n]) : f[i] = e[i] /\ e[i] \in 1..n /\ r[i] = s[e[i]] /\ r[i] \in T
        BY <3>1, <4>2, <4>3, SMTT(30)
      <4>5. \A i \in 1..Len(r) : r[i] = s[f[i]] /\ r[i] \in T
        BY <3>3, <4>3, <4>a, <4>b, <4>c
      <4>6. ASSUME NEW i \in 1..Len(r), NEW j \in 1..Len(r), f[i] = f[j] PROVE i = j
        <5>1. CASE i \in 1..Len(g[n]) /\ j \in 1..Len(g[n])
          BY <3>1, <4>6, <4>c, <5>1
        <5>2. CASE i = Len(r) \/ j = Len(r)
          BY <4>6, <4>a, <4>b, <4>c, <5>2
        <5> QED BY <4>a, <5>1, <5>2
      <4>7. To(n + 1, f, r)
        BY <4>3, <4>4, <4>5, <4>6
      <4> QED BY <4>1, <4>7, <3>2, <3>3, SMTT(30)
    <3>4. CASE s[n + 1] \notin T
      <4>1. To(n + 1, e, g[n])
        BY <3>1
      <4> QED BY <4>1, <3>2, <3>4
    <3> QED BY <3>3, <3>4
  <2> HIDE DEF K
  <2>3. Len(s) \in K
    BY <2>1, <2>2, SetInduction
  <2>4. PICK e : To(Len(s), e, g[Len(s)])
    BY <2>3 DEF K
  <2> QED BY <2>4 DEF Embeds
<1> QED BY <1>5, <1>6

\* One more holder.
LEMMA AppendHolder ==
  ASSUME NEW t, NEW u, NEW g \in Holder,
         t.holders \in Seq(Holder), t.waiters \in Seq(Waiter), Distinct(t), Compatible(t),
         u.holders = Append(t.holders, g), u.waiters = t.waiters,
         \A j \in 1..Len(t.holders) :
            /\ t.holders[j].locker = g.locker => t.holders[j].mode # g.mode
            /\ ~InTheWay(t.holders[j], g.locker, g.mode),
         \A i \in 1..Len(t.waiters) : t.waiters[i].locker # g.locker
  PROVE  /\ u.holders \in Seq(Holder)
         /\ Distinct(u) /\ Compatible(u)
         /\ FirstIsBlocked(t) => FirstIsBlocked(u)
<1>1. /\ u.holders \in Seq(Holder)
      /\ Len(u.holders) = Len(t.holders) + 1 /\ u.holders[Len(u.holders)] = g
      /\ \A i \in 1..Len(u.holders) :
            i = Len(u.holders) \/ (i \in 1..Len(t.holders) /\ u.holders[i] = t.holders[i])
  OBVIOUS
<1>2. HoldersDiffer(u)
  BY <1>1 DEF Distinct, HoldersDiffer
<1>3. WaitersDiffer(u)
  BY DEF Distinct, WaitersDiffer
<1>4. WaitsForMore(u)
  BY <1>1 DEF Distinct, WaitsForMore
<1>5. \A j \in 1..Len(t.holders) :
         Conflicts(t.holders[j].mode, g.mode) => Master[t.holders[j].locker] = Master[g.locker]
  <2> SUFFICES ASSUME NEW j \in 1..Len(t.holders), Conflicts(t.holders[j].mode, g.mode)
               PROVE  Master[t.holders[j].locker] = Master[g.locker]
    OBVIOUS
  <2>1. t.holders[j].locker = g.locker \/ t.holders[j].locker \in Ancestors[g.locker]
    BY DEF InTheWay
  <2>2. g.locker \in Locker
    BY DEF Holder
  <2> QED BY <2>1, <2>2, AncestorMaster
<1>6. Compatible(u)
  BY <1>1, <1>5 DEF Compatible, Conflicts
<1>7. ASSUME FirstIsBlocked(t) PROVE FirstIsBlocked(u)
  <2> SUFFICES ASSUME u.waiters # <<>>, Waits(u.waiters[1])
               PROVE  \E i \in 1..Len(u.holders) :
                          InTheWay(u.holders[i], u.waiters[1].locker, u.waiters[1].mode)
    BY DEF FirstIsBlocked
  <2>1. PICK i \in 1..Len(t.holders) : InTheWay(t.holders[i], t.waiters[1].locker, t.waiters[1].mode)
    BY <1>7 DEF FirstIsBlocked
  <2>2. i \in 1..Len(u.holders) /\ u.holders[i] = t.holders[i]
    BY <1>1
  <2> QED BY <2>1, <2>2
<1> QED BY <1>1, <1>2, <1>3, <1>4, <1>6, <1>7 DEF Distinct

\* One more request, at either end of the queue.
LEMMA AddWaiter ==
  ASSUME NEW t, NEW u, NEW w \in Waiter,
         t.holders \in Seq(Holder), t.waiters \in Seq(Waiter), Distinct(t), Compatible(t),
         u.holders = t.holders,
         u.waiters = Append(t.waiters, w) \/ u.waiters = <<w>> \o t.waiters,
         \A j \in 1..Len(t.holders) :
            t.holders[j].locker = w.locker =>
               t.holders[j].mode # w.mode /\ t.holders[j].status # "pending",
         \A i \in 1..Len(t.waiters) : t.waiters[i].locker # w.locker
  PROVE  u.waiters \in Seq(Waiter) /\ Distinct(u) /\ Compatible(u)
<1>1. u.waiters \in Seq(Waiter) /\ Len(u.waiters) = Len(t.waiters) + 1
  <2>1. CASE u.waiters = Append(t.waiters, w)
    BY <2>1
  <2>2. CASE u.waiters = <<w>> \o t.waiters
    <3>1. <<w>> \in Seq(Waiter) /\ Len(<<w>>) = 1
      OBVIOUS
    <3> QED BY <2>2, <3>1
  <2> QED BY <2>1, <2>2
<1>2. PICK at \in [1..Len(u.waiters) -> 0..Len(t.waiters)] :
         /\ \A i \in 1..Len(u.waiters) : u.waiters[i] = IF at[i] = 0 THEN w ELSE t.waiters[at[i]]
         /\ \A i, j \in 1..Len(u.waiters) : at[i] = at[j] => i = j
  <2>1. CASE u.waiters = Append(t.waiters, w)
    <3>1. PICK at : at = [i \in 1..Len(u.waiters) |-> IF i = Len(u.waiters) THEN 0 ELSE i]
      OBVIOUS
    <3>2. at \in [1..Len(u.waiters) -> 0..Len(t.waiters)]
      BY <1>1, <3>1
    <3>3. \A i \in 1..Len(u.waiters) : u.waiters[i] = IF at[i] = 0 THEN w ELSE t.waiters[at[i]]
      BY <1>1, <2>1, <3>1
    <3>4. \A i, j \in 1..Len(u.waiters) : at[i] = at[j] => i = j
      BY <1>1, <3>1
    <3> QED BY <3>2, <3>3, <3>4
  <2>2. CASE u.waiters = <<w>> \o t.waiters
    <3>1. PICK at : at = [i \in 1..Len(u.waiters) |-> i - 1]
      OBVIOUS
    <3>2. at \in [1..Len(u.waiters) -> 0..Len(t.waiters)]
      BY <1>1, <3>1
    <3>3. \A i \in 1..Len(u.waiters) : u.waiters[i] = IF at[i] = 0 THEN w ELSE t.waiters[at[i]]
      BY <1>1, <2>2, <3>1
    <3>4. \A i, j \in 1..Len(u.waiters) : at[i] = at[j] => i = j
      BY <1>1, <3>1
    <3> QED BY <3>2, <3>3, <3>4
  <2> QED BY <2>1, <2>2
<1>3. HoldersDiffer(u)
  BY DEF Distinct, HoldersDiffer
<1>a. \A i \in 1..Len(u.waiters) :
         \/ at[i] = 0 /\ u.waiters[i] = w
         \/ at[i] \in 1..Len(t.waiters) /\ u.waiters[i] = t.waiters[at[i]]
  <2> SUFFICES ASSUME NEW i \in 1..Len(u.waiters)
               PROVE  \/ at[i] = 0 /\ u.waiters[i] = w
                      \/ at[i] \in 1..Len(t.waiters) /\ u.waiters[i] = t.waiters[at[i]]
    OBVIOUS
  <2>1. at[i] \in 0..Len(t.waiters)
    BY <1>2
  <2> QED BY <1>2, <2>1
<1>4. WaitersDiffer(u)
  <2> SUFFICES ASSUME NEW i \in 1..Len(u.waiters), NEW j \in 1..Len(u.waiters),
                      u.waiters[i].locker = u.waiters[j].locker
               PROVE  at[i] = at[j]
    BY <1>2 DEF WaitersDiffer
  <2>a. \A k \in 1..Len(u.waiters) : at[k] = 0 <=> u.waiters[k].locker = w.locker
    <3> SUFFICES ASSUME NEW k \in 1..Len(u.waiters)
                 PROVE  at[k] = 0 <=> u.waiters[k].locker = w.locker
      OBVIOUS
    <3>1. CASE at[k] = 0 /\ u.waiters[k] = w
      BY <3>1
    <3>2. CASE at[k] \in 1..Len(t.waiters) /\ u.waiters[k] = t.waiters[at[k]]
      <4>1. at[k] # 0 /\ t.waiters[at[k]].locker # w.locker
        BY <3>2
      <4> QED BY <3>2, <4>1
    <3> QED BY <1>a, <3>1, <3>2
  <2>1. CASE at[i] = 0
    BY <2>1, <2>a
  <2>2. CASE at[j] = 0
    BY <2>2, <2>a
  <2>3. CASE at[i] # 0 /\ at[j] # 0
    <3>1. at[i] \in 1..Len(t.waiters) /\ u.waiters[i] = t.waiters[at[i]]
      BY <2>3, <1>a
    <3>2. at[j] \in 1..Len(t.waiters) /\ u.waiters[j] = t.waiters[at[j]]
      BY <2>3, <1>a
    <3> QED BY <3>1, <3>2 DEF Distinct, WaitersDiffer
  <2> QED BY <2>1, <2>2, <2>3
<1>5. WaitsForMore(u)
  <2> SUFFICES ASSUME NEW i \in 1..Len(u.waiters), NEW j \in 1..Len(u.holders),
                      u.holders[j].locker = u.waiters[i].locker
               PROVE  u.holders[j].mode # u.waiters[i].mode /\ u.holders[j].status # "pending"
    BY DEF WaitsForMore
  <2>1. CASE u.waiters[i] = w
    BY <2>1
  <2>2. CASE at[i] \in 1..Len(t.waiters) /\ u.waiters[i] = t.waiters[at[i]]
    BY <2>2 DEF Distinct, WaitsForMore
  <2> QED BY <1>a, <2>1, <2>2
<1>6. Compatible(u)
  BY SMTT(30) DEF Compatible
<1> QED BY <1>1, <1>3, <1>4, <1>5, <1>6 DEF Distinct

-----------------------------------------------------------------------------
(* Promotion *)

Scan == [holders : Seq(Holder), waiters : Seq(Waiter), stopped : BOOLEAN, changed : BOOLEAN]

Typed(t) == t.holders \in Seq(Holder) /\ t.waiters \in Seq(Waiter)

Granted(w) == [w EXCEPT !.status = "pending"]

\* What is left of entry t when the first n of its queue have been looked at.
RestDiffers(t, n, r) ==
    \A k \in n + 1..Len(t.waiters) :
        /\ \A i \in 1..Len(r.waiters) : r.waiters[i].locker # t.waiters[k].locker
        /\ \A j \in 1..Len(r.holders) :
              r.holders[j].locker = t.waiters[k].locker =>
                  r.holders[j].mode # t.waiters[k].mode /\ r.holders[j].status # "pending"

StillQueued(t, n, r) == \A i \in 1..Len(r.waiters) : \E k \in 1..n : r.waiters[i] = t.waiters[k]

HeldOrGranted(t, n, r) ==
    \A i \in 1..Len(r.holders) :
        \/ \E j \in 1..Len(t.holders) : r.holders[i] = t.holders[j]
        \/ \E k \in 1..n : r.holders[i] = Granted(t.waiters[k])

Scanned(t, n, r) ==
    /\ r \in Scan
    /\ Distinct(r) /\ Compatible(r) /\ FirstIsBlocked(r)
    /\ r.stopped => r.waiters # <<>>
    /\ RestDiffers(t, n, r) /\ StillQueued(t, n, r) /\ HeldOrGranted(t, n, r)

LEMMA PromoteOneInScan ==
  ASSUME NEW r \in Scan, NEW w \in Waiter
  PROVE  PromoteOne(r, w) \in Scan
<1>1. Granted(w) \in Holder
  BY DEF Granted, Waiter, Holder
<1>2. Append(r.holders, Granted(w)) \in Seq(Holder) /\ Append(r.waiters, w) \in Seq(Waiter)
  BY <1>1 DEF Scan
<1>3. [r EXCEPT !.holders = Append(@, Granted(w)), !.changed = TRUE] \in Scan
  BY <1>2 DEF Scan
<1>4. [r EXCEPT !.waiters = Append(@, w), !.stopped = @ \/ Waits(w)] \in Scan
  BY <1>2 DEF Scan, Waits
<1> QED BY <1>3, <1>4 DEF PromoteOne, Granted

LEMMA PromotedScan ==
  ASSUME NEW t, Typed(t)
  PROVE  \E scan \in [0..Len(t.waiters) -> Scan] :
            /\ scan[0] = [holders |-> t.holders, waiters |-> <<>>, stopped |-> FALSE,
                          changed |-> t.waiters = <<>>]
            /\ \A n \in 0..Len(t.waiters) : n < Len(t.waiters) =>
                  scan[n + 1] = PromoteOne(scan[n], t.waiters[n + 1])
            /\ Promoted(t) = scan[Len(t.waiters)]
<1> DEFINE N == Len(t.waiters)
           base == [holders |-> t.holders, waiters |-> <<>>, stopped |-> FALSE,
                    changed |-> t.waiters = <<>>]
           step == [n \in 1..N |-> [r \in Scan |-> PromoteOne(r, t.waiters[n])]]
<1>1. N \in Nat /\ base \in Scan
  BY DEF Typed, Scan
<1>2. \A r \in Scan : \A w \in Waiter : PromoteOne(r, w) \in Scan
  BY PromoteOneInScan
<1>3. CountStep(N, Scan, base, step)
  <2>1. \A n \in 1..N : t.waiters[n] \in Waiter
    BY DEF Typed
  <2>2. step \in [1..N -> [Scan -> Scan]]
    BY <1>2, <2>1
  <2> QED BY <1>1, <2>2 DEF CountStep
<1>4. PICK f : ByCount(f, N, Scan, base, step)
  <2> HIDE DEF N, base, step
  <2> QED BY <1>1, <1>3, CountRecursion
<1>5. f \in [0..N -> Scan] /\ f[0] = base
  <2>1. 0 \in 0..N
    BY <1>1
  <2> HIDE DEF base, step, N
  <2> QED BY <2>1, <1>4 DEF ByCount
<1>6. ASSUME NEW n \in 0..N, n # 0 PROVE f[n] = PromoteOne(f[n - 1], t.waiters[n])
  <2>1. n \in 1..N /\ n - 1 \in 0..N
    BY <1>6, <1>1
  <2>2. f[n - 1] \in Scan /\ f[n] = step[n][f[n - 1]]
    BY <1>4, <1>6, <2>1 DEF ByCount
  <2> QED BY <2>1, <2>2
<1>7. f = [n \in 0..N |-> IF n = 0 THEN base ELSE PromoteOne(f[n - 1], t.waiters[n])]
  <2>1. \A n \in 0..N : f[n] = IF n = 0 THEN base ELSE PromoteOne(f[n - 1], t.waiters[n])
    BY <1>5, <1>6
  <2> HIDE DEF base
  <2> QED BY <1>5, <2>1
<1>8. PICK g :
         /\ g = [n \in 0..Len(t.waiters) |->
                    IF n = 0 THEN [holders |-> t.holders, waiters |-> <<>>, stopped |-> FALSE,
                                   changed |-> t.waiters = <<>>]
                    ELSE PromoteOne(g[n - 1], t.waiters[n])]
         /\ Promoted(t) = g[Len(t.waiters)]
  BY <1>7, Zenon DEF Promoted
<1> HIDE DEF base, step
<1>9. ASSUME NEW n \in 0..N, g[n] = f[n], n < N PROVE g[n + 1] = f[n + 1]
  <2>1. n + 1 \in 0..N /\ n + 1 # 0 /\ (n + 1) - 1 = n
    BY <1>1, <1>9
  <2>2. f[n + 1] = PromoteOne(f[n], t.waiters[n + 1])
    BY <1>6, <2>1
  <2>3. g[n + 1] = PromoteOne(g[n], t.waiters[n + 1])
    BY <1>8, <2>1
  <2> QED BY <2>2, <2>3, <1>9
<1>10. g[0] = f[0]
  BY <1>1, <1>5, <1>8 DEF base
<1>11. g[N] = f[N]
  <2> DEFINE K == {n \in Nat : n =< N => g[n] = f[n]}
  <2>1. 0 \in K
    BY <1>10
  <2>2. ASSUME NEW n \in Nat, n \in K PROVE n + 1 \in K
    BY <1>9, <2>2, <1>1
  <2>3. N \in K
    <3> HIDE DEF K, N
    <3> QED BY <1>1, <2>1, <2>2, SetInduction
  <2> QED BY <2>3
<1>12. \A n \in 0..Len(t.waiters) : n < Len(t.waiters) =>
          f[n + 1] = PromoteOne(f[n], t.waiters[n + 1])
  <2> SUFFICES ASSUME NEW n \in 0..N, n < N PROVE f[n + 1] = PromoteOne(f[n], t.waiters[n + 1])
    OBVIOUS
  <2>1. n + 1 \in 0..N /\ n + 1 # 0 /\ (n + 1) - 1 = n
    BY <1>1
  <2> QED BY <1>6, <2>1
<1> QED BY <1>5, <1>8, <1>11, <1>12 DEF base

\* One request more looked at.
LEMMA PromoteOneScans ==
  ASSUME NEW t, Typed(t), Distinct(t), NEW n \in Nat, n < Len(t.waiters),
         NEW r, Scanned(t, n, r), NEW s, s = PromoteOne(r, t.waiters[n + 1])
  PROVE  Scanned(t, n + 1, s)
<1> DEFINE w == t.waiters[n + 1]
           g == Granted(w)
<1>1. n + 1 \in 1..Len(t.waiters) /\ w \in Waiter /\ n + 1 \in n + 1..Len(t.waiters)
  BY DEF Typed
<1>2. r \in Scan /\ r.holders \in Seq(Holder) /\ r.waiters \in Seq(Waiter)
  BY DEF Scanned, Scan
<1>3. g \in Holder /\ g.locker = w.locker /\ g.mode = w.mode
  BY <1>1 DEF Granted, Waiter, Holder
<1>4. /\ \A i \in 1..Len(r.waiters) : r.waiters[i].locker # w.locker
      /\ \A j \in 1..Len(r.holders) :
            r.holders[j].locker = w.locker => r.holders[j].mode # w.mode /\ r.holders[j].status # "pending"
  BY <1>1 DEF Scanned, RestDiffers
<1>5. \A k \in n + 1 + 1..Len(t.waiters) :
         t.waiters[k].locker # w.locker /\ k \in n + 1..Len(t.waiters)
  <2> SUFFICES ASSUME NEW k \in n + 1 + 1..Len(t.waiters)
               PROVE  t.waiters[k].locker # w.locker /\ k \in n + 1..Len(t.waiters)
    OBVIOUS
  <2>1. k \in 1..Len(t.waiters) /\ k # n + 1 /\ k \in n + 1..Len(t.waiters)
    BY <1>1
  <2> QED BY <1>1, <2>1 DEF Distinct, WaitersDiffer
<1> DEFINE free == Waits(w) /\ ~r.stopped /\ \A h \in Range(r.holders) : ~InTheWay(h, w.locker, w.mode)
<1>6. CASE free
  <2>1. s = [r EXCEPT !.holders = Append(@, g), !.changed = TRUE]
    BY <1>6 DEF PromoteOne, Granted
  <2>2. /\ s.holders = Append(r.holders, g) /\ s.waiters = r.waiters
        /\ s.stopped = r.stopped /\ s \in Scan
    <3>1. s \in Scan
      BY <1>1, <1>2, PromoteOneInScan
    <3> HIDE DEF g
    <3> QED BY <1>2, <2>1, <3>1 DEF Scan
  <2>3. \A j \in 1..Len(r.holders) : ~InTheWay(r.holders[j], g.locker, g.mode)
    BY <1>2, <1>3, <1>6 DEF Range
  <2>4. /\ Distinct(s) /\ Compatible(s) /\ FirstIsBlocked(s)
    <3>1. \A j \in 1..Len(r.holders) :
             /\ r.holders[j].locker = g.locker => r.holders[j].mode # g.mode
             /\ ~InTheWay(r.holders[j], g.locker, g.mode)
      BY <1>3, <1>4, <2>3
    <3>2. \A i \in 1..Len(r.waiters) : r.waiters[i].locker # g.locker
      BY <1>3, <1>4
    <3>3. Distinct(r) /\ Compatible(r) /\ FirstIsBlocked(r)
      BY DEF Scanned
    <3> HIDE DEF g
    <3> QED BY <1>2, <1>3, <2>2, <3>1, <3>2, <3>3, AppendHolder
  <2>5. /\ Len(s.holders) = Len(r.holders) + 1 /\ s.holders[Len(s.holders)] = g
        /\ \A i \in 1..Len(s.holders) :
              i = Len(s.holders) \/ (i \in 1..Len(r.holders) /\ s.holders[i] = r.holders[i])
    BY <1>2, <2>2
  <2>6. RestDiffers(t, n + 1, s)
    <3> SUFFICES ASSUME NEW k \in n + 1 + 1..Len(t.waiters)
                 PROVE  /\ \A i \in 1..Len(s.waiters) : s.waiters[i].locker # t.waiters[k].locker
                        /\ \A j \in 1..Len(s.holders) :
                              s.holders[j].locker = t.waiters[k].locker =>
                                s.holders[j].mode # t.waiters[k].mode /\ s.holders[j].status # "pending"
      BY DEF RestDiffers
    <3>1. k \in n + 1..Len(t.waiters) /\ t.waiters[k].locker # g.locker
      BY <1>3, <1>5
    <3> QED BY <2>2, <2>5, <3>1 DEF Scanned, RestDiffers
  <2>7. StillQueued(t, n + 1, s)
    <3>1. \A i \in 1..Len(r.waiters) : \E k \in 1..n : r.waiters[i] = t.waiters[k]
      BY DEF Scanned, StillQueued
    <3>2. \A k \in 1..n : k \in 1..n + 1
      OBVIOUS
    <3> QED BY <2>2, <3>1, <3>2 DEF StillQueued
  <2>8. HeldOrGranted(t, n + 1, s)
    <3> SUFFICES ASSUME NEW i \in 1..Len(s.holders)
                 PROVE  \/ \E j \in 1..Len(t.holders) : s.holders[i] = t.holders[j]
                        \/ \E k \in 1..n + 1 : s.holders[i] = Granted(t.waiters[k])
      BY DEF HeldOrGranted
    <3>1. CASE i = Len(s.holders)
      <4>1. n + 1 \in 1..n + 1 /\ s.holders[i] = Granted(t.waiters[n + 1])
        BY <2>5, <3>1
      <4> QED BY <4>1
    <3>2. CASE i \in 1..Len(r.holders) /\ s.holders[i] = r.holders[i]
      <4>1. \A k \in 1..n : k \in 1..n + 1
        OBVIOUS
      <4>2. \/ \E j \in 1..Len(t.holders) : r.holders[i] = t.holders[j]
            \/ \E k \in 1..n : r.holders[i] = Granted(t.waiters[k])
        BY <3>2 DEF Scanned, HeldOrGranted
      <4> QED BY <3>2, <4>1, <4>2
    <3> QED BY <2>5, <3>1, <3>2
  <2>9. s.stopped => s.waiters # <<>>
    BY <2>2 DEF Scanned
  <2> QED BY <2>2, <2>4, <2>6, <2>7, <2>8, <2>9 DEF Scanned
<1>7. CASE ~free
  <2>1. s = [r EXCEPT !.waiters = Append(@, w), !.stopped = @ \/ Waits(w)]
    BY <1>7 DEF PromoteOne
  <2>2. /\ s.holders = r.holders /\ s.waiters = Append(r.waiters, w) /\ s \in Scan
    <3>1. s \in Scan
      BY <1>1, <1>2, PromoteOneInScan
    <3>2. s.holders = r.holders /\ s.waiters = Append(r.waiters, w)
      BY <1>2, <2>1 DEF Scan
    <3> QED BY <3>1, <3>2
  <2>4. Distinct(s) /\ Compatible(s)
    BY <1>1, <1>2, <1>4, <2>2, AddWaiter DEF Scanned
  <2>5. /\ Len(s.waiters) = Len(r.waiters) + 1 /\ s.waiters[Len(s.waiters)] = w
        /\ \A i \in 1..Len(s.waiters) :
              i = Len(s.waiters) \/ (i \in 1..Len(r.waiters) /\ s.waiters[i] = r.waiters[i])
    BY <1>1, <1>2, <2>2
  <2>6. FirstIsBlocked(s)
    <3> SUFFICES ASSUME Waits(s.waiters[1])
                 PROVE  \E i \in 1..Len(s.holders) :
                            InTheWay(s.holders[i], s.waiters[1].locker, s.waiters[1].mode)
      BY DEF FirstIsBlocked
    <3>1. CASE r.waiters = <<>>
      <4>1. s.waiters[1] = w
        BY <2>5, <3>1
      <4>2. ~r.stopped
        BY <3>1 DEF Scanned
      <4>3. PICK h \in Range(r.holders) : InTheWay(h, w.locker, w.mode)
        BY <1>7, <4>1, <4>2
      <4>4. PICK i \in 1..Len(r.holders) : r.holders[i] = h
        BY <1>2 DEF Range
      <4> QED BY <2>2, <4>1, <4>3, <4>4
    <3>2. CASE r.waiters # <<>>
      <4>1. s.waiters[1] = r.waiters[1]
        BY <1>2, <2>2, <3>2
      <4> QED BY <2>2, <3>2, <4>1 DEF Scanned, FirstIsBlocked
    <3> QED BY <3>1, <3>2
  <2>7. RestDiffers(t, n + 1, s)
    <3> SUFFICES ASSUME NEW k \in n + 1 + 1..Len(t.waiters)
                 PROVE  /\ \A i \in 1..Len(s.waiters) : s.waiters[i].locker # t.waiters[k].locker
                        /\ \A j \in 1..Len(s.holders) :
                              s.holders[j].locker = t.waiters[k].locker =>
                                s.holders[j].mode # t.waiters[k].mode /\ s.holders[j].status # "pending"
      BY DEF RestDiffers
    <3>1. k \in n + 1..Len(t.waiters) /\ t.waiters[k].locker # w.locker
      BY <1>5
    <3> QED BY <2>2, <2>5, <3>1 DEF Scanned, RestDiffers
  <2>8. StillQueued(t, n + 1, s)
    <3> SUFFICES ASSUME NEW i \in 1..Len(s.waiters)
                 PROVE  \E k \in 1..n + 1 : s.waiters[i] = t.waiters[k]
      BY DEF StillQueued
    <3>1. CASE i = Len(s.waiters)
      <4>1. n + 1 \in 1..n + 1
        OBVIOUS
      <4> QED BY <2>5, <3>1, <4>1
    <3>2. CASE i \in 1..Len(r.waiters) /\ s.waiters[i] = r.waiters[i]
      <4>1. \A k \in 1..n : k \in 1..n + 1
        OBVIOUS
      <4> QED BY <3>2, <4>1 DEF Scanned, StillQueued
    <3> QED BY <2>5, <3>1, <3>2
  <2>9. HeldOrGranted(t, n + 1, s)
    <3>1. \A k \in 1..n : k \in 1..n + 1
      OBVIOUS
    <3> QED BY <2>2, <3>1 DEF Scanned, HeldOrGranted
  <2>10. s.waiters # <<>>
    BY <2>5
  <2> QED BY <2>2, <2>4, <2>6, <2>7, <2>8, <2>9, <2>10 DEF Scanned
<1> QED BY <1>6, <1>7

\* What every queue operation keeps, and what promotion brings about.
Sound(t) == Typed(t) /\ Distinct(t) /\ Compatible(t)

\* Who is queued, or holds the object, after t has become u.
Progress(t, u) ==
    \A l \in Locker :
        /\ QueuedIn(u, l) => QueuedIn(t, l)
        /\ PendingIn(u, l) => PendingIn(t, l) \/ QueuedIn(t, l)
        /\ HoldsIn(u, l) => HoldsIn(t, l) \/ QueuedIn(t, l)

LEMMA ProgressTransitive ==
  ASSUME NEW t, NEW u, NEW v, Progress(t, u), Progress(u, v)
  PROVE  Progress(t, v)
BY DEF Progress

LEMMA PromotedScanned ==
  ASSUME NEW t, Sound(t)
  PROVE  Scanned(t, Len(t.waiters), Promoted(t))
<1>1. Typed(t) /\ Distinct(t) /\ Compatible(t) /\ Len(t.waiters) \in Nat
  BY DEF Sound, Typed
<1>2. PICK scan \in [0..Len(t.waiters) -> Scan] :
         /\ scan[0] = [holders |-> t.holders, waiters |-> <<>>, stopped |-> FALSE,
                       changed |-> t.waiters = <<>>]
         /\ \A n \in 0..Len(t.waiters) : n < Len(t.waiters) =>
               scan[n + 1] = PromoteOne(scan[n], t.waiters[n + 1])
         /\ Promoted(t) = scan[Len(t.waiters)]
  BY <1>1, PromotedScan
<1> DEFINE K == {n \in Nat : n =< Len(t.waiters) => Scanned(t, n, scan[n])}
<1>3. 0 \in K
  <2>1. PICK r : r = scan[0]
    OBVIOUS
  <2>2. r.holders = t.holders /\ r.waiters = <<>> /\ ~r.stopped /\ r \in Scan
    BY <1>1, <1>2, <2>1
  <2>3. Distinct(r) /\ Compatible(r) /\ FirstIsBlocked(r)
    BY <1>1, <2>2 DEF Distinct, HoldersDiffer, WaitersDiffer, WaitsForMore, Compatible, FirstIsBlocked
  <2>4. RestDiffers(t, 0, r)
    BY <1>1, <2>2 DEF RestDiffers, Distinct, WaitsForMore
  <2>5. StillQueued(t, 0, r) /\ HeldOrGranted(t, 0, r)
    BY <2>2 DEF StillQueued, HeldOrGranted
  <2>6. Scanned(t, 0, r)
    BY <2>2, <2>3, <2>4, <2>5 DEF Scanned
  <2> QED BY <2>1, <2>6
<1>4. ASSUME NEW n \in Nat, n \in K PROVE n + 1 \in K
  <2> SUFFICES ASSUME n + 1 =< Len(t.waiters) PROVE Scanned(t, n + 1, scan[n + 1])
    OBVIOUS
  <2>1. n \in 0..Len(t.waiters) /\ n < Len(t.waiters) /\ Scanned(t, n, scan[n])
    BY <1>1, <1>4
  <2>2. scan[n + 1] = PromoteOne(scan[n], t.waiters[n + 1])
    BY <1>2, <2>1
  <2> QED BY <1>1, <2>1, <2>2, PromoteOneScans
<1> HIDE DEF K
<1>5. Len(t.waiters) \in K
  BY <1>1, <1>3, <1>4, SetInduction
<1> QED BY <1>2, <1>5 DEF K

HeldOrQueued(t, u) ==
    \A i \in 1..Len(u.holders) :
        \/ \E j \in 1..Len(t.holders) : u.holders[i] = t.holders[j]
        \/ QueuedIn(t, u.holders[i].locker)

LEMMA PromotedFacts ==
  ASSUME NEW t, Sound(t), NEW p, p = Promoted(t)
  PROVE  /\ Sound(p) /\ FirstIsBlocked(p) /\ p.changed \in BOOLEAN
         /\ Progress(t, p) /\ HeldOrQueued(t, p)
<1>1. Scanned(t, Len(t.waiters), p)
  BY PromotedScanned
<1>2. p \in Scan
  BY <1>1 DEF Scanned
<1>3. Typed(t) /\ Len(t.waiters) \in Nat
  BY DEF Sound, Typed
<1>4. Typed(p) /\ p.changed \in BOOLEAN
  BY <1>2 DEF Scan, Typed
<1>5. ASSUME NEW l \in Locker, QueuedIn(p, l) PROVE QueuedIn(t, l)
  BY <1>1, <1>5 DEF QueuedIn, Scanned, StillQueued
<1>6. ASSUME NEW i \in 1..Len(p.holders)
      PROVE  \/ \E j \in 1..Len(t.holders) : p.holders[i] = t.holders[j]
             \/ QueuedIn(t, p.holders[i].locker)
  <2>1. \/ \E j \in 1..Len(t.holders) : p.holders[i] = t.holders[j]
        \/ \E k \in 1..Len(t.waiters) : p.holders[i] = Granted(t.waiters[k])
    BY <1>1 DEF Scanned, HeldOrGranted
  <2>2. ASSUME NEW k \in 1..Len(t.waiters), p.holders[i] = Granted(t.waiters[k])
        PROVE  QueuedIn(t, p.holders[i].locker)
    <3>1. t.waiters[k] \in Waiter
      BY <1>3 DEF Typed
    <3>2. p.holders[i].locker = t.waiters[k].locker
      BY <2>2, <3>1 DEF Granted, Waiter
    <3> QED BY <3>2 DEF QueuedIn
  <2> QED BY <2>1, <2>2
<1>7. Progress(t, p)
  BY <1>5, <1>6 DEF Progress, PendingIn, HoldsIn
<1>8. HeldOrQueued(t, p)
  BY <1>6 DEF HeldOrQueued
<1> QED BY <1>1, <1>4, <1>7, <1>8 DEF Scanned, Sound

\* Holders and requests that go.
LEMMA FewerSound ==
  ASSUME NEW t, Sound(t), NEW u, Typed(u),
         \E e : Embeds(e, u.holders, t.holders), \E e : Embeds(e, u.waiters, t.waiters)
  PROVE  Sound(u) /\ Progress(t, u)
<1>1. PICK e : Embeds(e, u.holders, t.holders)
  OBVIOUS
<1>2. PICK f : Embeds(f, u.waiters, t.waiters)
  OBVIOUS
<1>3. \A i \in 1..Len(u.holders) : \E k \in 1..Len(t.holders) : k = e[i] /\ u.holders[i] = t.holders[k]
  BY <1>1 DEF Embeds
<1>4. \A i \in 1..Len(u.waiters) : \E k \in 1..Len(t.waiters) : k = f[i] /\ u.waiters[i] = t.waiters[k]
  BY <1>2 DEF Embeds
<1>5. HoldersDiffer(u)
  <2> SUFFICES ASSUME NEW i \in 1..Len(u.holders), NEW j \in 1..Len(u.holders),
                      u.holders[i].locker = u.holders[j].locker, u.holders[i].mode = u.holders[j].mode
               PROVE  e[i] = e[j]
    BY <1>1 DEF HoldersDiffer, Embeds
  <2>1. PICK k \in 1..Len(t.holders) : k = e[i] /\ u.holders[i] = t.holders[k]
    BY <1>3
  <2>2. PICK m \in 1..Len(t.holders) : m = e[j] /\ u.holders[j] = t.holders[m]
    BY <1>3
  <2> QED BY <2>1, <2>2 DEF Sound, Distinct, HoldersDiffer
<1>6. WaitersDiffer(u)
  <2> SUFFICES ASSUME NEW i \in 1..Len(u.waiters), NEW j \in 1..Len(u.waiters),
                      u.waiters[i].locker = u.waiters[j].locker
               PROVE  f[i] = f[j]
    BY <1>2 DEF WaitersDiffer, Embeds
  <2>1. PICK k \in 1..Len(t.waiters) : k = f[i] /\ u.waiters[i] = t.waiters[k]
    BY <1>4
  <2>2. PICK m \in 1..Len(t.waiters) : m = f[j] /\ u.waiters[j] = t.waiters[m]
    BY <1>4
  <2> QED BY <2>1, <2>2 DEF Sound, Distinct, WaitersDiffer
<1>7. WaitsForMore(u)
  <2> SUFFICES ASSUME NEW i \in 1..Len(u.waiters), NEW j \in 1..Len(u.holders),
                      u.holders[j].locker = u.waiters[i].locker
               PROVE  u.holders[j].mode # u.waiters[i].mode /\ u.holders[j].status # "pending"
    BY DEF WaitsForMore
  <2>1. PICK k \in 1..Len(t.waiters) : u.waiters[i] = t.waiters[k]
    BY <1>4
  <2>2. PICK m \in 1..Len(t.holders) : u.holders[j] = t.holders[m]
    BY <1>3
  <2> QED BY <2>1, <2>2 DEF Sound, Distinct, WaitsForMore
<1>8. Compatible(u)
  <2> SUFFICES ASSUME NEW i \in 1..Len(u.holders), NEW j \in 1..Len(u.holders),
                      Conflicts(u.holders[i].mode, u.holders[j].mode)
               PROVE  Master[u.holders[i].locker] = Master[u.holders[j].locker]
    BY DEF Compatible
  <2>1. PICK k \in 1..Len(t.holders) : u.holders[i] = t.holders[k]
    BY <1>3
  <2>2. PICK m \in 1..Len(t.holders) : u.holders[j] = t.holders[m]
    BY <1>3
  <2> QED BY <2>1, <2>2 DEF Sound, Compatible
<1>9. Progress(t, u)
  BY <1>3, <1>4 DEF Progress, QueuedIn, PendingIn, HoldsIn
<1> QED BY <1>5, <1>6, <1>7, <1>8, <1>9 DEF Sound, Distinct

LEMMA EmbedsItself == ASSUME NEW S, NEW s \in Seq(S) PROVE \E e : Embeds(e, s, s)
<1>1. PICK e : e = [i \in 1..Len(s) |-> i]
  OBVIOUS
<1> QED BY <1>1 DEF Embeds

-----------------------------------------------------------------------------
(* Giving locks back *)

PutScan == {r \in [holders : Seq(Holder), waiters : Seq(Waiter), stuck : BOOLEAN] : Sound(r)}

LEMMA PutOneFacts ==
  ASSUME NEW r \in PutScan, NEW h, NEW s, s = PutOne(r, h)
  PROVE  /\ s \in PutScan /\ FirstIsBlocked(s) /\ Progress(r, s)
         /\ \A i \in 1..Len(s.holders) :
               \/ \E j \in 1..Len(r.holders) : s.holders[i] = r.holders[j] /\ r.holders[j] # h
               \/ QueuedIn(r, s.holders[i].locker)
<1>1. Sound(r) /\ r.holders \in Seq(Holder) /\ r.waiters \in Seq(Waiter) /\ r.stuck \in BOOLEAN
  BY DEF PutScan
<1>2. PICK hs : hs = Kept(r.holders, Range(r.holders) \ {h})
  OBVIOUS
<1>3. hs \in Seq(Holder) /\ (\E e : Embeds(e, hs, r.holders))
      /\ \A i \in 1..Len(hs) : hs[i] \in Range(r.holders) \ {h}
  BY <1>1, <1>2, KeptFacts
<1>4. PICK u : u = [r EXCEPT !.holders = hs]
  OBVIOUS
<1>5. u.holders = hs /\ u.waiters = r.waiters
  BY <1>4 DEF PutScan
<1>6. Typed(u) /\ (\E e : Embeds(e, u.holders, r.holders)) /\ \E e : Embeds(e, u.waiters, r.waiters)
  BY <1>1, <1>3, <1>5, EmbedsItself DEF Typed
<1>7. Sound(u) /\ Progress(r, u)
  BY <1>1, <1>6, FewerSound
<1>8. PICK p : p = Promoted(u)
  OBVIOUS
<1>9. Sound(p) /\ FirstIsBlocked(p) /\ p.changed \in BOOLEAN /\ Progress(u, p) /\ HeldOrQueued(u, p)
  BY <1>7, <1>8, PromotedFacts
<1>10. s = [holders |-> p.holders, waiters |-> p.waiters, stuck |-> r.stuck \/ ~p.changed]
  BY <1>2, <1>4, <1>8 DEF PutOne, Without
<1>11. s.holders = p.holders /\ s.waiters = p.waiters
  BY <1>10
<1>12. (r.stuck \/ ~p.changed) \in BOOLEAN
  OBVIOUS
<1>13. s \in [holders : Seq(Holder), waiters : Seq(Waiter), stuck : BOOLEAN]
  BY <1>9, <1>10, <1>12 DEF Sound, Typed
<1>14. Sound(s) /\ FirstIsBlocked(s) /\ Progress(u, s)
  BY <1>9, <1>11 DEF Sound, Typed, Distinct, HoldersDiffer, WaitersDiffer, WaitsForMore, Compatible,
                     FirstIsBlocked, Progress, QueuedIn, PendingIn, HoldsIn
<1>15. Progress(r, s)
  BY <1>7, <1>14, ProgressTransitive
<1>16. ASSUME NEW i \in 1..Len(s.holders)
       PROVE  \/ \E j \in 1..Len(r.holders) : s.holders[i] = r.holders[j] /\ r.holders[j] # h
              \/ QueuedIn(r, s.holders[i].locker)
  <2>1. CASE \E k \in 1..Len(u.holders) : p.holders[i] = u.holders[k]
    <3>1. PICK k \in 1..Len(hs) : s.holders[i] = hs[k]
      BY <1>5, <1>11, <2>1
    <3>2. hs[k] # h /\ \E j \in 1..Len(r.holders) : hs[k] = r.holders[j]
      <4>1. hs[k] \in Range(r.holders) \ {h}
        BY <1>3
      <4> QED BY <1>1, <4>1 DEF Range
    <3> QED BY <3>1, <3>2
  <2>2. CASE QueuedIn(u, p.holders[i].locker)
    BY <1>5, <1>11, <2>2 DEF QueuedIn
  <2> QED BY <1>9, <1>11, <2>1, <2>2 DEF HeldOrQueued
<1> QED BY <1>13, <1>14, <1>15, <1>16 DEF PutScan

\* All locks of l on one object are given back.
LEMMA PutAllFacts ==
  ASSUME NEW o \in Object, NEW l \in Locker, EntryOK(table[o]), NEW p, p = PutAll(o, l)
  PROVE  /\ p.stuck \in BOOLEAN
         /\ EntryOK(Entry(p)) /\ Progress(table[o], Entry(p))
         /\ ~QueuedIn(table[o], l) => ~HoldsIn(Entry(p), l)
<1>1. PICK t : t = table[o]
  OBVIOUS
<1>2. PICK hs : hs = t.holders
  OBVIOUS
<1>3. PICK N : N = Len(hs)
  OBVIOUS
<1>4. t \in LockEntry /\ hs \in Seq(Holder) /\ N \in Nat /\ Sound(t) /\ FirstIsBlocked(t)
  BY <1>1, <1>2, <1>3 DEF EntryOK, LockEntry, Sound, Typed
<1>5. PICK base : base = [holders |-> hs, waiters |-> t.waiters, stuck |-> FALSE]
  OBVIOUS
<1>6. base.holders = t.holders /\ base.waiters = t.waiters
  BY <1>2, <1>5
<1>7. base \in PutScan /\ FirstIsBlocked(base) /\ Progress(t, base)
  <2>1. Sound(base)
    BY <1>4, <1>6 DEF Sound, Typed, Distinct, HoldersDiffer, WaitersDiffer, WaitsForMore, Compatible
  <2>2. base \in [holders : Seq(Holder), waiters : Seq(Waiter), stuck : BOOLEAN]
    BY <1>4, <1>5 DEF LockEntry
  <2>3. FirstIsBlocked(base) /\ Progress(t, base)
    BY <1>4, <1>6 DEF FirstIsBlocked, Progress, QueuedIn, PendingIn, HoldsIn
  <2> QED BY <2>1, <2>2, <2>3 DEF PutScan
<1> DEFINE Step(r, n) == IF hs[N + 1 - n].locker = l THEN PutOne(r, hs[N + 1 - n]) ELSE r
<1>8. PICK step : step = [n \in 1..N |-> [r \in PutScan |-> Step(r, n)]]
  OBVIOUS
<1>9. CountStep(N, PutScan, base, step)
  <2>1. \A n \in 1..N : \A r \in PutScan : Step(r, n) \in PutScan
    BY PutOneFacts
  <2> QED BY <1>7, <1>8, <2>1 DEF CountStep
<1>10. PICK f : ByCount(f, N, PutScan, base, step)
  BY <1>4, <1>9, CountRecursion
<1>11. ASSUME NEW n \in 0..N
       PROVE  f[n] = IF n = 0 THEN base ELSE Step(f[n - 1], n)
  <2>1. CASE n = 0
    BY <1>10, <2>1 DEF ByCount
  <2>2. CASE n # 0
    <3>1. n \in 1..N /\ n - 1 \in 0..N
      BY <1>4, <2>2
    <3>2. f[n - 1] \in PutScan /\ f[n] = step[n][f[n - 1]]
      BY <1>10, <2>2, <3>1 DEF ByCount
    <3> QED BY <1>8, <2>2, <3>1, <3>2
  <2> QED BY <2>1, <2>2
<1>12. f = [n \in 0..N |-> IF n = 0 THEN base ELSE Step(f[n - 1], n)]
  <2>1. f \in [0..N -> PutScan]
    BY <1>10 DEF ByCount
  <2> HIDE DEF Step
  <2> QED BY <1>11, <2>1
<1>13. PICK g : /\ g = [n \in 0..N |-> IF n = 0 THEN base ELSE Step(g[n - 1], n)]
                /\ p = g[N]
  BY <1>1, <1>2, <1>3, <1>5, <1>12, ZenonT(60) DEF PutAll
<1> DEFINE Rest(n, r) ==
              \A i \in 1..Len(r.holders) :
                  r.holders[i].locker = l => \E j \in 1..N - n : r.holders[i] = hs[j]
           After(n, r) ==
              /\ r \in PutScan /\ FirstIsBlocked(r) /\ Progress(t, r)
              /\ ~QueuedIn(t, l) => Rest(n, r)
           K == {n \in Nat : n =< N => After(n, g[n])}
<1>14. 0 \in K
  <2>1. g[0] = base
    BY <1>4, <1>13
  <2>2. Rest(0, base)
    <3>1. N - 0 = Len(base.holders) /\ base.holders = hs
      BY <1>2, <1>3, <1>4, <1>6
    <3> QED BY <3>1
  <2> QED BY <1>7, <2>1, <2>2
<1>15. ASSUME NEW n \in Nat, n \in K PROVE n + 1 \in K
  <2> SUFFICES ASSUME n + 1 =< N PROVE After(n + 1, g[n + 1])
    OBVIOUS
  <2>1. After(n, g[n]) /\ n + 1 \in 0..N /\ n + 1 # 0 /\ (n + 1) - 1 = n
    BY <1>4, <1>15
  <2>2. PICK m : m = N + 1 - (n + 1)
    OBVIOUS
  <2>3. m \in 1..N /\ m = N - n /\ N - (n + 1) = m - 1
    BY <1>4, <2>2
  <2>4. PICK r : r = g[n]
    OBVIOUS
  <2>5. PICK s : s = g[n + 1]
    OBVIOUS
  <2>6. s = IF hs[m].locker = l THEN PutOne(r, hs[m]) ELSE r
    <3>1. \A k \in 0..N : k # 0 => g[k] = Step(g[k - 1], k)
      <4> HIDE DEF Step
      <4> QED BY <1>13
    <3>2. s = Step(r, n + 1)
      <4> HIDE DEF Step
      <4> QED BY <2>1, <2>4, <2>5, <3>1
    <3> QED BY <2>2, <3>2
  <2>7. CASE hs[m].locker = l
    <3>1. s = PutOne(r, hs[m]) /\ r \in PutScan
      BY <2>1, <2>4, <2>6, <2>7
    <3>2. s \in PutScan /\ FirstIsBlocked(s) /\ Progress(r, s)
      BY <3>1, PutOneFacts
    <3>3. Progress(t, s)
      BY <2>1, <2>4, <3>2, ProgressTransitive
    <3>4. ASSUME ~QueuedIn(t, l), NEW i \in 1..Len(s.holders), s.holders[i].locker = l
          PROVE  \E j \in 1..N - (n + 1) : s.holders[i] = hs[j]
      <4>1. ~QueuedIn(r, l)
        BY <2>1, <2>4, <3>4 DEF Progress
      <4>2. PICK j \in 1..Len(r.holders) : s.holders[i] = r.holders[j] /\ r.holders[j] # hs[m]
        BY <3>1, <3>4, <4>1, PutOneFacts
      <4>3. PICK k \in 1..N - n : r.holders[j] = hs[k]
        BY <2>1, <2>4, <3>4, <4>2
      <4>4. k \in 1..N - (n + 1)
        BY <1>4, <2>3, <4>2, <4>3
      <4> QED BY <4>2, <4>3, <4>4
    <3> QED BY <2>5, <3>2, <3>3, <3>4
  <2>8. CASE hs[m].locker # l
    <3>1. s = r
      BY <2>6, <2>8
    <3>2. ASSUME ~QueuedIn(t, l), NEW i \in 1..Len(s.holders), s.holders[i].locker = l
          PROVE  \E j \in 1..N - (n + 1) : s.holders[i] = hs[j]
      <4>1. PICK k \in 1..N - n : s.holders[i] = hs[k]
        BY <2>1, <2>4, <3>1, <3>2
      <4>2. k \in 1..N - (n + 1)
        BY <1>4, <2>3, <2>8, <3>2, <4>1
      <4> QED BY <4>1, <4>2
    <3> QED BY <2>1, <2>4, <2>5, <3>1, <3>2
  <2> QED BY <2>7, <2>8
<1> HIDE DEF K
<1>16. N \in K
  BY <1>4, <1>14, <1>15, SetInduction
<1>17. After(N, p)
  BY <1>4, <1>13, <1>16 DEF K
<1>18. Sound(p) /\ FirstIsBlocked(p) /\ Progress(t, p) /\ p.stuck \in BOOLEAN
  BY <1>17 DEF PutScan
<1>19. ~QueuedIn(t, l) => ~HoldsIn(p, l)
  BY <1>4, <1>17 DEF HoldsIn
<1>20. PICK e : e = Entry(p)
  OBVIOUS
<1>21. e.holders = p.holders /\ e.waiters = p.waiters /\ e \in LockEntry
  BY <1>18, <1>20 DEF Entry, LockEntry, Sound, Typed
<1>22. EntryOK(e) /\ Progress(t, e)
  BY <1>18, <1>21 DEF EntryOK, Sound, Distinct, HoldersDiffer, WaitersDiffer, WaitsForMore, Compatible,
                      FirstIsBlocked, Progress, QueuedIn, PendingIn, HoldsIn
<1>23. ~QueuedIn(t, l) => ~HoldsIn(e, l)
  BY <1>19, <1>21 DEF HoldsIn
<1> QED BY <1>1, <1>18, <1>20, <1>22, <1>23

\* The queue of one object is promoted.
LEMMA PromotedEntry ==
  ASSUME NEW t, Sound(t), NEW p, p = Promoted(t)
  PROVE  /\ EntryOK(Entry(p)) /\ Progress(t, Entry(p)) /\ p.changed \in BOOLEAN
         /\ HeldOrQueued(t, Entry(p))
<1>1. Sound(p) /\ FirstIsBlocked(p) /\ p.changed \in BOOLEAN /\ Progress(t, p) /\ HeldOrQueued(t, p)
  BY PromotedFacts
<1>2. PICK e : e = Entry(p)
  OBVIOUS
<1>3. e.holders = p.holders /\ e.waiters = p.waiters /\ e \in LockEntry
  BY <1>1, <1>2 DEF Entry, LockEntry, Sound, Typed
<1>4. EntryOK(e) /\ Progress(t, e) /\ HeldOrQueued(t, e)
  BY <1>1, <1>3 DEF EntryOK, Sound, Distinct, HoldersDiffer, WaitersDiffer, WaitsForMore, Compatible,
                    FirstIsBlocked, Progress, QueuedIn, PendingIn, HoldsIn, HeldOrQueued
<1> QED BY <1>1, <1>2, <1>4

\* Requests leave the queue, and it is promoted.
LEMMA RequestsLeave ==
  ASSUME NEW t, EntryOK(t), NEW T, NEW u, u = [t EXCEPT !.waiters = Kept(@, T)],
         NEW p, p = Promoted(u)
  PROVE  /\ EntryOK(Entry(p)) /\ Progress(t, Entry(p)) /\ p.changed \in BOOLEAN
         /\ \A l \in Locker :
               (\A i \in 1..Len(t.waiters) : t.waiters[i].locker = l => t.waiters[i] \notin T)
                   => ~QueuedIn(u, l) /\ ~QueuedIn(Entry(p), l) /\ (PendingIn(Entry(p), l) => PendingIn(t, l))
<1>1. t \in LockEntry /\ Sound(t)
  BY DEF EntryOK, Sound, LockEntry, Typed
<1>2. PICK ws : ws = Kept(t.waiters, T)
  OBVIOUS
<1>3. ws \in Seq(Waiter) /\ (\E e : Embeds(e, ws, t.waiters)) /\ \A i \in 1..Len(ws) : ws[i] \in T
  BY <1>1, <1>2, KeptFacts DEF LockEntry
<1>4. u.holders = t.holders /\ u.waiters = ws
  BY <1>1, <1>2 DEF LockEntry
<1>5. Typed(u) /\ (\E e : Embeds(e, u.holders, t.holders)) /\ \E e : Embeds(e, u.waiters, t.waiters)
  BY <1>1, <1>3, <1>4, EmbedsItself DEF Typed, LockEntry
<1>6. Sound(u) /\ Progress(t, u)
  BY <1>1, <1>5, FewerSound
<1>7. PICK e : e = Entry(p)
  OBVIOUS
<1>8. EntryOK(e) /\ Progress(u, e) /\ p.changed \in BOOLEAN
  BY <1>6, <1>7, PromotedEntry
<1>9. Progress(t, e)
  BY <1>6, <1>8, ProgressTransitive
<1>10. ASSUME NEW l \in Locker, \A i \in 1..Len(t.waiters) : t.waiters[i].locker = l => t.waiters[i] \notin T
       PROVE  ~QueuedIn(u, l)
  <2> SUFFICES ASSUME NEW i \in 1..Len(ws), ws[i].locker = l PROVE FALSE
    BY <1>4 DEF QueuedIn
  <2>1. PICK f : Embeds(f, ws, t.waiters)
    BY <1>3
  <2>2. f[i] \in 1..Len(t.waiters) /\ ws[i] = t.waiters[f[i]]
    BY <2>1 DEF Embeds
  <2> QED BY <1>3, <1>10, <2>2
<1>11. \A l \in Locker : ~QueuedIn(u, l) => ~QueuedIn(e, l) /\ (PendingIn(e, l) => PendingIn(t, l))
  <2>1. \A l \in Locker : PendingIn(u, l) => PendingIn(t, l)
    BY <1>4 DEF PendingIn
  <2> QED BY <2>1, <1>8 DEF Progress
<1> QED BY <1>7, <1>8, <1>9, <1>10, <1>11

\* The locks of a child go to its parent.
LEMMA InheritedFacts ==
  ASSUME NEW o \in Object, NEW l \in Locker, NEW t, t = table[o], EntryOK(t),
         ParentOf[l] # NoLocker,
         ~QueuedIn(t, l), ~PendingIn(t, l), ~QueuedIn(t, ParentOf[l]), NEW e, e = Inherited(o, l)
  PROVE  /\ EntryOK(e) /\ ~HoldsIn(e, l)
         /\ \A k \in Locker :
               /\ QueuedIn(e, k) => QueuedIn(t, k)
               /\ PendingIn(e, k) => PendingIn(t, k) \/ QueuedIn(t, k)
               /\ HoldsIn(e, k) => HoldsIn(t, k) \/ QueuedIn(t, k) \/ k = ParentOf[l]
<1> DEFINE parent == ParentOf[l]
<1>1. t \in LockEntry /\ Sound(t) /\ t.holders \in Seq(Holder) /\ t.waiters \in Seq(Waiter)
  BY DEF EntryOK, Sound, LockEntry, Typed
<1>2. parent \in Locker /\ parent # l /\ Master[parent] = Master[l]
  BY LockerAssumption, NoOwnParent, MasterDef
<1>3. CASE Holds(l, o) = {}
  <2>1. e = t
    BY <1>3 DEF Inherited
  <2>2. ~HoldsIn(t, l)
    BY <1>1, <1>3 DEF Holds, HoldsIn, Range
  <2> QED BY <2>1, <2>2
<1>4. CASE Holds(l, o) # {}
  <2>1. PICK absorbed : absorbed = {h \in Holds(l, o) : \E g \in Holds(parent, o) : g.mode = h.mode}
    OBVIOUS
  <2>2. PICK moved : moved = Kept(t.holders, Range(t.holders) \ absorbed)
    OBVIOUS
  <2>3. moved \in Seq(Holder) /\ (\E f : Embeds(f, moved, t.holders))
        /\ \A i \in 1..Len(moved) : moved[i] \in Range(t.holders) \ absorbed
    BY <1>1, <2>2, KeptFacts
  <2>4. PICK u : u = [holders |-> moved, waiters |-> t.waiters]
    OBVIOUS
  <2>5. Typed(u) /\ (\E f : Embeds(f, u.holders, t.holders)) /\ \E f : Embeds(f, u.waiters, t.waiters)
    BY <1>1, <2>3, <2>4, EmbedsItself DEF Typed
  <2>6. Sound(u) /\ Progress(t, u)
    BY <1>1, <2>5, FewerSound
  <2>7. PICK hs : hs = [i \in 1..Len(moved) |-> IF moved[i].locker = l
                                                  THEN [moved[i] EXCEPT !.locker = parent] ELSE moved[i]]
    OBVIOUS
  <2>8. PICK v : v = [t EXCEPT !.holders = hs]
    OBVIOUS
  <2>9. v.holders = hs /\ v.waiters = t.waiters
    BY <1>1, <2>8 DEF LockEntry
  <2>10. \A i \in 1..Len(moved) :
            /\ moved[i] \in Holder /\ hs[i] \in Holder
            /\ hs[i].mode = moved[i].mode /\ hs[i].status = moved[i].status
            /\ hs[i].locker = IF moved[i].locker = l THEN parent ELSE moved[i].locker
    <3> SUFFICES ASSUME NEW i \in 1..Len(moved)
                 PROVE  /\ moved[i] \in Holder /\ hs[i] \in Holder
                        /\ hs[i].mode = moved[i].mode /\ hs[i].status = moved[i].status
                        /\ hs[i].locker = IF moved[i].locker = l THEN parent ELSE moved[i].locker
      OBVIOUS
    <3>1. PICK m : m = moved[i]
      OBVIOUS
    <3>2. m \in Holder
      BY <2>3, <3>1
    <3>3. hs[i] = IF m.locker = l THEN [m EXCEPT !.locker = parent] ELSE m
      BY <2>7, <3>1
    <3>4. CASE m.locker = l
      <4>1. PICK g : g = [m EXCEPT !.locker = parent]
        OBVIOUS
      <4>2. g \in Holder /\ g.mode = m.mode /\ g.status = m.status /\ g.locker = parent
        BY <1>2, <3>2, <4>1 DEF Holder
      <4> QED BY <3>1, <3>2, <3>3, <3>4, <4>1, <4>2
    <3>5. CASE m.locker # l
      BY <3>1, <3>2, <3>3, <3>5
    <3> QED BY <3>4, <3>5
  <2>11. hs \in Seq(Holder) /\ Len(hs) = Len(moved)
    BY <2>3, <2>7, <2>10
  <2>12. e = Entry(Promoted(v))
    <3>1. DOMAIN moved = 1..Len(moved)
      BY <2>3
    <3> QED BY <1>4, <2>1, <2>2, <2>7, <2>8, <3>1 DEF Inherited
  <2>13. HoldersDiffer(v)
    <3> SUFFICES ASSUME NEW i \in 1..Len(moved), NEW j \in 1..Len(moved),
                        hs[i].locker = hs[j].locker, hs[i].mode = hs[j].mode
                 PROVE  i = j
      BY <2>9, <2>11 DEF HoldersDiffer
    <3>1. CASE moved[i].locker = moved[j].locker
      BY <2>4, <2>6, <2>10, <3>1 DEF Sound, Distinct, HoldersDiffer
    <3>2. ASSUME NEW a \in 1..Len(moved), NEW b \in 1..Len(moved), moved[a].mode = moved[b].mode,
                 moved[a].locker = l, moved[b].locker = parent
          PROVE  FALSE
      <4>1. moved[a] \in Range(t.holders) /\ moved[b] \in Range(t.holders) /\ moved[a] \notin absorbed
        BY <2>3
      <4>2. moved[a] \in Holds(l, o) /\ moved[b] \in Holds(parent, o)
        BY <3>2, <4>1 DEF Holds
      <4> QED BY <2>1, <3>2, <4>1, <4>2
    <3>3. CASE moved[i].locker # moved[j].locker
      BY <2>10, <3>2, <3>3
    <3> QED BY <3>1, <3>3
  <2>14. WaitersDiffer(v)
    BY <1>1, <2>9 DEF Sound, Distinct, WaitersDiffer
  <2>15. WaitsForMore(v)
    <3> SUFFICES ASSUME NEW i \in 1..Len(t.waiters), NEW j \in 1..Len(moved),
                        hs[j].locker = t.waiters[i].locker
                 PROVE  hs[j].mode # t.waiters[i].mode /\ hs[j].status # "pending"
      BY <2>9, <2>11 DEF WaitsForMore
    <3>1. t.waiters[i].locker # parent
      BY DEF QueuedIn
    <3>2. moved[j].locker = t.waiters[i].locker
      BY <2>10, <3>1
    <3> QED BY <2>4, <2>6, <2>10, <3>2 DEF Sound, Distinct, WaitsForMore
  <2>16. Compatible(v)
    <3>1. \A i \in 1..Len(moved) : Master[hs[i].locker] = Master[moved[i].locker]
      BY <1>2, <2>10
    <3> QED BY <2>4, <2>6, <2>9, <2>10, <2>11, <3>1 DEF Sound, Compatible
  <2>17. Sound(v)
    BY <1>1, <2>9, <2>11, <2>13, <2>14, <2>15, <2>16 DEF Sound, Distinct, Typed
  <2>18. EntryOK(e) /\ Progress(v, e)
    BY <2>12, <2>17, PromotedEntry
  <2>19. \A k \in Locker :
            /\ QueuedIn(v, k) => QueuedIn(t, k)
            /\ PendingIn(v, k) => PendingIn(t, k)
            /\ HoldsIn(v, k) => k # l /\ (HoldsIn(t, k) \/ k = parent)
    <3> SUFFICES ASSUME NEW k \in Locker
                 PROVE  /\ PendingIn(v, k) => PendingIn(t, k)
                        /\ HoldsIn(v, k) => k # l /\ (HoldsIn(t, k) \/ k = parent)
      BY <2>9 DEF QueuedIn
    <3>1. ASSUME NEW i \in 1..Len(moved)
          PROVE  \E j \in 1..Len(t.holders) : moved[i] = t.holders[j]
      <4>1. PICK f : Embeds(f, moved, t.holders)
        BY <2>3
      <4>2. f[i] \in 1..Len(t.holders) /\ moved[i] = t.holders[f[i]]
        BY <4>1 DEF Embeds
      <4> QED BY <4>2
    <3>2. \A i \in 1..Len(moved) : moved[i].locker = l => moved[i].status # "pending"
      BY <3>1 DEF PendingIn
    <3>3. ASSUME PendingIn(v, k) PROVE PendingIn(t, k)
      <4>1. PICK i \in 1..Len(moved) : hs[i].locker = k /\ hs[i].status = "pending"
        BY <2>9, <2>11, <3>3 DEF PendingIn
      <4>2. moved[i].locker = k /\ moved[i].status = "pending"
        BY <2>10, <3>2, <4>1
      <4> QED BY <3>1, <4>2 DEF PendingIn
    <3>4. ASSUME HoldsIn(v, k) PROVE k # l /\ (HoldsIn(t, k) \/ k = parent)
      <4>1. PICK i \in 1..Len(moved) : hs[i].locker = k
        BY <2>9, <2>11, <3>4 DEF HoldsIn
      <4>2. CASE moved[i].locker = l
        BY <1>2, <2>10, <4>1, <4>2
      <4>3. CASE moved[i].locker # l
        BY <2>10, <3>1, <4>1, <4>3 DEF HoldsIn
      <4> QED BY <4>2, <4>3
    <3> QED BY <3>3, <3>4
  <2>20. ~HoldsIn(e, l)
    BY <2>18, <2>19 DEF Progress
  <2> QED BY <2>18, <2>19, <2>20 DEF Progress
<1> QED BY <1>3, <1>4

-----------------------------------------------------------------------------
(* The steps *)

LEMMA Initially == Init => Inv
<1> SUFFICES ASSUME Init PROVE Inv
  OBVIOUS
<1> USE DEF Init
<1>1. Types
  <2>1. 0 \in 0..MaxRequests
    BY LockerAssumption
  <2>2. used \in [Locker -> 0..MaxRequests]
    BY <2>1
  <2> QED BY <2>2 DEF Types
<1>2. ASSUME NEW o \in Object PROVE EntryOK(table[o]) /\ Len(table[o].holders) = 0 /\ Len(table[o].waiters) = 0
  <2>1. PICK t : t = table[o]
    OBVIOUS
  <2>2. t.holders = <<>> /\ t.waiters = <<>> /\ t \in LockEntry
    BY <2>1 DEF LockEntry
  <2> QED BY <2>1, <2>2 DEF EntryOK, Distinct, HoldersDiffer, WaitersDiffer, WaitsForMore, Compatible,
                            FirstIsBlocked
<1>3. Entries
  BY <1>2 DEF Entries, EntryOK
<1>4. KidsOfActive
  BY DEF KidsOfActive
<1>5. OneRequest /\ IdleHoldsNothing
  BY <1>2 DEF OneRequest, IdleHoldsNothing, Unanswered, QueuedIn, PendingIn, HoldsIn
<1> QED BY <1>1, <1>3, <1>4, <1>5 DEF Inv

\* The entries of a table in which requests only get ahead.
Ahead ==
    /\ table' \in [Object -> LockEntry]
    /\ \A o \in Object : EntryOK(table'[o]) /\ Progress(table[o], table'[o])

LEMMA AheadFacts ==
  ASSUME Inv, Ahead
  PROVE  /\ Entries'
         /\ \A l \in Locker : \A o \in Object :
               /\ Unanswered(table'[o], l) => Unanswered(table[o], l)
               /\ life[l] = "idle" => ~HoldsIn(table'[o], l)
<1>1. Entries'
  BY DEF Ahead, Entries
<1>2. \A l \in Locker : \A o \in Object : Unanswered(table'[o], l) => Unanswered(table[o], l)
  BY DEF Ahead, Progress, Unanswered
<1>3. \A l \in Locker : \A o \in Object : life[l] = "idle" => ~HoldsIn(table'[o], l)
  BY DEF Inv, Ahead, Progress, Unanswered, OneRequest, IdleHoldsNothing
<1> QED BY <1>1, <1>2, <1>3

\* Nothing but the requests' progress, and nobody goes to sleep or wakes up.
LEMMA AheadAlone ==
  ASSUME Inv, Ahead, UNCHANGED life, Types'
  PROVE  Inv'
<1>1. KidsOfActive'
  BY DEF Inv, KidsOfActive
<1>2. OneRequest'
  BY AheadFacts DEF Inv, OneRequest
<1>3. IdleHoldsNothing'
  BY AheadFacts DEF IdleHoldsNothing
<1> QED BY <1>1, <1>2, <1>3, AheadFacts DEF Inv

\* A locker that has no request in the table goes on, or comes to its end.
LEMMA AheadMoves ==
  ASSUME Inv, Ahead, Types', NEW l \in Locker, NEW x, life' = [life EXCEPT ![l] = x],
         \A o \in Object : ~Unanswered(table'[o], l),
         x = "idle" => \A o \in Object : ~HoldsIn(table'[o], l),
         x # "active" => \A k \in Kids(l) : life[k] = "idle",
         x # "idle" /\ ParentOf[l] # NoLocker => life[ParentOf[l]] = "active"
  PROVE  Inv'
<1>0. life \in [Locker -> {"idle", "active", "asleep", "doomed"}]
  BY DEF Inv, Types
<1>1. KidsOfActive'
  <2> SUFFICES ASSUME NEW k \in Locker, ParentOf[k] # NoLocker, life'[k] # "idle"
               PROVE  life'[ParentOf[k]] = "active"
    BY DEF KidsOfActive
  <2>0. ParentOf[k] \in Locker /\ ParentOf[k] # k
    BY LockerAssumption, NoOwnParent
  <2>1. CASE k = l
    BY <1>0, <2>0, <2>1
  <2>2. CASE k # l /\ ParentOf[k] = l
    <3>1. life[k] # "idle" /\ k \in Kids(l)
      BY <1>0, <2>2 DEF Kids
    <3> QED BY <1>0, <2>2, <3>1
  <2>3. CASE k # l /\ ParentOf[k] # l
    BY <1>0, <2>0, <2>3 DEF Inv, KidsOfActive
  <2> QED BY <2>1, <2>2, <2>3
<1>2. OneRequest'
  <2> SUFFICES ASSUME NEW k \in Locker, NEW o \in Object, Unanswered(table'[o], k)
               PROVE  life'[k] = "asleep" /\ \A p \in Object : Unanswered(table'[p], k) => p = o
    BY DEF OneRequest
  <2>1. k # l
    OBVIOUS
  <2> QED BY <1>0, <2>1, AheadFacts DEF Inv, OneRequest
<1>3. IdleHoldsNothing'
  BY <1>0, AheadFacts DEF IdleHoldsNothing
<1> QED BY <1>1, <1>2, <1>3, AheadFacts DEF Inv

LEMMA StaysAhead == ASSUME Inv, UNCHANGED table PROVE Ahead
BY DEF Inv, Entries, Ahead, Progress

\* The thread of a locker in use works with it: it has no request in the table.
LEMMA InUseFacts ==
  ASSUME Inv, NEW l \in Locker, InUse(l)
  PROVE  /\ life[l] \in {"active", "doomed"} /\ \A k \in Kids(l) : life[k] = "idle"
         /\ \A o \in Object : ~Unanswered(table[o], l)
BY DEF Inv, OneRequest, InUse

LEMMA BeginKeeps == ASSUME Inv, NEW l \in Locker, Begin(l) PROVE Inv'
<1> USE DEF Begin
<1>1. Types'
  <2>1. used' \in [Locker -> 0..MaxRequests]
    <3>1. CASE ParentOf[l] = NoLocker
      BY <3>1 DEF Inv, Types
    <3>2. CASE ParentOf[l] # NoLocker
      <4>1. ParentOf[l] \in Locker
        BY <3>2, LockerAssumption
      <4>2. used[ParentOf[l]] + 1 \in 0..MaxRequests
        BY <3>2, <4>1, LockerAssumption DEF Inv, Types
      <4> QED BY <3>2, <4>1, <4>2 DEF Inv, Types
    <3> QED BY <3>1, <3>2
  <2> QED BY <2>1 DEF Inv, Types
<1>2. Ahead
  BY StaysAhead
<1>3. \A o \in Object : ~Unanswered(table'[o], l)
  BY DEF Inv, OneRequest
<1> QED BY <1>1, <1>2, <1>3, AheadMoves

LEMMA LockerEndsKeeps == ASSUME Inv, NEW l \in Locker, LockerEnds(l) PROVE Inv'
<1> USE DEF LockerEnds, Ends
<1>1. life[l] \in {"active", "doomed"} /\ (\A k \in Kids(l) : life[k] = "idle")
      /\ \A o \in Object : ~Unanswered(table[o], l)
  BY InUseFacts
<1>2. ASSUME NEW o \in Object
      PROVE  /\ PutAll(o, l).stuck \in BOOLEAN
             /\ table'[o] \in LockEntry /\ EntryOK(table'[o]) /\ Progress(table[o], table'[o])
             /\ ~HoldsIn(table'[o], l)
  <2>1. EntryOK(table[o]) /\ ~QueuedIn(table[o], l)
    BY <1>1 DEF Inv, Entries, Unanswered
  <2>2. PICK p : p = PutAll(o, l)
    OBVIOUS
  <2>3. p.stuck \in BOOLEAN /\ EntryOK(Entry(p)) /\ Progress(table[o], Entry(p)) /\ ~HoldsIn(Entry(p), l)
    BY <2>1, <2>2, PutAllFacts
  <2>4. Entry(p) \in LockEntry
    BY <2>3 DEF EntryOK
  <2>5. table'[o] = Entry(p)
    BY <2>2
  <2> QED BY <2>2, <2>3, <2>4, <2>5
<1>3. Ahead
  <2>1. table' = [o \in Object |-> table'[o]]
    OBVIOUS
  <2> QED BY <1>2, <2>1 DEF Ahead
<1>4. Types'
  <2>1. used' \in [Locker -> 0..MaxRequests]
    <3>1. 0 \in 0..MaxRequests
      BY LockerAssumption
    <3> QED BY <3>1 DEF Inv, Types
  <2>2. need_dd' \in BOOLEAN
    BY DEF Inv, Types
  <2> QED BY <2>1, <2>2 DEF Inv, Types
<1>5. \A o \in Object : ~Unanswered(table'[o], l)
  BY <1>1, <1>3, AheadFacts
<1> QED BY <1>1, <1>2, <1>3, <1>4, <1>5, AheadMoves

LEMMA WakeAbortedKeeps == ASSUME Inv, NEW l \in Locker, WakeAborted(l) PROVE Inv'
<1> USE DEF WakeAborted
<1>1. Ahead
  BY StaysAhead
<1>2. Types'
  BY DEF Inv, Types
<1>3. ASSUME NEW o \in Object PROVE ~Unanswered(table'[o], l)
  <2>1. table[o] \in LockEntry
    BY DEF Inv, Entries
  <2>2. ~QueuedIn(table[o], l)
    BY <2>1 DEF QueuedIn, QueuedAt, Range, LockEntry
  <2>3. ~PendingIn(table[o], l)
    BY <2>1 DEF PendingIn, Holds, Range, LockEntry
  <2> QED BY <2>2, <2>3 DEF Unanswered
<1>4. \A k \in Kids(l) : life[k] = "idle"
  BY LockerAssumption DEF Inv, KidsOfActive, Kids
<1>5. ParentOf[l] # NoLocker => life[ParentOf[l]] = "active"
  BY DEF Inv, KidsOfActive
<1> QED BY <1>1, <1>2, <1>3, <1>4, <1>5, AheadMoves

LEMMA TimePassesKeeps == ASSUME Inv, NEW l \in Locker, TimePasses(l) PROVE Inv'
<1> USE DEF TimePasses
<1>1. Types'
  BY DEF Inv, Types
<1> QED BY <1>1, StaysAhead, AheadAlone

LEMMA WakeExpiredKeeps == ASSUME Inv, NEW l \in Locker, NEW o \in Object, WakeExpired(l, o) PROVE Inv'
<1> USE DEF WakeExpired
<1>0. PICK t : t = table[o]
  OBVIOUS
<1>1. EntryOK(t) /\ t \in LockEntry
  BY <1>0 DEF Inv, Entries
<1>2. PICK w : w = RequestOf(l, o)
  OBVIOUS
<1>3. PICK T : T = Range(t.waiters) \ {w}
  OBVIOUS
<1>4. PICK u : u = [t EXCEPT !.waiters = Kept(@, T)]
  OBVIOUS
<1>5. PICK p : p = Promoted(u)
  OBVIOUS
<1>6. table' = [table EXCEPT ![o] = Entry(p)] /\ need_dd' = (need_dd \/ ~p.changed)
  BY <1>0, <1>1, <1>2, <1>3, <1>4, <1>5 DEF Without, LockEntry
<1>7. PICK i \in 1..Len(t.waiters) : t.waiters[i].locker = l
  BY <1>0, <1>1 DEF QueuedAt, Range, LockEntry
<1>8. w = t.waiters[i]
  <2>1. \E v \in Range(t.waiters) : v.locker = l
    BY <1>1, <1>7 DEF Range, LockEntry
  <2>2. w \in Range(t.waiters) /\ w.locker = l
    BY <1>0, <1>2, <2>1 DEF RequestOf
  <2>3. PICK j \in 1..Len(t.waiters) : t.waiters[j] = w
    BY <1>1, <2>2 DEF Range, LockEntry
  <2> QED BY <1>1, <1>7, <2>2, <2>3 DEF EntryOK, Distinct, WaitersDiffer
<1>9. \A j \in 1..Len(t.waiters) : t.waiters[j].locker = l => t.waiters[j] \notin T
  BY <1>1, <1>3, <1>7, <1>8 DEF EntryOK, Distinct, WaitersDiffer
<1>10. EntryOK(Entry(p)) /\ Progress(t, Entry(p)) /\ p.changed \in BOOLEAN
       /\ ~QueuedIn(Entry(p), l) /\ (PendingIn(Entry(p), l) => PendingIn(t, l))
  BY <1>1, <1>4, <1>5, <1>9, RequestsLeave, ZenonT(60)
<1>11. ~PendingIn(t, l)
  BY <1>1, <1>7 DEF EntryOK, Distinct, WaitsForMore, PendingIn
<1>12. \A q \in Object : table'[q] = IF q = o THEN Entry(p) ELSE table[q]
  BY <1>6 DEF Inv, Entries
<1>13. Ahead
  <2>1. Entry(p) \in LockEntry
    BY <1>10 DEF EntryOK
  <2>2. table' \in [Object -> LockEntry]
    BY <1>6, <2>1 DEF Inv, Entries
  <2>3. \A q \in Object : EntryOK(table[q]) /\ Progress(table[q], table[q])
    BY DEF Inv, Entries, Progress
  <2> QED BY <1>0, <1>10, <1>12, <2>2, <2>3 DEF Ahead
<1>14. Types'
  BY <1>6, <1>10 DEF Inv, Types
<1>15. ASSUME NEW q \in Object PROVE ~Unanswered(table'[q], l)
  <2>1. CASE q = o
    BY <1>10, <1>11, <1>12, <2>1 DEF Unanswered
  <2>2. CASE q # o
    <3>1. Unanswered(table[o], l)
      BY <1>0, <1>7 DEF Unanswered, QueuedIn
    <3>2. ~Unanswered(table[q], l)
      BY <2>2, <3>1 DEF Inv, OneRequest
    <3> QED BY <1>12, <2>2, <3>2
  <2> QED BY <2>1, <2>2
<1>16. ParentOf[l] # NoLocker => life[ParentOf[l]] = "active"
  BY DEF Inv, KidsOfActive
<1> QED BY <1>13, <1>14, <1>15, <1>16, AheadMoves

\* The page that a stray cursor comes from is given back.
LEMMA GivesBackFacts ==
  ASSUME Inv, NEW l \in Locker, NEW o \in Object, NEW p \in GivesBack(l, o),
         ~QueuedIn(table[p], l), NEW e, e = Entry(PutAll(p, l))
  PROVE  /\ p \in Object /\ p # o /\ e \in LockEntry /\ EntryOK(e) /\ Progress(table[p], e)
         /\ PutAll(p, l).stuck \in BOOLEAN
<1>1. p \in Object /\ p # o
  BY DEF GivesBack
<1>2. PICK q : q = PutAll(p, l)
  OBVIOUS
<1>3. EntryOK(Entry(q)) /\ Progress(table[p], Entry(q)) /\ q.stuck \in BOOLEAN
  BY <1>1, <1>2, PutAllFacts DEF Inv, Entries
<1> QED BY <1>1, <1>2, <1>3 DEF EntryOK

LEMMA KidCommitsKeeps == ASSUME Inv, NEW l \in Locker, KidCommits(l) PROVE Inv'
<1> USE DEF KidCommits, Ends
<1>0. life \in [Locker -> {"idle", "active", "asleep", "doomed"}]
  BY DEF Inv, Types
<1>1. life[l] \in {"active", "doomed"} /\ (\A k \in Kids(l) : life[k] = "idle")
      /\ \A o \in Object : ~Unanswered(table[o], l)
  BY InUseFacts
<1>2. ParentOf[l] \in Locker /\ ParentOf[l] # l /\ life[ParentOf[l]] = "active"
  BY LockerAssumption, NoOwnParent DEF Inv, KidsOfActive
<1>3. \A o \in Object : ~Unanswered(table[o], ParentOf[l])
  BY <1>2 DEF Inv, OneRequest
<1>4. ASSUME NEW o \in Object
      PROVE  /\ table'[o] \in LockEntry /\ EntryOK(table'[o]) /\ ~HoldsIn(table'[o], l)
             /\ \A k \in Locker :
                   /\ Unanswered(table'[o], k) => Unanswered(table[o], k)
                   /\ HoldsIn(table'[o], k) =>
                         HoldsIn(table[o], k) \/ QueuedIn(table[o], k) \/ k = ParentOf[l]
  <2>1. PICK t : t = table[o]
    OBVIOUS
  <2>2. EntryOK(t) /\ ~QueuedIn(t, l) /\ ~PendingIn(t, l) /\ ~QueuedIn(t, ParentOf[l])
    BY <1>1, <1>3, <2>1 DEF Inv, Entries, Unanswered
  <2>3. PICK e : e = Inherited(o, l)
    OBVIOUS
  <2>4. /\ EntryOK(e) /\ ~HoldsIn(e, l)
        /\ \A k \in Locker :
               /\ QueuedIn(e, k) => QueuedIn(t, k)
               /\ PendingIn(e, k) => PendingIn(t, k) \/ QueuedIn(t, k)
               /\ HoldsIn(e, k) => HoldsIn(t, k) \/ QueuedIn(t, k) \/ k = ParentOf[l]
    BY <2>1, <2>2, <2>3, InheritedFacts
  <2>5. table'[o] = e
    BY <2>3
  <2> QED BY <2>1, <2>4, <2>5 DEF EntryOK, Unanswered
<1>5. Entries'
  <2>1. table' = [o \in Object |-> table'[o]]
    OBVIOUS
  <2> QED BY <1>4, <2>1 DEF Entries
<1>6. Types'
  <2>1. 0 \in 0..MaxRequests
    BY LockerAssumption
  <2> QED BY <2>1 DEF Inv, Types
<1>7. KidsOfActive'
  <2> SUFFICES ASSUME NEW k \in Locker, ParentOf[k] # NoLocker, life'[k] # "idle"
               PROVE  life'[ParentOf[k]] = "active"
    BY DEF KidsOfActive
  <2>1. k # l /\ life[k] # "idle"
    BY <1>0
  <2>2. ParentOf[k] \in Locker /\ life[ParentOf[k]] = "active"
    BY <2>1, LockerAssumption DEF Inv, KidsOfActive
  <2>3. ParentOf[k] # l
    BY <1>1, <2>1 DEF Kids
  <2> QED BY <1>0, <2>2, <2>3
<1>8. OneRequest'
  <2> SUFFICES ASSUME NEW k \in Locker, NEW o \in Object, Unanswered(table'[o], k)
               PROVE  life'[k] = "asleep" /\ \A p \in Object : Unanswered(table'[p], k) => p = o
    BY DEF OneRequest
  <2>1. k # l
    BY <1>1, <1>4
  <2> QED BY <1>0, <1>4, <2>1 DEF Inv, OneRequest
<1>9. IdleHoldsNothing'
  <2> SUFFICES ASSUME NEW k \in Locker, life'[k] = "idle", NEW o \in Object PROVE ~HoldsIn(table'[o], k)
    BY DEF IdleHoldsNothing
  <2>1. CASE k = l
    BY <1>4, <2>1
  <2>2. CASE k # l
    <3>1. life[k] = "idle" /\ k # ParentOf[l]
      BY <1>0, <1>2, <2>2
    <3>2. ~HoldsIn(table[o], k) /\ ~QueuedIn(table[o], k)
      BY <3>1 DEF Inv, IdleHoldsNothing, OneRequest, Unanswered
    <3> QED BY <1>4, <3>1, <3>2
  <2> QED BY <2>1, <2>2
<1> QED BY <1>5, <1>6, <1>7, <1>8, <1>9 DEF Inv

LEMMA AsksFacts ==
  ASSUME Inv, NEW l \in Locker, NEW o \in Object, NEW mode \in Mode, Asks(l, o, mode)
  PROVE  /\ used' \in [Locker -> 0..MaxRequests]
         /\ life[l] = "active" /\ \A k \in Kids(l) : life[k] = "idle"
         /\ \A p \in Object : ~Unanswered(table[p], l)
         /\ \A j \in 1..Len(table[o].holders) :
               table[o].holders[j].locker = l => table[o].holders[j].mode # mode
<1> USE DEF Asks
<1>1. used' \in [Locker -> 0..MaxRequests]
  <2>1. used[l] + 1 \in 0..MaxRequests
    BY LockerAssumption DEF Inv, Types
  <2> QED BY <2>1 DEF Inv, Types
<1>2. \A j \in 1..Len(table[o].holders) :
               table[o].holders[j].locker = l => table[o].holders[j].mode # mode
  BY DEF Inv, Entries, Holds, Range, LockEntry
<1> QED BY <1>1, <1>2, InUseFacts

LEMMA LockTooLateKeeps ==
  ASSUME Inv, NEW l \in Locker, NEW o \in Object, NEW mode \in Mode, LockTooLate(l, o, mode)
  PROVE  Inv'
<1> USE DEF LockTooLate
<1>1. used' \in [Locker -> 0..MaxRequests]
  BY AsksFacts
<1>2. PICK p : p = Promoted(table[o])
  OBVIOUS
<1>3. Sound(table[o])
  BY DEF Inv, Entries, EntryOK, Sound, LockEntry, Typed
<1>4. EntryOK(Entry(p)) /\ Progress(table[o], Entry(p)) /\ p.changed \in BOOLEAN
  BY <1>2, <1>3, PromotedEntry
<1>5. Ahead
  <2>1. Entry(p) \in LockEntry
    BY <1>4 DEF EntryOK
  <2>2. table' \in [Object -> LockEntry]
    BY <1>2, <2>1 DEF Inv, Entries
  <2>3. \A q \in Object : EntryOK(table[q]) /\ Progress(table[q], table[q])
    BY DEF Inv, Entries, Progress
  <2>4. \A q \in Object : table'[q] = IF q = o THEN Entry(p) ELSE table[q]
    BY <1>2 DEF Inv, Entries
  <2> QED BY <1>4, <2>2, <2>3, <2>4 DEF Ahead
<1>6. Types'
  BY <1>1, <1>2, <1>4 DEF Inv, Types
<1> QED BY <1>5, <1>6, AheadAlone

LEMMA DetectorAbortsKeeps ==
  ASSUME Inv, NEW d \in Detector, NEW m \in Masters, DetectorAborts(d, m)
  PROVE  Inv'
<1>0. PICK victim \in Victims(d, m) :
         LET found(o) == {w \in Range(table[o].waiters) :
                 Waits(w) /\ [locker |-> w.locker, object |-> o, mode |-> w.mode] \in victim}
         IN  table' = [o \in Object |->
                 IF found(o) = {} THEN table[o]
                 ELSE LET rest == Kept(table[o].waiters, Range(table[o].waiters) \ found(o))
                      IN  Entry(Promoted([table[o] EXCEPT !.waiters = rest]))]
  BY Zenon DEF DetectorAborts
<1> DEFINE found(o) == {w \in Range(table[o].waiters) :
                 Waits(w) /\ [locker |-> w.locker, object |-> o, mode |-> w.mode] \in victim}
<1>1. ASSUME NEW o \in Object
      PROVE  table'[o] \in LockEntry /\ EntryOK(table'[o]) /\ Progress(table[o], table'[o])
  <2>1. EntryOK(table[o]) /\ table[o] \in LockEntry
    BY DEF Inv, Entries
  <2>2. CASE found(o) = {}
    <3>1. table'[o] = table[o]
      BY <1>0, <2>2
    <3> QED BY <2>1, <3>1 DEF Progress
  <2>3. CASE found(o) # {}
    <3>1. PICK T : T = Range(table[o].waiters) \ found(o)
      OBVIOUS
    <3>2. PICK u : u = [table[o] EXCEPT !.waiters = Kept(@, T)]
      OBVIOUS
    <3>3. PICK p : p = Promoted(u)
      OBVIOUS
    <3>4. table'[o] = Entry(p)
      <4>1. u = [table[o] EXCEPT !.waiters = Kept(table[o].waiters, T)]
        BY <3>2
      <4> QED BY <1>0, <2>3, <3>1, <3>3, <4>1
    <3> HIDE DEF found
    <3>5. PICK t : t = table[o]
      OBVIOUS
    <3>6. u = [t EXCEPT !.waiters = Kept(@, T)] /\ EntryOK(t)
      BY <2>1, <3>2, <3>5
    <3>7. EntryOK(Entry(p)) /\ Progress(t, Entry(p))
      BY <3>3, <3>6, RequestsLeave
    <3> QED BY <3>4, <3>5, <3>7 DEF EntryOK
  <2> QED BY <2>2, <2>3
<1>2. Ahead
  <2>1. table' = [o \in Object |-> table'[o]]
    BY <1>0
  <2> QED BY <1>1, <2>1 DEF Ahead
<1>3. Types' /\ UNCHANGED life
  BY DEF DetectorAborts, Inv, Types
<1> QED BY <1>2, <1>3, AheadAlone

\* A request that may be granted has no holder in its way.
LEMMA LockGrantedKeeps ==
  ASSUME Inv, NEW l \in Locker, NEW o \in Object, NEW mode \in Mode, LockGranted(l, o, mode)
  PROVE  Inv'
<1> USE DEF LockGranted
<1>0. /\ used' \in [Locker -> 0..MaxRequests]
      /\ life[l] = "active" /\ \A k \in Kids(l) : life[k] = "idle"
      /\ \A p \in Object : ~Unanswered(table[p], l)
      /\ \A j \in 1..Len(table[o].holders) :
            table[o].holders[j].locker = l => table[o].holders[j].mode # mode
  BY AsksFacts
<1>1. PICK t : t = table[o]
  OBVIOUS
<1>2. EntryOK(t) /\ t \in LockEntry /\ t.holders \in Seq(Holder) /\ t.waiters \in Seq(Waiter)
  BY <1>1 DEF Inv, Entries, LockEntry
<1>3. PICK g : g = [locker |-> l, mode |-> mode, status |-> "held"]
  OBVIOUS
<1>4. g \in Holder /\ g.locker = l /\ g.mode = mode /\ g.status = "held"
  BY <1>3 DEF Holder
<1>5. PICK u : u = [t EXCEPT !.holders = Append(t.holders, g)]
  OBVIOUS
<1>6. u = [holders |-> Append(t.holders, g), waiters |-> t.waiters]
  BY <1>2, <1>5 DEF LockEntry
<1>7. u.holders = Append(t.holders, g) /\ u.waiters = t.waiters
  BY <1>6
<1>8. \A j \in 1..Len(t.holders) : ~InTheWay(t.holders[j], l, mode)
  BY <1>1, <1>2 DEF Grantable, InTheWayAt
<1>9. \A i \in 1..Len(t.waiters) : t.waiters[i].locker # l
  BY <1>0, <1>1 DEF Unanswered, QueuedIn
<1>10. EntryOK(u)
  <2>1. u.holders \in Seq(Holder) /\ Distinct(u) /\ Compatible(u) /\ (FirstIsBlocked(t) => FirstIsBlocked(u))
    BY <1>0, <1>1, <1>2, <1>4, <1>7, <1>8, <1>9, AppendHolder, ZenonT(60) DEF EntryOK
  <2> QED BY <1>2, <1>6, <1>7, <2>1 DEF EntryOK, LockEntry
<1>11. \A k \in Locker :
          /\ Unanswered(u, k) => Unanswered(t, k)
          /\ HoldsIn(u, k) => HoldsIn(t, k) \/ k = l
  BY <1>2, <1>4, <1>7 DEF Unanswered, QueuedIn, PendingIn, HoldsIn
<1>12. table'[o] = u
  BY <1>1, <1>3, <1>5
<1>13. ASSUME NEW p \in Object, p # o
       PROVE  table'[p] \in LockEntry /\ EntryOK(table'[p]) /\ Progress(table[p], table'[p])
  <2>1. CASE p \in GivesBack(l, o)
    <3>1. table'[p] = Entry(PutAll(p, l))
      BY <1>13, <2>1
    <3>2. ~QueuedIn(table[p], l)
      BY <1>0 DEF Unanswered
    <3> QED BY <2>1, <3>1, <3>2, GivesBackFacts
  <2>2. CASE p \notin GivesBack(l, o)
    <3>1. table'[p] = table[p]
      BY <1>13, <2>2
    <3> QED BY <3>1 DEF Inv, Entries, Progress
  <2> QED BY <2>1, <2>2
<1>14. Entries'
  <2>1. table' = [p \in Object |-> table'[p]]
    OBVIOUS
  <2>2. \A p \in Object : table'[p] \in LockEntry /\ EntryOK(table'[p])
    BY <1>10, <1>12, <1>13 DEF EntryOK
  <2> QED BY <2>1, <2>2 DEF Entries
<1>15. \A k \in Locker : \A p \in Object :
          /\ Unanswered(table'[p], k) => Unanswered(table[p], k)
          /\ HoldsIn(table'[p], k) => HoldsIn(table[p], k) \/ QueuedIn(table[p], k) \/ k = l
  BY <1>1, <1>11, <1>12, <1>13 DEF Unanswered, Progress
<1>16. Types'
  <2>1. need_dd' \in BOOLEAN
    BY DEF Inv, Types
  <2> QED BY <1>0, <2>1 DEF Inv, Types
<1>17. KidsOfActive'
  BY DEF Inv, KidsOfActive
<1>18. OneRequest'
  BY <1>15 DEF Inv, OneRequest
<1>19. IdleHoldsNothing'
  BY <1>0, <1>15 DEF Inv, IdleHoldsNothing, OneRequest, Unanswered
<1> QED BY <1>14, <1>16, <1>17, <1>18, <1>19 DEF Inv

\* A request that has to wait has a holder or another request in its way.
LEMMA LockWaitsKeeps ==
  ASSUME Inv, NEW l \in Locker, NEW o \in Object, NEW mode \in Mode, LockWaits(l, o, mode)
  PROVE  Inv'
<1> USE DEF LockWaits
<1>0. /\ used' \in [Locker -> 0..MaxRequests]
      /\ life[l] = "active" /\ (\A k \in Kids(l) : life[k] = "idle")
      /\ \A p \in Object : ~Unanswered(table[p], l)
      /\ \A j \in 1..Len(table[o].holders) :
            table[o].holders[j].locker = l => table[o].holders[j].mode # mode
  BY AsksFacts
<1>1. PICK t : t = table[o]
  OBVIOUS
<1>2. EntryOK(t) /\ t \in LockEntry /\ t.holders \in Seq(Holder) /\ t.waiters \in Seq(Waiter)
  BY <1>1 DEF Inv, Entries, LockEntry
<1>3. PICK w : w = [locker |-> l, mode |-> mode, status |-> "waiting"]
  OBVIOUS
<1>4. w \in Waiter /\ w.locker = l /\ w.mode = mode
  BY <1>3 DEF Waiter
<1>5. PICK ws : ws = Enqueued(l, o, mode)
  OBVIOUS
<1>6. PICK u : u = [holders |-> t.holders, waiters |-> ws]
  OBVIOUS
<1>7. table' = [table EXCEPT ![o] = u]
  <2>1. u = [t EXCEPT !.waiters = ws]
    BY <1>2, <1>6 DEF LockEntry
  <2> QED BY <1>1, <1>5, <2>1 DEF Inv, Entries
<1>8. \/ ws = Append(t.waiters, w)
      \/ ws = <<w>> \o t.waiters /\ InTheWayAt(l, o, mode) # {}
  BY <1>1, <1>3, <1>5 DEF Enqueued
<1>9. ws \in Seq(Waiter) /\ Distinct(u) /\ Compatible(u)
  <2>1. \A j \in 1..Len(t.holders) :
            t.holders[j].locker = l => t.holders[j].mode # mode /\ t.holders[j].status # "pending"
    BY <1>0, <1>1 DEF Unanswered, PendingIn
  <2>2. \A i \in 1..Len(t.waiters) : t.waiters[i].locker # l
    BY <1>0, <1>1 DEF Unanswered, QueuedIn
  <2>3. u.holders = t.holders /\ u.waiters = ws
    BY <1>6
  <2> QED BY <1>2, <1>4, <1>8, <2>1, <2>2, <2>3, AddWaiter DEF EntryOK
<1>10. InTheWayAt(l, o, mode) # {} => \E i \in 1..Len(t.holders) : InTheWay(t.holders[i], l, mode)
  BY <1>1, <1>2 DEF InTheWayAt
<1>11. FirstIsBlocked(u)
  <2> SUFFICES ASSUME ws # <<>>, Waits(ws[1])
               PROVE  \E i \in 1..Len(t.holders) : InTheWay(t.holders[i], ws[1].locker, ws[1].mode)
    BY <1>6 DEF FirstIsBlocked
  <2>1. CASE ws = Append(t.waiters, w) /\ t.waiters # <<>>
    <3>1. ws[1] = t.waiters[1]
      BY <1>2, <2>1
    <3> QED BY <1>2, <2>1, <3>1 DEF EntryOK, FirstIsBlocked
  <2>2. CASE ws = Append(t.waiters, w) /\ t.waiters = <<>>
    <3>1. ws[1] = w
      BY <2>2
    <3>2. InTheWayAt(l, o, mode) # {}
      BY <1>1, <2>2 DEF Grantable, Range
    <3> QED BY <1>4, <1>10, <3>1, <3>2
  <2>3. CASE ws = <<w>> \o t.waiters /\ InTheWayAt(l, o, mode) # {}
    <3>1. ws[1] = w
      BY <1>2, <2>3
    <3> QED BY <1>4, <1>10, <2>3, <3>1
  <2> QED BY <1>8, <2>1, <2>2, <2>3
<1>12. EntryOK(u) /\ u \in LockEntry
  BY <1>2, <1>6, <1>9, <1>11 DEF EntryOK, LockEntry
<1>13. \A k \in Locker :
          /\ Unanswered(u, k) => Unanswered(t, k) \/ k = l
          /\ HoldsIn(u, k) => HoldsIn(t, k)
  <2>1. ASSUME NEW k \in Locker, QueuedIn(u, k) PROVE QueuedIn(t, k) \/ k = l
    <3>1. PICK i \in 1..Len(ws) : ws[i].locker = k
      BY <1>6, <2>1 DEF QueuedIn
    <3>2. ws[i] = w \/ \E j \in 1..Len(t.waiters) : ws[i] = t.waiters[j]
      <4>1. CASE ws = Append(t.waiters, w)
        BY <1>2, <4>1
      <4>2. CASE ws = <<w>> \o t.waiters
        <5>1. Len(ws) = Len(t.waiters) + 1
          BY <1>2, <4>2
        <5>2. CASE i = 1
          BY <1>2, <4>2, <5>2
        <5>3. CASE i # 1
          <6>1. i - 1 \in 1..Len(t.waiters) /\ ws[i] = t.waiters[i - 1]
            BY <1>2, <4>2, <5>1, <5>3
          <6> QED BY <6>1
        <5> QED BY <5>2, <5>3
      <4> QED BY <1>8, <4>1, <4>2
    <3> QED BY <1>4, <3>1, <3>2 DEF QueuedIn
  <2> QED BY <1>6, <2>1 DEF Unanswered, PendingIn, HoldsIn
<1>14. Entries'
  BY <1>7, <1>12 DEF Inv, Entries
<1>15. Types'
  BY <1>0 DEF Inv, Types
<1>16. KidsOfActive'
  <2> SUFFICES ASSUME NEW k \in Locker, ParentOf[k] # NoLocker, life'[k] # "idle"
               PROVE  life'[ParentOf[k]] = "active"
    BY DEF KidsOfActive
  <2>1. life[k] # "idle" /\ ParentOf[k] \in Locker
    BY <1>0, LockerAssumption DEF Inv, Types
  <2>2. ParentOf[k] # l
    BY <1>0, <2>1 DEF Kids
  <2> QED BY <2>1, <2>2 DEF Inv, Types, KidsOfActive
<1>17. OneRequest'
  <2> SUFFICES ASSUME NEW k \in Locker, NEW p \in Object, Unanswered(table'[p], k)
               PROVE  life'[k] = "asleep" /\ \A q \in Object : Unanswered(table'[q], k) => q = p
    BY DEF OneRequest
  <2>1. \A q \in Object : Unanswered(table'[q], k) => Unanswered(table[q], k) \/ (k = l /\ q = o)
    BY <1>1, <1>7, <1>13 DEF Inv, Entries
  <2>2. CASE k = l
    BY <1>0, <2>1, <2>2 DEF Inv, Types
  <2>3. CASE k # l
    BY <2>1, <2>3 DEF Inv, Types, OneRequest
  <2> QED BY <2>2, <2>3
<1>18. IdleHoldsNothing'
  <2>1. \A k \in Locker : \A p \in Object : HoldsIn(table'[p], k) => HoldsIn(table[p], k)
    BY <1>1, <1>7, <1>13 DEF Inv, Entries
  <2>2. \A k \in Locker : life'[k] = "idle" => life[k] = "idle"
    BY DEF Inv, Types
  <2> QED BY <2>1, <2>2 DEF Inv, IdleHoldsNothing
<1> QED BY <1>14, <1>15, <1>16, <1>17, <1>18 DEF Inv

\* What was promoted is held, and the locker has no other request.
LEMMA WakeGrantedKeeps == ASSUME Inv, NEW l \in Locker, NEW o \in Object, WakeGranted(l, o) PROVE Inv'
<1> USE DEF WakeGranted
<1>1. PICK t : t = table[o]
  OBVIOUS
<1>2. EntryOK(t) /\ t \in LockEntry /\ t.holders \in Seq(Holder) /\ t.waiters \in Seq(Waiter)
  BY <1>1 DEF Inv, Entries, LockEntry
<1>3. PICK n \in 1..Len(t.holders) : t.holders[n].locker = l /\ t.holders[n].status = "pending"
  BY <1>1, <1>2 DEF Holds, Range
<1>4. \A i \in 1..Len(t.waiters) : t.waiters[i].locker # l
  BY <1>2, <1>3 DEF EntryOK, Distinct, WaitsForMore
<1>5. \A p \in Object : p # o => ~Unanswered(table[p], l)
  <2>1. Unanswered(table[o], l)
    BY <1>1, <1>3 DEF Unanswered, PendingIn
  <2> QED BY <2>1 DEF Inv, OneRequest
<1>6. PICK hs : hs = [i \in 1..Len(t.holders) |-> IF t.holders[i].locker = l
                                                  THEN [t.holders[i] EXCEPT !.status = "held"]
                                                  ELSE t.holders[i]]
  OBVIOUS
<1>7. ASSUME NEW i \in 1..Len(t.holders)
      PROVE  /\ hs[i] \in Holder /\ hs[i].locker = t.holders[i].locker /\ hs[i].mode = t.holders[i].mode
             /\ hs[i].status = IF t.holders[i].locker = l THEN "held" ELSE t.holders[i].status
  <2>1. PICK m : m = t.holders[i]
    OBVIOUS
  <2>2. m \in Holder
    BY <1>2, <2>1
  <2>3. hs[i] = IF m.locker = l THEN [m EXCEPT !.status = "held"] ELSE m
    BY <1>6, <2>1
  <2>4. CASE m.locker = l
    <3>1. PICK g : g = [m EXCEPT !.status = "held"]
      OBVIOUS
    <3>2. g \in Holder /\ g.mode = m.mode /\ g.locker = m.locker /\ g.status = "held"
      BY <2>2, <3>1 DEF Holder
    <3> QED BY <2>1, <2>3, <2>4, <3>1, <3>2
  <2>5. CASE m.locker # l
    BY <2>1, <2>2, <2>3, <2>5
  <2> QED BY <2>4, <2>5
<1>8. hs \in Seq(Holder) /\ Len(hs) = Len(t.holders)
  <2> HIDE DEF WakeGranted
  <2>1. \A i \in 1..Len(t.holders) : hs[i] \in Holder
    BY <1>7
  <2>2. Len(t.holders) \in Nat
    BY <1>2
  <2>3. hs \in [1..Len(t.holders) -> Holder]
    BY <1>6, <2>1
  <2> QED BY <2>2, <2>3
<1>9. PICK u : u = [holders |-> hs, waiters |-> t.waiters]
  OBVIOUS
<1>10. table'[o] = u
  <2>1. u = [t EXCEPT !.holders = hs]
    BY <1>2, <1>9 DEF LockEntry
  <2>2. DOMAIN t.holders = 1..Len(t.holders)
    BY <1>2
  <2> QED BY <1>1, <1>6, <2>1, <2>2
<1>11. EntryOK(u)
  <2> HIDE DEF WakeGranted
  <2>1. u \in LockEntry /\ u.holders = hs /\ u.waiters = t.waiters
    BY <1>2, <1>8, <1>9 DEF LockEntry
  <2>2. HoldersDiffer(u) /\ WaitersDiffer(u) /\ Compatible(u)
    <3>1. HoldersDiffer(u)
      BY <1>2, <1>7, <1>8, <2>1 DEF EntryOK, Distinct, HoldersDiffer
    <3>2. WaitersDiffer(u)
      BY <1>2, <2>1 DEF EntryOK, Distinct, WaitersDiffer
    <3>3. Compatible(u)
      BY <1>2, <1>7, <1>8, <2>1 DEF EntryOK, Compatible
    <3> QED BY <3>1, <3>2, <3>3
  <2>3. WaitsForMore(u)
    BY <1>2, <1>4, <1>7, <1>8, <2>1 DEF EntryOK, Distinct, WaitsForMore
  <2>4. FirstIsBlocked(u)
    BY <1>2, <1>7, <1>8, <2>1 DEF EntryOK, FirstIsBlocked, InTheWay
  <2> QED BY <2>1, <2>2, <2>3, <2>4 DEF EntryOK, Distinct
<1>12. \A k \in Locker :
          /\ QueuedIn(u, k) => QueuedIn(t, k)
          /\ PendingIn(u, k) => PendingIn(t, k) /\ k # l
          /\ HoldsIn(u, k) => HoldsIn(t, k)
  BY <1>7, <1>8, <1>9 DEF QueuedIn, PendingIn, HoldsIn
<1>13. ASSUME NEW p \in Object, p # o
       PROVE  table'[p] \in LockEntry /\ EntryOK(table'[p]) /\ Progress(table[p], table'[p])
  <2>1. CASE p \in GivesBack(l, o)
    <3>1. table'[p] = Entry(PutAll(p, l))
      BY <1>13, <2>1
    <3>2. ~QueuedIn(table[p], l)
      BY <1>5, <1>13 DEF Unanswered
    <3> QED BY <2>1, <3>1, <3>2, GivesBackFacts
  <2>2. CASE p \notin GivesBack(l, o)
    <3>1. table'[p] = table[p]
      BY <1>13, <2>2
    <3> QED BY <3>1 DEF Inv, Entries, Progress
  <2> QED BY <2>1, <2>2
<1>14. Ahead
  <2>1. table' = [p \in Object |-> table'[p]]
    OBVIOUS
  <2>2. u \in LockEntry
    BY <1>11 DEF EntryOK
  <2>3. Progress(t, u)
    BY <1>12 DEF Progress
  <2> QED BY <1>1, <1>10, <1>11, <1>13, <2>1, <2>2, <2>3 DEF Ahead
<1>15. Types'
  <2>1. need_dd' \in BOOLEAN
    BY DEF Inv, Types
  <2> QED BY <2>1 DEF Inv, Types
<1>16. ASSUME NEW p \in Object PROVE ~Unanswered(table'[p], l)
  <2>1. CASE p = o
    <3>1. ~QueuedIn(u, l)
      BY <1>4, <1>12 DEF QueuedIn
    <3> QED BY <1>10, <1>12, <2>1, <3>1 DEF Unanswered
  <2>2. CASE p # o
    BY <1>5, <1>14, <2>2, AheadFacts
  <2> QED BY <2>1, <2>2
<1>17. ParentOf[l] # NoLocker => life[ParentOf[l]] = "active"
  BY DEF Inv, KidsOfActive
<1> QED BY <1>14, <1>15, <1>16, <1>17, AheadMoves

\* Requests whose time is over stay in the queue, and wait no longer.
LEMMA BuildsAhead == ASSUME Inv, Builds PROVE Ahead /\ next_timeout' \in BOOLEAN
<1>1. next_timeout' \in BOOLEAN
  <2>1. \A x, a : x = (a \in TimesOut) => x \in BOOLEAN
    OBVIOUS
  <2>2. FALSE \in BOOLEAN
    OBVIOUS
  <2> QED BY <2>1, <2>2, Zenon DEF Builds, NextTimeout
<1>2. ASSUME NEW o \in Object
      PROVE  table'[o] \in LockEntry /\ EntryOK(table'[o]) /\ Progress(table[o], table'[o])
  <2>1. PICK t : t = table[o]
    OBVIOUS
  <2>2. EntryOK(t) /\ t \in LockEntry /\ t.holders \in Seq(Holder) /\ t.waiters \in Seq(Waiter)
    BY <2>1 DEF Inv, Entries, LockEntry
  <2>3. PICK ws : ws = [i \in 1..Len(t.waiters) |->
                            IF Waits(t.waiters[i]) /\ Master[t.waiters[i].locker] \in late
                            THEN [t.waiters[i] EXCEPT !.status = "expired"] ELSE t.waiters[i]]
    OBVIOUS
  <2>4. ASSUME NEW i \in 1..Len(t.waiters)
        PROVE  /\ ws[i] \in Waiter /\ ws[i].locker = t.waiters[i].locker /\ ws[i].mode = t.waiters[i].mode
               /\ Waits(ws[i]) => Waits(t.waiters[i])
    <3>1. PICK m : m = t.waiters[i]
      OBVIOUS
    <3>2. m \in Waiter
      BY <2>2, <3>1
    <3>3. PICK g : g = [m EXCEPT !.status = "expired"]
      OBVIOUS
    <3>4. g \in Waiter /\ g.mode = m.mode /\ g.locker = m.locker /\ g.status = "expired"
      BY <3>2, <3>3 DEF Waiter
    <3>5. (ws[i] = g /\ Waits(m)) \/ ws[i] = m
      BY <2>3, <3>1, <3>3
    <3> QED BY <3>1, <3>2, <3>4, <3>5
  <2>5. ws \in Seq(Waiter) /\ Len(ws) = Len(t.waiters)
    <3>1. \A i \in 1..Len(t.waiters) : ws[i] \in Waiter
      BY <2>4
    <3>2. Len(t.waiters) \in Nat
      BY <2>2
    <3>3. ws \in [1..Len(t.waiters) -> Waiter]
      BY <2>3, <3>1
    <3> QED BY <3>2, <3>3
  <2>6. PICK u : u = [holders |-> t.holders, waiters |-> ws]
    OBVIOUS
  <2>7. table'[o] = u
    <3>1. u = [t EXCEPT !.waiters = ws]
      BY <2>2, <2>6 DEF LockEntry
    <3>2. DOMAIN t.waiters = 1..Len(t.waiters)
      BY <2>2
    <3> QED BY <2>1, <2>3, <3>1, <3>2 DEF Builds, Expire
  <2>8. u \in LockEntry /\ u.holders = t.holders /\ u.waiters = ws
    BY <2>2, <2>5, <2>6 DEF LockEntry
  <2>9. Distinct(u) /\ Compatible(u)
    <3>1. HoldersDiffer(u) /\ Compatible(u)
      BY <2>2, <2>8 DEF EntryOK, Distinct, HoldersDiffer, Compatible
    <3>2. WaitersDiffer(u)
      BY <2>2, <2>4, <2>5, <2>8 DEF EntryOK, Distinct, WaitersDiffer
    <3>3. WaitsForMore(u)
      BY <2>2, <2>4, <2>5, <2>8 DEF EntryOK, Distinct, WaitsForMore
    <3> QED BY <3>1, <3>2, <3>3 DEF Distinct
  <2>10. FirstIsBlocked(u)
    <3> SUFFICES ASSUME ws # <<>>, Waits(ws[1])
                 PROVE  \E i \in 1..Len(t.holders) : InTheWay(t.holders[i], ws[1].locker, ws[1].mode)
      BY <2>8 DEF FirstIsBlocked
    <3>1. t.waiters # <<>> /\ 1 \in 1..Len(t.waiters)
      BY <2>2, <2>5
    <3>2. ws[1].locker = t.waiters[1].locker /\ ws[1].mode = t.waiters[1].mode /\ Waits(t.waiters[1])
      BY <2>4, <3>1
    <3> QED BY <2>2, <3>1, <3>2 DEF EntryOK, FirstIsBlocked
  <2>11. Progress(t, u)
    BY <2>4, <2>5, <2>8 DEF Progress, QueuedIn, PendingIn, HoldsIn
  <2> QED BY <2>1, <2>7, <2>8, <2>9, <2>10, <2>11 DEF EntryOK
<1>3. Ahead
  <2>1. table' = [o \in Object |-> table'[o]]
    BY DEF Builds
  <2> QED BY <1>2, <2>1 DEF Ahead
<1> QED BY <1>1, <1>3

LEMMA DetectorBuildsKeeps ==
  ASSUME Inv, NEW d, NEW order, NEW objects, DetectorBuilds(d, order, objects)
  PROVE  Inv'
<1>1. Builds /\ need_dd' = FALSE /\ UNCHANGED <<life, used, late>>
  BY DEF DetectorBuilds
<1>2. Ahead /\ next_timeout' \in BOOLEAN
  BY <1>1, BuildsAhead
<1>3. Types'
  BY <1>1, <1>2 DEF Inv, Types
<1> QED BY <1>1, <1>2, <1>3, AheadAlone

LEMMA DetectorExpiresKeeps == ASSUME Inv, DetectorExpires PROVE Inv'
<1>1. Builds /\ UNCHANGED <<life, used, need_dd, late>>
  BY DEF DetectorExpires
<1>2. Ahead /\ next_timeout' \in BOOLEAN
  BY <1>1, BuildsAhead
<1>3. Types'
  BY <1>1, <1>2 DEF Inv, Types
<1> QED BY <1>1, <1>2, <1>3, AheadAlone

LEMMA StepKeeps == ASSUME Inv, [Next]_vars PROVE Inv'
<1>1. CASE UNCHANGED vars
  <2>1. UNCHANGED <<table, life, used, need_dd, next_timeout, late>>
    BY <1>1 DEF vars
  <2>2. Types'
    BY <2>1 DEF Inv, Types
  <2> QED BY <2>1, <2>2, StaysAhead, AheadAlone
<1>2. CASE \E l \in Locker : Begin(l) \/ LockerEnds(l) \/ KidCommits(l) \/ TimePasses(l)
  BY <1>2, BeginKeeps, LockerEndsKeeps, KidCommitsKeeps, TimePassesKeeps
<1>3. CASE \E l \in Locker, o \in Object, mode \in {"READ", "WRITE"} :
               LockGranted(l, o, mode) \/ LockWaits(l, o, mode) \/ LockTooLate(l, o, mode)
  BY <1>3, LockGrantedKeeps, LockWaitsKeeps, LockTooLateKeeps DEF Mode
<1>4. CASE \E l \in Locker, o \in Object : WakeGranted(l, o) \/ WakeExpired(l, o)
  BY <1>4, WakeGrantedKeeps, WakeExpiredKeeps
<1>5. CASE \E l \in Locker : WakeAborted(l)
  BY <1>5, WakeAbortedKeeps
<1>6. CASE \E d \in Detector, order \in Orders(Masters), objects \in Orders(Object) :
               DetectorBuilds(d, order, objects)
  BY <1>6, DetectorBuildsKeeps
<1>7. CASE DetectorExpires
  BY <1>7, DetectorExpiresKeeps
<1>8. CASE \E d \in Detector, m \in Masters : DetectorAborts(d, m)
  BY <1>8, DetectorAbortsKeeps
<1> QED BY <1>1, <1>2, <1>3, <1>4, <1>5, <1>6, <1>7, <1>8 DEF Next

-----------------------------------------------------------------------------
(* Theorems *)

(* The inductive invariant: every entry of the table is sound, a locker    *)
(* has one request at a time and sleeps meanwhile, and what has ended is   *)
(* nowhere in the table.                                                   *)
THEOREM Invariance == Spec => []Inv
<1>1. Init => Inv
  BY Initially
<1>2. Inv /\ [Next]_vars => Inv'
  BY StepKeeps
<1> QED BY <1>1, <1>2, PTL DEF Spec

(* What Holds and Range say of an entry, as the positions of its holders.  *)
LEMMA EntryFacts ==
  ASSUME Inv, NEW o \in Object
  PROVE  /\ table[o].holders \in Seq(Holder) /\ table[o].waiters \in Seq(Waiter)
         /\ DOMAIN table[o].holders = 1..Len(table[o].holders)
         /\ DOMAIN table[o].waiters = 1..Len(table[o].waiters)
         /\ Distinct(table[o]) /\ Compatible(table[o]) /\ FirstIsBlocked(table[o])
BY DEF Inv, Entries, EntryOK, LockEntry

(* Types, and the places of a locker in the table: with each mode once     *)
(* among the holders of an object, in one queue at most and then asleep.   *)
THEOREM TypeCorrect == Spec => []TypeOK
<1>1. Inv => TypeOK
  <2> SUFFICES ASSUME Inv PROVE TypeOK
    OBVIOUS
  <2>1. ASSUME NEW l \in Locker, NEW o \in QueuedAt(l) PROVE o \in Object /\ Unanswered(table[o], l)
    <3>1. o \in Object
      BY DEF QueuedAt
    <3>2. QueuedIn(table[o], l)
      BY <3>1, EntryFacts DEF QueuedAt, QueuedIn, Range
    <3> QED BY <3>1, <3>2 DEF Unanswered
  <2>2. ASSUME NEW l \in Locker PROVE Cardinality(QueuedAt(l)) <= 1
    <3>1. CASE QueuedAt(l) = {}
      BY <3>1, FS_EmptySet
    <3>2. CASE QueuedAt(l) # {}
      <4>1. PICK o : o \in QueuedAt(l)
        BY <3>2
      <4>2. QueuedAt(l) = {o}
        BY <2>1, <4>1 DEF Inv, OneRequest
      <4>3. Cardinality({o}) = 1
        BY FS_Singleton
      <4> QED BY <4>2, <4>3
    <3> QED BY <3>1, <3>2
  <2>3. ASSUME NEW l \in Locker, QueuedAt(l) # {} PROVE life[l] = "asleep"
    BY <2>1, <2>3 DEF Inv, OneRequest
  <2>4. ASSUME NEW l \in Locker, life[l] = "idle", NEW o \in Object PROVE Holds(l, o) = {}
    <3>1. ~HoldsIn(table[o], l)
      BY <2>4 DEF Inv, IdleHoldsNothing
    <3> QED BY <3>1, EntryFacts DEF Holds, HoldsIn, Range
  <2>5. ASSUME NEW o \in Object PROVE IsInjective(table[o].holders)
    BY EntryFacts DEF IsInjective, Distinct, HoldersDiffer
  <2> QED BY <2>2, <2>3, <2>4, <2>5 DEF TypeOK, Inv, Types
<1> QED BY <1>1, Invariance, PTL

(* Locks on one object that conflict belong to one family, however they    *)
(* were granted: at once, from the queue or by inheritance.                *)
THEOREM HoldersCompatibleHolds == Spec => []HoldersCompatible
<1>1. Inv => HoldersCompatible
  <2> SUFFICES ASSUME Inv, NEW o \in Object,
                      NEW h \in Range(table[o].holders), NEW g \in Range(table[o].holders),
                      Conflicts(h.mode, g.mode)
               PROVE  Master[h.locker] = Master[g.locker]
    BY DEF HoldersCompatible
  <2>1. PICK i \in 1..Len(table[o].holders) : h = table[o].holders[i]
    BY EntryFacts DEF Range
  <2>2. PICK j \in 1..Len(table[o].holders) : g = table[o].holders[j]
    BY EntryFacts DEF Range
  <2> QED BY <2>1, <2>2, EntryFacts DEF Compatible
<1> QED BY <1>1, Invariance, PTL

(* No wake-up is lost: a request that waits has a holder in its way, or a  *)
(* request before it.                                                      *)
THEOREM NobodyWaitsForNothingHolds == Spec => []NobodyWaitsForNothing
<1>1. Inv => NobodyWaitsForNothing
  <2> SUFFICES ASSUME Inv, NEW o \in Object, NEW i \in DOMAIN table[o].waiters,
                      Waits(table[o].waiters[i])
               PROVE  \/ Blockers(table[o].waiters[i], o) # {}
                      \/ \E n \in 1..i - 1 : ~Waits(table[o].waiters[n])
    BY DEF NobodyWaitsForNothing
  <2>1. PICK t : t = table[o]
    OBVIOUS
  <2>2. /\ t.holders \in Seq(Holder) /\ t.waiters \in Seq(Waiter)
        /\ DOMAIN t.holders = 1..Len(t.holders) /\ DOMAIN t.waiters = 1..Len(t.waiters)
        /\ WaitersDiffer(t) /\ FirstIsBlocked(t)
    BY <2>1, EntryFacts DEF Distinct
  <2>3. PICK w : w = t.waiters[i]
    OBVIOUS
  <2>4. (CHOOSE n \in DOMAIN table[o].waiters : table[o].waiters[n] = w) = i
    BY <2>1, <2>2, <2>3 DEF WaitersDiffer
  <2>5. Blockers(w, o) = {h.locker : h \in {g \in Range(t.holders) : InTheWay(g, w.locker, w.mode)}}
                         \cup {t.waiters[n].locker : n \in {k \in 1..i - 1 : Waits(t.waiters[k])}}
    BY <2>1, <2>4, Zenon DEF Blockers
  <2>6. CASE i = 1
    <3>1. PICK j \in 1..Len(t.holders) : InTheWay(t.holders[j], w.locker, w.mode)
      BY <2>1, <2>2, <2>3, <2>6 DEF FirstIsBlocked
    <3>2. t.holders[j] \in {g \in Range(t.holders) : InTheWay(g, w.locker, w.mode)}
      BY <2>2, <3>1 DEF Range
    <3>3. t.holders[j].locker \in Blockers(w, o)
      BY <2>5, <3>2
    <3> QED BY <2>1, <2>3, <3>3
  <2>7. CASE i # 1
    <3>1. 1 \in 1..i - 1
      BY <2>1, <2>2, <2>7
    <3>2. CASE Waits(t.waiters[1])
      <4>1. t.waiters[1].locker \in Blockers(w, o)
        BY <2>5, <3>1, <3>2
      <4> QED BY <2>1, <2>3, <4>1
    <3> QED BY <2>1, <3>1, <3>2
  <2> QED BY <2>6, <2>7
<1> QED BY <1>1, Invariance, PTL

-----------------------------------------------------------------------------
(* The search of the detector: sets of families that wait for families *)

Row == [set : SUBSET Masters, cycle : BOOLEAN]
Search == [rows : [Masters -> SUBSET Masters], valid : SUBSET Masters, dead : Seq(SUBSET Masters)]

\* Induction up to N.
LEMMA UpTo ==
  ASSUME NEW N \in Nat, NEW K, 0 \in K, \A n \in 0..N : n < N /\ n \in K => n + 1 \in K
  PROVE  \A n \in 0..N : n \in K
<1> DEFINE S == {n \in Nat : n =< N => n \in K}
<1>1. 0 \in S
  OBVIOUS
<1>2. \A n \in Nat : n \in S => n + 1 \in S
  OBVIOUS
<1>3. Nat \subseteq S
  <2> HIDE DEF S
  <2> QED BY <1>1, <1>2, SetInduction
<1> QED BY <1>3

\* What a row of the search gains from one family it leads to.
Gains(s, r, rows, i, j) ==
    /\ r.set \subseteq s.set /\ (r.cycle => s.cycle)
    /\ (r.cycle => i \in r.set) => (s.cycle => i \in s.set)
    /\ \A x \in s.set : x \in r.set \/ (j \in r.set /\ x \in rows[j])
    /\ j \in r.set /\ ~s.cycle => j # i /\ rows[j] \subseteq s.set

LEMMA FollowOneFacts ==
  ASSUME NEW rows \in [Masters -> SUBSET Masters], NEW i \in Masters, NEW r \in Row, NEW j \in Masters
  PROVE  FollowOne(rows, i, r, j) \in Row /\ Gains(FollowOne(rows, i, r, j), r, rows, i, j)
<1>0. PICK s : s = FollowOne(rows, i, r, j)
  OBVIOUS
<1> DEFINE more == r.set \cup (IF j = i THEN r.set ELSE rows[j])
<1>1. more \in SUBSET Masters /\ r.set \subseteq more
  BY DEF Row
<1>2. CASE j \in r.set /\ ~r.cycle
  <2>1. s = [set |-> more, cycle |-> i \in more]
    BY <1>0, <1>2 DEF FollowOne
  <2>2. s.set = more /\ s.cycle = (i \in more) /\ s \in Row
    <3> HIDE DEF more
    <3> QED BY <1>1, <2>1 DEF Row
  <2> QED BY <1>0, <1>1, <1>2, <2>2 DEF Gains
<1>3. CASE ~(j \in r.set /\ ~r.cycle)
  <2>1. s = r
    BY <1>0, <1>3, Zenon DEF FollowOne
  <2> QED BY <1>0, <1>3, <2>1 DEF Gains
<1> QED BY <1>2, <1>3

LEMMA FollowSteps ==
  ASSUME NEW rows \in [Masters -> SUBSET Masters], NEW order \in Seq(Masters), NEW i \in Masters
  PROVE  \E row \in [0..Len(order) -> Row] :
            /\ row[0] = [set |-> rows[i], cycle |-> FALSE]
            /\ \A n \in 0..Len(order) : n < Len(order) =>
                  row[n + 1] = FollowOne(rows, i, row[n], order[n + 1])
            /\ Follow(rows, order, i) = row[Len(order)]
<1> DEFINE N == Len(order)
           base == [set |-> rows[i], cycle |-> FALSE]
           step == [n \in 1..N |-> [r \in Row |-> FollowOne(rows, i, r, order[n])]]
<1>1. N \in Nat /\ base \in Row /\ \A n \in 1..N : order[n] \in Masters
  BY DEF Row
<1>2. \A r \in Row : \A j \in Masters : FollowOne(rows, i, r, j) \in Row
  BY FollowOneFacts
<1>3. CountStep(N, Row, base, step)
  <2>1. step \in [1..N -> [Row -> Row]]
    BY <1>1, <1>2
  <2> QED BY <1>1, <2>1 DEF CountStep
<1>4. PICK f : ByCount(f, N, Row, base, step)
  <2> HIDE DEF N, base, step
  <2> QED BY <1>1, <1>3, CountRecursion
<1>5. f \in [0..N -> Row] /\ f[0] = base
  <2>1. 0 \in 0..N
    BY <1>1
  <2> HIDE DEF base, step, N
  <2> QED BY <2>1, <1>4 DEF ByCount
<1>6. ASSUME NEW n \in 0..N, n # 0 PROVE f[n] = FollowOne(rows, i, f[n - 1], order[n])
  <2>1. n \in 1..N /\ n - 1 \in 0..N
    BY <1>6, <1>1
  <2>2. f[n - 1] \in Row /\ f[n] = step[n][f[n - 1]]
    BY <1>4, <1>6, <2>1 DEF ByCount
  <2> QED BY <2>1, <2>2
<1>7. f = [n \in 0..N |-> IF n = 0 THEN base ELSE FollowOne(rows, i, f[n - 1], order[n])]
  <2>1. \A n \in 0..N : f[n] = IF n = 0 THEN base ELSE FollowOne(rows, i, f[n - 1], order[n])
    BY <1>5, <1>6
  <2> HIDE DEF base
  <2> QED BY <1>5, <2>1
<1>8. PICK g :
         /\ g = [n \in 0..Len(order) |-> IF n = 0 THEN [set |-> rows[i], cycle |-> FALSE]
                                         ELSE FollowOne(rows, i, g[n - 1], order[n])]
         /\ Follow(rows, order, i) = g[Len(order)]
  BY <1>7, Zenon DEF Follow
<1> HIDE DEF base, step
<1>9. /\ g[0] = base
      /\ \A n \in 0..N : n < N => g[n + 1] = FollowOne(rows, i, g[n], order[n + 1])
  <2>1. g[0] = base
    BY <1>1, <1>8 DEF base
  <2>2. ASSUME NEW n \in 0..N, n < N PROVE g[n + 1] = FollowOne(rows, i, g[n], order[n + 1])
    <3>1. n + 1 \in 0..N /\ n + 1 # 0 /\ (n + 1) - 1 = n
      BY <1>1, <2>2
    <3> QED BY <1>8, <3>1
  <2> QED BY <2>1, <2>2
<1>10. \A n \in 0..N : g[n] \in Row
  <2> DEFINE K == {n \in 0..N : g[n] \in Row}
  <2>1. 0 \in K
    BY <1>1, <1>9
  <2>2. \A n \in 0..N : n < N /\ n \in K => n + 1 \in K
    BY <1>1, <1>2, <1>9
  <2>3. \A n \in 0..N : n \in K
    <3> HIDE DEF K, N
    <3> QED BY <1>1, <2>1, <2>2, UpTo
  <2> QED BY <2>3
<1>11. g \in [0..N -> Row]
  BY <1>8, <1>10
<1> QED BY <1>8, <1>9, <1>11 DEF base

LEMMA FollowInRow ==
  ASSUME NEW rows \in [Masters -> SUBSET Masters], NEW order \in Seq(Masters), NEW i \in Masters
  PROVE  Follow(rows, order, i) \in Row
<1>1. Len(order) \in 0..Len(order)
  OBVIOUS
<1>2. PICK row \in [0..Len(order) -> Row] : Follow(rows, order, i) = row[Len(order)]
  BY FollowSteps
<1> QED BY <1>1, <1>2

LEMMA FindFromInSearch ==
  ASSUME NEW s \in Search, NEW order \in Seq(Masters), NEW i \in Masters
  PROVE  FindFrom(s, order, i) \in Search
<1>1. s.rows \in [Masters -> SUBSET Masters] /\ s.valid \in SUBSET Masters
      /\ s.dead \in Seq(SUBSET Masters)
  BY DEF Search
<1>2. PICK row \in Row : row = Follow(s.rows, order, i)
  BY <1>1, FollowInRow
<1>3. row.set \in SUBSET Masters
  BY DEF Row
<1>4. CASE i \in s.valid
  <2>1. FindFrom(s, order, i) =
            [rows |-> [s.rows EXCEPT ![i] = row.set],
             valid |-> IF row.cycle THEN s.valid \ row.set ELSE s.valid,
             dead |-> IF row.cycle THEN Append(s.dead, row.set) ELSE s.dead]
    BY <1>2, <1>4, Zenon DEF FindFrom
  <2>2. [s.rows EXCEPT ![i] = row.set] \in [Masters -> SUBSET Masters]
    BY <1>1, <1>3
  <2>3. Append(s.dead, row.set) \in Seq(SUBSET Masters)
    BY <1>1, <1>3
  <2> QED BY <1>1, <2>1, <2>2, <2>3 DEF Search
<1>5. CASE i \notin s.valid
  BY <1>5, Zenon DEF FindFrom
<1> QED BY <1>4, <1>5

LEMMA FindSteps ==
  ASSUME NEW rows \in [Masters -> SUBSET Masters], NEW order \in Seq(Masters)
  PROVE  \E found \in [0..Len(order) -> Search] :
            /\ found[0] = [rows |-> rows, valid |-> Masters, dead |-> <<>>]
            /\ \A n \in 0..Len(order) : n < Len(order) =>
                  found[n + 1] = FindFrom(found[n], order, order[n + 1])
            /\ Find(rows, order) = found[Len(order)].dead
<1> DEFINE N == Len(order)
           base == [rows |-> rows, valid |-> Masters, dead |-> <<>>]
           step == [n \in 1..N |-> [s \in Search |-> FindFrom(s, order, order[n])]]
<1>1. N \in Nat /\ base \in Search /\ \A n \in 1..N : order[n] \in Masters
  BY DEF Search
<1>2. \A s \in Search : \A j \in Masters : FindFrom(s, order, j) \in Search
  BY FindFromInSearch
<1>3. CountStep(N, Search, base, step)
  <2>1. step \in [1..N -> [Search -> Search]]
    BY <1>1, <1>2
  <2> QED BY <1>1, <2>1 DEF CountStep
<1>4. PICK f : ByCount(f, N, Search, base, step)
  <2> HIDE DEF N, base, step
  <2> QED BY <1>1, <1>3, CountRecursion
<1>5. f \in [0..N -> Search] /\ f[0] = base
  <2>1. 0 \in 0..N
    BY <1>1
  <2> HIDE DEF base, step, N
  <2> QED BY <2>1, <1>4 DEF ByCount
<1>6. ASSUME NEW n \in 0..N, n # 0 PROVE f[n] = FindFrom(f[n - 1], order, order[n])
  <2>1. n \in 1..N /\ n - 1 \in 0..N
    BY <1>6, <1>1
  <2>2. f[n - 1] \in Search /\ f[n] = step[n][f[n - 1]]
    BY <1>4, <1>6, <2>1 DEF ByCount
  <2> QED BY <2>1, <2>2
<1>7. f = [n \in 0..N |-> IF n = 0 THEN base ELSE FindFrom(f[n - 1], order, order[n])]
  <2>1. \A n \in 0..N : f[n] = IF n = 0 THEN base ELSE FindFrom(f[n - 1], order, order[n])
    BY <1>5, <1>6
  <2> HIDE DEF base
  <2> QED BY <1>5, <2>1
<1>8. PICK g :
         /\ g = [n \in 0..Len(order) |-> IF n = 0 THEN [rows |-> rows, valid |-> Masters, dead |-> <<>>]
                                         ELSE FindFrom(g[n - 1], order, order[n])]
         /\ Find(rows, order) = g[Len(order)].dead
  BY <1>7, Zenon DEF Find
<1> HIDE DEF base, step
<1>9. /\ g[0] = base
      /\ \A n \in 0..N : n < N => g[n + 1] = FindFrom(g[n], order, order[n + 1])
  <2>1. g[0] = base
    BY <1>1, <1>8 DEF base
  <2>2. ASSUME NEW n \in 0..N, n < N PROVE g[n + 1] = FindFrom(g[n], order, order[n + 1])
    <3>1. n + 1 \in 0..N /\ n + 1 # 0 /\ (n + 1) - 1 = n
      BY <1>1, <2>2
    <3> QED BY <1>8, <3>1
  <2> QED BY <2>1, <2>2
<1>10. \A n \in 0..N : g[n] \in Search
  <2> DEFINE K == {n \in 0..N : g[n] \in Search}
  <2>1. 0 \in K
    BY <1>1, <1>9
  <2>2. \A n \in 0..N : n < N /\ n \in K => n + 1 \in K
    BY <1>1, <1>2, <1>9
  <2>3. \A n \in 0..N : n \in K
    <3> HIDE DEF K, N
    <3> QED BY <1>1, <2>1, <2>2, UpTo
  <2> QED BY <2>3
<1>11. g \in [0..N -> Search]
  BY <1>8, <1>10
<1> QED BY <1>8, <1>9, <1>11 DEF base

\* Each of S waits for one of S: a deadlock, as far as rows tell.
Circle(E, S) == S # {} /\ \A m \in S : E[m] \cap S # {}

\* What can be reached from i.
Closed(E, X) == \A x \in X : E[x] \subseteq X
Reach(E, i) == {x \in Masters : \A X \in SUBSET Masters : E[i] \subseteq X /\ Closed(E, X) => x \in X}

\* Every one is looked at, and once.
Order(order) ==
    /\ order \in Seq(Masters)
    /\ \A p, q \in 1..Len(order) : order[p] = order[q] => p = q
    /\ \A m \in Masters : \E p \in 1..Len(order) : order[p] = m

\* A row only grows, and a circle once found is not lost.
LEMMA FollowGrows ==
  ASSUME NEW rows \in [Masters -> SUBSET Masters], NEW order \in Seq(Masters), NEW i \in Masters,
         NEW row \in [0..Len(order) -> Row],
         \A n \in 0..Len(order) : n < Len(order) =>
            row[n + 1] = FollowOne(rows, i, row[n], order[n + 1])
  PROVE  \A n \in 0..Len(order) : \A m \in 0..n :
            row[m].set \subseteq row[n].set /\ (row[m].cycle => row[n].cycle)
<1> DEFINE N == Len(order)
           K == {n \in 0..N : \A m \in 0..n :
                    row[m].set \subseteq row[n].set /\ (row[m].cycle => row[n].cycle)}
<1>1. N \in Nat /\ 0 \in K
  OBVIOUS
<1>2. ASSUME NEW n \in 0..N, n < N, n \in K PROVE n + 1 \in K
  <2>1. n + 1 \in 0..N /\ row[n] \in Row /\ order[n + 1] \in Masters
    BY <1>1, <1>2
  <2>2. row[n].set \subseteq row[n + 1].set /\ (row[n].cycle => row[n + 1].cycle)
    <3>1. row[n + 1] = FollowOne(rows, i, row[n], order[n + 1])
      BY <1>2
    <3>2. Gains(row[n + 1], row[n], rows, i, order[n + 1])
      BY <2>1, <3>1, FollowOneFacts
    <3> QED BY <3>2 DEF Gains
  <2>3. ASSUME NEW m \in 0..n + 1
        PROVE  row[m].set \subseteq row[n + 1].set /\ (row[m].cycle => row[n + 1].cycle)
    <3>1. CASE m = n + 1
      BY <3>1
    <3>2. CASE m # n + 1
      <4>1. m \in 0..n
        BY <3>2
      <4> QED BY <1>2, <2>2, <4>1
    <3> QED BY <3>1, <3>2
  <2> QED BY <2>1, <2>3
<1>3. \A n \in 0..N : n \in K
  <2> HIDE DEF K, N
  <2> QED BY <1>1, <1>2, UpTo
<1> QED BY <1>3

\* Where the rows before it lead on within S, a row that does not lead back to
\* itself leads on as well.
LEMMA FollowLeadsOn ==
  ASSUME NEW rows \in [Masters -> SUBSET Masters], NEW order, Order(order), NEW S \in SUBSET Masters,
         NEW p \in 1..Len(order), rows[order[p]] \cap S # {},
         \A q \in 1..p - 1 : order[q] \in S =>
            \E r \in q + 1..Len(order) : order[r] \in S \cap rows[order[q]],
         ~Follow(rows, order, order[p]).cycle
  PROVE  \E r \in p + 1..Len(order) : order[r] \in S \cap Follow(rows, order, order[p]).set
<1> DEFINE N == Len(order)
           i == order[p]
<1>1. N \in Nat /\ order \in Seq(Masters) /\ i \in Masters /\ p \in 0..N /\ p - 1 \in 0..N /\ N \in 0..N
  BY DEF Order
<1>2. PICK row \in [0..Len(order) -> Row] :
         /\ row[0] = [set |-> rows[i], cycle |-> FALSE]
         /\ \A n \in 0..Len(order) : n < Len(order) =>
               row[n + 1] = FollowOne(rows, i, row[n], order[n + 1])
         /\ Follow(rows, order, i) = row[Len(order)]
  BY <1>1, FollowSteps
<1>3. \A n \in 0..N : ~row[n].cycle /\ row[n].set \subseteq row[N].set
  <2>1. \A n \in 0..Len(order) : \A m \in 0..n :
            row[m].set \subseteq row[n].set /\ (row[m].cycle => row[n].cycle)
    BY <1>1, <1>2, FollowGrows
  <2>2. \A n \in 0..N : n \in 0..Len(order) /\ n \in 0..N
    OBVIOUS
  <2> QED BY <1>1, <1>2, <2>1
<1>4. ASSUME NEW n \in 0..N, n < N
      PROVE  order[n + 1] \in row[n].set =>
                order[n + 1] # i /\ rows[order[n + 1]] \subseteq row[n + 1].set
  <2>1. n + 1 \in 0..N /\ order[n + 1] \in Masters /\ row[n] \in Row
    BY <1>1, <1>4
  <2>2. ~row[n + 1].cycle /\ row[n + 1] = FollowOne(rows, i, row[n], order[n + 1])
    BY <1>2, <1>3, <1>4, <2>1
  <2>3. Gains(row[n + 1], row[n], rows, i, order[n + 1])
    BY <1>1, <2>1, <2>2, FollowOneFacts
  <2> QED BY <2>2, <2>3 DEF Gains
<1> DEFINE K == {n \in 0..p - 1 : \E r \in n + 1..N : order[r] \in S \cap row[n].set}
<1>5. 0 \in K
  <2>1. row[0].set = rows[i]
    BY <1>2
  <2>2. PICK m \in Masters : m \in rows[i] \cap S
    OBVIOUS
  <2>3. PICK r \in 1..N : order[r] = m
    BY DEF Order
  <2> QED BY <1>1, <2>1, <2>2, <2>3
<1>6. ASSUME NEW n \in 0..p - 1, n < p - 1, n \in K PROVE n + 1 \in K
  <2>1. PICK r \in n + 1..N : order[r] \in S \cap row[n].set
    BY <1>6
  <2>2. n \in 0..N /\ n < N /\ n + 1 \in 0..N /\ n + 1 \in 1..p - 1
    BY <1>1, <1>6
  <2>3. row[n].set \subseteq row[n + 1].set
    <3>1. row[n] \in Row /\ order[n + 1] \in Masters /\ row[n + 1] = FollowOne(rows, i, row[n], order[n + 1])
      BY <1>1, <1>2, <2>2
    <3>2. Gains(row[n + 1], row[n], rows, i, order[n + 1])
      BY <1>1, <3>1, FollowOneFacts
    <3> QED BY <3>2 DEF Gains
  <2>4. CASE r # n + 1
    <3>1. r \in (n + 1) + 1..N
      BY <2>1, <2>2, <2>4
    <3> QED BY <2>1, <2>2, <2>3, <3>1
  <2>5. CASE r = n + 1
    <3>1. rows[order[n + 1]] \subseteq row[n + 1].set
      BY <1>4, <2>1, <2>2, <2>5
    <3>2. PICK t \in (n + 1) + 1..Len(order) : order[t] \in S \cap rows[order[n + 1]]
      BY <2>1, <2>2, <2>5
    <3> QED BY <2>2, <3>1, <3>2
  <2> QED BY <2>4, <2>5
<1>7. p - 1 \in K
  <2>1. p - 1 \in Nat /\ p - 1 \in 0..p - 1
    OBVIOUS
  <2>2. \A n \in 0..p - 1 : n \in K
    <3> HIDE DEF K, N, i
    <3> QED BY <1>5, <1>6, <2>1, UpTo
  <2> QED BY <2>1, <2>2
<1>8. PICK r \in (p - 1) + 1..N : order[r] \in S \cap row[p - 1].set
  BY <1>7
<1>9. r # p
  <2>1. p - 1 \in 0..N /\ p - 1 < N /\ (p - 1) + 1 = p
    BY <1>1
  <2>2. order[p] \notin row[p - 1].set
    BY <1>4, <2>1
  <2> QED BY <1>8, <2>2
<1>10. r \in p + 1..N /\ order[r] \in S \cap row[N].set
  <2>1. r \in p + 1..N
    BY <1>1, <1>8, <1>9
  <2>2. row[p - 1].set \subseteq row[N].set
    BY <1>1, <1>3
  <2> QED BY <1>8, <2>1, <2>2
<1> QED BY <1>2, <1>10

\* Whatever circle there is, the search finds one.
LEMMA FindsACircle ==
  ASSUME NEW E \in [Masters -> SUBSET Masters], NEW order, Order(order),
         NEW S \in SUBSET Masters, Circle(E, S)
  PROVE  Len(Find(E, order)) # 0
<1> DEFINE N == Len(order)
<1>1. N \in Nat /\ order \in Seq(Masters) /\ \A p \in 1..N : order[p] \in Masters
  BY DEF Order
<1>2. PICK found \in [0..Len(order) -> Search] :
         /\ found[0] = [rows |-> E, valid |-> Masters, dead |-> <<>>]
         /\ \A n \in 0..Len(order) : n < Len(order) =>
               found[n + 1] = FindFrom(found[n], order, order[n + 1])
         /\ Find(E, order) = found[Len(order)].dead
  BY <1>1, FindSteps
<1>3. \A n \in 0..N : /\ found[n].rows \in [Masters -> SUBSET Masters]
                      /\ found[n].valid \in SUBSET Masters
                      /\ found[n].dead \in Seq(SUBSET Masters)
  BY <1>2 DEF Search
<1> SUFFICES ASSUME Len(found[N].dead) = 0 PROVE FALSE
  BY <1>2
\* nothing is found, or it stays found
<1>4. ASSUME NEW n \in 0..N, n < N
      PROVE  LET row == Follow(found[n].rows, order, order[n + 1])
             IN  /\ found[n + 1].dead # <<>> \/ found[n].dead = <<>>
                 /\ order[n + 1] \in found[n].valid =>
                       /\ found[n + 1].rows = [found[n].rows EXCEPT ![order[n + 1]] = row.set]
                       /\ row.cycle => found[n + 1].dead # <<>>
                       /\ ~row.cycle => found[n + 1].valid = found[n].valid
  <2>1. found[n + 1] = FindFrom(found[n], order, order[n + 1])
    BY <1>2, <1>4
  <2>2. PICK row : row = Follow(found[n].rows, order, order[n + 1])
    OBVIOUS
  <2>3. CASE order[n + 1] \in found[n].valid
    <3>1. found[n + 1] =
            [rows |-> [found[n].rows EXCEPT ![order[n + 1]] = row.set],
             valid |-> IF row.cycle THEN found[n].valid \ row.set ELSE found[n].valid,
             dead |-> IF row.cycle THEN Append(found[n].dead, row.set) ELSE found[n].dead]
      BY <2>1, <2>2, <2>3, Zenon DEF FindFrom
    <3>2. row.set \in SUBSET Masters
      <4>1. order[n + 1] \in Masters
        BY <1>1, <1>4
      <4> QED BY <1>1, <1>3, <2>2, <4>1, FollowInRow DEF Row
    <3>3. Append(found[n].dead, row.set) # <<>>
      BY <1>3, <3>2
    <3> QED BY <2>2, <3>1, <3>3
  <2>4. CASE order[n + 1] \notin found[n].valid
    <3>1. found[n + 1] = found[n]
      BY <2>1, <2>4, Zenon DEF FindFrom
    <3> QED BY <2>4, <3>1
  <2> QED BY <2>3, <2>4
<1>5. \A n \in 0..N : found[n].dead = <<>>
  <2> DEFINE K == {n \in 0..N : found[n].dead # <<>> => found[N].dead # <<>>}
             L == {n \in 0..N : N - n \in K}
  <2>1. 0 \in L
    BY <1>1
  <2>2. ASSUME NEW n \in 0..N, n < N, n \in L PROVE n + 1 \in L
    <3>1. N - (n + 1) \in 0..N /\ N - (n + 1) < N /\ (N - (n + 1)) + 1 = N - n /\ n + 1 \in 0..N
      BY <1>1, <2>2
    <3>2. found[N - n].dead # <<>> \/ found[N - (n + 1)].dead = <<>>
      BY <1>4, <3>1
    <3> QED BY <2>2, <3>1, <3>2
  <2>3. \A n \in 0..N : n \in L
    <3> HIDE DEF K, L, N
    <3> QED BY <1>1, <2>1, <2>2, UpTo
  <2>4. found[N].dead = <<>>
    BY <1>1, <1>3
  <2>5. ASSUME NEW n \in 0..N PROVE n \in K
    <3>1. N - n \in 0..N /\ N - (N - n) = n
      BY <1>1
    <3> QED BY <2>3, <3>1
  <2> QED BY <2>4, <2>5
<1> DEFINE Leads(n) ==
              /\ found[n].valid = Masters
              /\ \A q \in 1..n : order[q] \in S =>
                    \E r \in q + 1..N : order[r] \in S \cap found[n].rows[order[q]]
              /\ \A q \in n + 1..N : found[n].rows[order[q]] = E[order[q]]
           K == {n \in 0..N : Leads(n)}
<1>6. 0 \in K
  BY <1>1, <1>2
<1>7. ASSUME NEW n \in 0..N, n < N, n \in K PROVE n + 1 \in K
  <2> DEFINE i == order[n + 1]
  <2>1. n + 1 \in 1..N /\ n + 1 \in 0..N /\ i \in Masters /\ i \in found[n].valid
    BY <1>1, <1>7
  <2>2. PICK row : row = Follow(found[n].rows, order, i)
    OBVIOUS
  <2>3. /\ found[n + 1].rows = [found[n].rows EXCEPT ![i] = row.set]
        /\ ~row.cycle /\ found[n + 1].valid = Masters
    BY <1>4, <1>5, <1>7, <2>1, <2>2
  <2>4. \A q \in 1..N : q # n + 1 => found[n + 1].rows[order[q]] = found[n].rows[order[q]]
    <3>1. \A q \in 1..N : q # n + 1 => order[q] # i /\ order[q] \in Masters
      BY <1>1, <2>1 DEF Order
    <3> QED BY <1>3, <2>1, <2>3, <3>1
  <2>5. found[n + 1].rows[i] = row.set
    BY <1>3, <2>1, <2>3
  <2>6. ASSUME i \in S PROVE \E r \in (n + 1) + 1..N : order[r] \in S \cap row.set
    <3>1. found[n].rows[i] \cap S # {}
      <4>1. found[n].rows[i] = E[i]
        BY <1>7, <2>1
      <4> QED BY <2>6, <4>1 DEF Circle
    <3>2. \A q \in 1..(n + 1) - 1 : order[q] \in S =>
             \E r \in q + 1..Len(order) : order[r] \in S \cap found[n].rows[order[q]]
      BY <1>7
    <3>3. found[n].rows \in [Masters -> SUBSET Masters] /\ n + 1 \in 1..Len(order)
      BY <1>3, <2>1
    <3>4. ~Follow(found[n].rows, order, order[n + 1]).cycle
      BY <2>2, <2>3
    <3> HIDE DEF K
    <3> QED BY <2>2, <3>1, <3>2, <3>3, <3>4, FollowLeadsOn
  <2>7. ASSUME NEW q \in 1..n + 1, order[q] \in S
        PROVE  \E r \in q + 1..N : order[r] \in S \cap found[n + 1].rows[order[q]]
    <3>1. CASE q = n + 1
      BY <2>5, <2>6, <2>7, <3>1
    <3>2. CASE q # n + 1
      <4>1. q \in 1..n /\ q \in 1..N
        BY <2>1, <3>2
      <4>2. PICK r \in q + 1..N : order[r] \in S \cap found[n].rows[order[q]]
        BY <1>7, <2>7, <4>1
      <4> QED BY <2>4, <3>2, <4>1, <4>2
    <3> QED BY <3>1, <3>2
  <2>8. ASSUME NEW q \in (n + 1) + 1..N PROVE found[n + 1].rows[order[q]] = E[order[q]]
    <3>1. q \in n + 1..N /\ q \in 1..N /\ q # n + 1
      BY <2>1
    <3> QED BY <1>7, <2>4, <3>1
  <2> QED BY <2>1, <2>3, <2>7, <2>8
<1>8. Leads(N)
  <2>1. N \in 0..N
    BY <1>1
  <2>2. \A n \in 0..N : n \in K
    <3> HIDE DEF K, N
    <3> QED BY <1>1, <1>6, <1>7, UpTo
  <2> QED BY <2>1, <2>2
\* the last of S leads nowhere
<1> DEFINE Places == {q \in 1..N : order[q] \in S}
           Gaps == {N - q : q \in Places}
<1>9. PICK q \in Places : \A r \in Places : r =< q
  <2>1. PICK m \in S : m \in Masters
    BY DEF Circle
  <2>2. PICK r \in 1..N : order[r] = m
    BY <2>1 DEF Order
  <2>3. Gaps \subseteq Nat /\ Gaps # {}
    <3>1. r \in Places
      BY <2>1, <2>2
    <3> QED BY <1>1, <3>1
  <2>4. PICK g \in Gaps : \A h \in Gaps : g =< h
    <3> HIDE DEF Gaps
    <3> QED BY <2>3, LeastNat
  <2>5. PICK q \in Places : g = N - q
    BY <2>4
  <2>6. ASSUME NEW t \in Places PROVE t =< q
    <3>1. N - q =< N - t
      BY <2>4, <2>5
    <3> QED BY <1>1, <3>1
  <2> QED BY <2>6
<1>10. q \in 1..N /\ order[q] \in S
  OBVIOUS
<1>11. PICK r \in q + 1..N : order[r] \in S
  BY <1>8, <1>10
<1>12. r \in Places /\ r > q
  BY <1>1, <1>10, <1>11
<1> QED BY <1>1, <1>9, <1>10, <1>12

LEMMA ReachFacts ==
  ASSUME NEW E \in [Masters -> SUBSET Masters], NEW i \in Masters
  PROVE  E[i] \subseteq Reach(E, i) /\ \A j \in Reach(E, i) : Reach(E, j) \subseteq Reach(E, i)
<1>1. E[i] \subseteq Reach(E, i)
  <2>1. E[i] \subseteq Masters
    OBVIOUS
  <2> QED BY <2>1 DEF Reach
<1>2. ASSUME NEW j \in Reach(E, i), NEW x \in Reach(E, j) PROVE x \in Reach(E, i)
  <2>1. x \in Masters /\ j \in Masters
    BY DEF Reach
  <2>2. ASSUME NEW X \in SUBSET Masters, E[i] \subseteq X, Closed(E, X) PROVE x \in X
    <3>1. j \in X
      BY <2>2 DEF Reach
    <3>2. E[j] \subseteq X
      BY <2>2, <3>1 DEF Closed
    <3> QED BY <2>2, <3>2 DEF Reach
  <2> QED BY <2>1, <2>2 DEF Reach
<1> QED BY <1>1, <1>2

\* A row has what can be reached and nothing else.
LEMMA FollowReaches ==
  ASSUME NEW E \in [Masters -> SUBSET Masters], NEW rows \in [Masters -> SUBSET Masters],
         \A j \in Masters : rows[j] \subseteq Reach(E, j),
         NEW order \in Seq(Masters), NEW i \in Masters
  PROVE  LET row == Follow(rows, order, i)
         IN  row.set \subseteq Reach(E, i) /\ (row.cycle => i \in row.set)
<1> DEFINE N == Len(order)
<1>1. N \in Nat /\ N \in 0..N
  OBVIOUS
<1>2. PICK row \in [0..Len(order) -> Row] :
         /\ row[0] = [set |-> rows[i], cycle |-> FALSE]
         /\ \A n \in 0..Len(order) : n < Len(order) =>
               row[n + 1] = FollowOne(rows, i, row[n], order[n + 1])
         /\ Follow(rows, order, i) = row[Len(order)]
  BY FollowSteps
<1> DEFINE K == {n \in 0..N : row[n].set \subseteq Reach(E, i) /\ (row[n].cycle => i \in row[n].set)}
<1>3. 0 \in K
  BY <1>1, <1>2
<1>4. ASSUME NEW n \in 0..N, n < N, n \in K PROVE n + 1 \in K
  <2>1. n + 1 \in 0..N /\ order[n + 1] \in Masters /\ row[n] \in Row
    BY <1>1, <1>4
  <2>2. row[n + 1] = FollowOne(rows, i, row[n], order[n + 1])
    BY <1>2, <1>4
  <2>3. /\ row[n].cycle => i \in row[n].set
        /\ row[n + 1].cycle => i \in row[n + 1].set
        /\ \A x \in row[n + 1].set :
              x \in row[n].set \/ (order[n + 1] \in row[n].set /\ x \in rows[order[n + 1]])
    <3>1. row[n].cycle => i \in row[n].set
      BY <1>4
    <3>2. Gains(row[n + 1], row[n], rows, i, order[n + 1])
      BY <2>1, <2>2, FollowOneFacts
    <3> QED BY <3>1, <3>2 DEF Gains
  <2>4. ASSUME NEW x \in row[n + 1].set PROVE x \in Reach(E, i)
    <3>1. CASE x \in row[n].set
      BY <1>4, <3>1
    <3>2. CASE order[n + 1] \in row[n].set /\ x \in rows[order[n + 1]]
      <4>1. order[n + 1] \in Reach(E, i)
        BY <1>4, <3>2
      <4>2. x \in Reach(E, order[n + 1])
        BY <2>1, <3>2
      <4> QED BY <4>1, <4>2, ReachFacts
    <3> QED BY <2>3, <2>4, <3>1, <3>2
  <2> QED BY <2>1, <2>3, <2>4
<1>5. N \in K
  <2>1. \A n \in 0..N : n \in K
    <3> HIDE DEF K, N
    <3> QED BY <1>1, <1>3, <1>4, UpTo
  <2> QED BY <1>1, <2>1
<1> QED BY <1>2, <1>5

\* A find has a member that is reached from itself.
LEMMA FindReaches ==
  ASSUME NEW E \in [Masters -> SUBSET Masters], NEW order \in Seq(Masters)
  PROVE  \A k \in 1..Len(Find(E, order)) :
            \E i \in Find(E, order)[k] : i \in Masters /\ i \in Reach(E, i)
<1> DEFINE N == Len(order)
<1>1. N \in Nat /\ N \in 0..N /\ \A p \in 1..N : order[p] \in Masters
  OBVIOUS
<1>2. PICK found \in [0..Len(order) -> Search] :
         /\ found[0] = [rows |-> E, valid |-> Masters, dead |-> <<>>]
         /\ \A n \in 0..Len(order) : n < Len(order) =>
               found[n + 1] = FindFrom(found[n], order, order[n + 1])
         /\ Find(E, order) = found[Len(order)].dead
  BY FindSteps
<1>3. \A n \in 0..N : /\ found[n].rows \in [Masters -> SUBSET Masters]
                      /\ found[n].dead \in Seq(SUBSET Masters)
  BY <1>2 DEF Search
<1> DEFINE OnItself(d) == \E i \in d : i \in Masters /\ i \in Reach(E, i)
           K == {n \in 0..N :
                    /\ \A j \in Masters : found[n].rows[j] \subseteq Reach(E, j)
                    /\ \A k \in 1..Len(found[n].dead) : OnItself(found[n].dead[k])}
<1>4. 0 \in K
  <2>1. found[0].rows = E /\ found[0].dead = <<>>
    BY <1>2
  <2> QED BY <1>1, <2>1, ReachFacts
<1>5. ASSUME NEW n \in 0..N, n < N, n \in K PROVE n + 1 \in K
  <2> DEFINE i == order[n + 1]
  <2>1. n + 1 \in 0..N /\ i \in Masters /\ found[n + 1] = FindFrom(found[n], order, i)
    BY <1>1, <1>2, <1>5
  <2>2. PICK row : row = Follow(found[n].rows, order, i)
    OBVIOUS
  <2>3. /\ row.set \subseteq Reach(E, i) /\ (row.cycle => i \in row.set)
        /\ row.set \in SUBSET Masters
    <3>1. /\ found[n].rows \in [Masters -> SUBSET Masters]
          /\ \A j \in Masters : found[n].rows[j] \subseteq Reach(E, j)
      BY <1>3, <1>5
    <3>2. row \in Row
      BY <2>1, <2>2, <3>1, FollowInRow
    <3> HIDE DEF K, N, i
    <3> QED BY <2>1, <2>2, <3>1, <3>2, FollowReaches DEF Row
  <2>4. CASE i \in found[n].valid
    <3>1. found[n + 1] =
            [rows |-> [found[n].rows EXCEPT ![i] = row.set],
             valid |-> IF row.cycle THEN found[n].valid \ row.set ELSE found[n].valid,
             dead |-> IF row.cycle THEN Append(found[n].dead, row.set) ELSE found[n].dead]
      BY <2>1, <2>2, <2>4, Zenon DEF FindFrom
    <3>2. \A j \in Masters : found[n + 1].rows[j] = IF j = i THEN row.set ELSE found[n].rows[j]
      <4>1. found[n + 1].rows = [found[n].rows EXCEPT ![i] = row.set]
        BY <3>1
      <4> QED BY <1>3, <4>1
    <3>3. \A j \in Masters : found[n + 1].rows[j] \subseteq Reach(E, j)
      BY <1>5, <2>3, <3>2
    <3>4. ASSUME NEW k \in 1..Len(found[n + 1].dead) PROVE OnItself(found[n + 1].dead[k])
      <4>1. CASE ~row.cycle
        <5>1. found[n + 1].dead = found[n].dead
          BY <3>1, <4>1
        <5> QED BY <1>5, <5>1
      <4>2. CASE row.cycle
        <5>1. found[n + 1].dead = Append(found[n].dead, row.set)
          BY <3>1, <4>2
        <5>2. /\ Len(Append(found[n].dead, row.set)) = Len(found[n].dead) + 1
              /\ \A h \in 1..Len(found[n].dead) : Append(found[n].dead, row.set)[h] = found[n].dead[h]
              /\ Append(found[n].dead, row.set)[Len(found[n].dead) + 1] = row.set
              /\ Len(found[n].dead) \in Nat
          BY <1>3, <2>3
        <5>3. CASE k = Len(found[n].dead) + 1
          <6>1. found[n + 1].dead[k] = row.set
            BY <5>1, <5>2, <5>3
          <6>2. OnItself(row.set)
            BY <2>1, <2>3, <4>2
          <6> HIDE DEF OnItself
          <6> QED BY <6>1, <6>2
        <5>4. CASE k # Len(found[n].dead) + 1
          <6>1. k \in 1..Len(found[n].dead) /\ found[n + 1].dead[k] = found[n].dead[k]
            BY <5>1, <5>2, <5>4
          <6> QED BY <1>5, <6>1
        <5> QED BY <5>3, <5>4
      <4> QED BY <4>1, <4>2
    <3> QED BY <2>1, <3>3, <3>4
  <2>5. CASE i \notin found[n].valid
    <3>1. found[n + 1] = found[n]
      BY <2>1, <2>5, Zenon DEF FindFrom
    <3> QED BY <1>5, <2>1, <3>1
  <2> QED BY <2>4, <2>5
<1>6. N \in K
  <2>1. \A n \in 0..N : n \in K
    <3> HIDE DEF K, N
    <3> QED BY <1>1, <1>4, <1>5, UpTo
  <2> QED BY <1>1, <2>1
<1> QED BY <1>2, <1>6

\* Who is reached from himself is in a circle.
LEMMA CircleAround ==
  ASSUME NEW E \in [Masters -> SUBSET Masters], NEW i \in Masters, i \in Reach(E, i)
  PROVE  \E T \in SUBSET Masters : i \in T /\ Circle(E, T)
<1> DEFINE T == {x \in Masters : i \in Reach(E, x)}
<1>1. Closed(E, Masters \ T)
  <2> SUFFICES ASSUME NEW x \in Masters \ T, NEW y \in E[x], y \in T PROVE FALSE
    BY DEF Closed
  <2>1. y \in Reach(E, x)
    BY ReachFacts
  <2>2. i \in Reach(E, x)
    BY <2>1, ReachFacts
  <2> QED BY <2>2
<1>2. ASSUME NEW x \in T PROVE E[x] \cap T # {}
  <2> SUFFICES ASSUME E[x] \cap T = {} PROVE FALSE
    OBVIOUS
  <2>1. E[x] \subseteq Masters \ T
    OBVIOUS
  <2>2. i \in Masters \ T
    <3>1. i \in Reach(E, x) /\ (Masters \ T) \in SUBSET Masters
      OBVIOUS
    <3> HIDE DEF T
    <3> QED BY <1>1, <2>1, <3>1 DEF Reach
  <2> QED BY <2>2
<1> QED BY <1>2 DEF Circle

-----------------------------------------------------------------------------
(* Families *)

\* The root of a family: an ancestor of all the others.
LEMMA MasterAncestor ==
  \A l \in Locker : Master[l] \in Masters /\ (Master[l] = l \/ Master[l] \in Ancestors[l])
<1> DEFINE S == {l \in Locker : ~(Master[l] \in Masters /\ (Master[l] = l \/ Master[l] \in Ancestors[l]))}
<1> SUFFICES ASSUME S # {} PROVE FALSE
  OBVIOUS
<1>1. PICK l \in S : ParentOf[l] \notin S
  <2>1. S \in (SUBSET Locker) \ {{}}
    OBVIOUS
  <2> HIDE DEF S
  <2> QED BY <2>1, LockerAssumption
<1>2. l \in Locker /\ ~(Master[l] \in Masters /\ (Master[l] = l \/ Master[l] \in Ancestors[l]))
  OBVIOUS
<1>3. CASE ParentOf[l] = NoLocker
  BY <1>2, <1>3, MasterDef DEF Masters
<1>4. CASE ParentOf[l] # NoLocker
  <2>1. ParentOf[l] \in Locker /\ Master[l] = Master[ParentOf[l]]
        /\ Ancestors[l] = {ParentOf[l]} \cup Ancestors[ParentOf[l]]
    BY <1>2, <1>4, LockerAssumption, MasterDef, AncestorsDef
  <2>2. Master[ParentOf[l]] \in Masters
        /\ (Master[ParentOf[l]] = ParentOf[l] \/ Master[ParentOf[l]] \in Ancestors[ParentOf[l]])
    BY <1>1, <2>1
  <2> QED BY <1>2, <2>1, <2>2
<1> QED BY <1>3, <1>4

-----------------------------------------------------------------------------
(* Who waits for whom: the table as the detector sees it *)

\* The i-th request in the queue of o is one of family m.
Request(m, o, i) == i \in 1..Len(table[o].waiters) /\ Master[table[o].waiters[i].locker] = m

LEMMA RequestFacts ==
  ASSUME Inv, NEW o \in Object, NEW i \in 1..Len(table[o].waiters)
  PROVE  LET w == table[o].waiters[i]
         IN  /\ w \in Waiter /\ w.locker \in Locker /\ w \in Range(table[o].waiters)
             /\ Unanswered(table[o], w.locker) /\ life[w.locker] = "asleep"
             /\ Master[w.locker] \in Masters
<1> DEFINE w == table[o].waiters[i]
<1>1. w \in Waiter /\ w.locker \in Locker /\ w \in Range(table[o].waiters)
  <2>1. w \in Waiter
    BY EntryFacts
  <2>2. w \in Range(table[o].waiters)
    BY EntryFacts DEF Range
  <2> QED BY <2>1, <2>2 DEF Waiter
<1>2. Unanswered(table[o], w.locker)
  BY DEF Unanswered, QueuedIn
<1>3. life[w.locker] = "asleep"
  BY <1>1, <1>2 DEF Inv, OneRequest
<1> QED BY <1>1, <1>2, <1>3, MasterAncestor

LEMMA HolderFacts ==
  ASSUME Inv, NEW o \in Object, NEW k \in 1..Len(table[o].holders)
  PROVE  LET h == table[o].holders[k]
         IN  /\ h \in Holder /\ h.locker \in Locker /\ h \in Range(table[o].holders)
             /\ life[h.locker] # "idle" /\ Master[h.locker] \in Masters
<1> DEFINE h == table[o].holders[k]
<1>1. h \in Holder /\ h.locker \in Locker /\ h \in Range(table[o].holders)
  <2>1. h \in Holder
    BY EntryFacts
  <2>2. h \in Range(table[o].holders)
    BY EntryFacts DEF Range
  <2> QED BY <2>1, <2>2 DEF Holder
<1>2. HoldsIn(table[o], h.locker)
  BY DEF HoldsIn
<1>3. life[h.locker] # "idle"
  BY <1>1, <1>2 DEF Inv, IdleHoldsNothing
<1> QED BY <1>1, <1>3, MasterAncestor

\* Two of a family that sleep are one, unless the family is crowded.
LEMMA OneSleeper ==
  ASSUME NEW x \in Locker, NEW y \in Locker, life[x] = "asleep", life[y] = "asleep",
         Master[x] = Master[y], Master[x] \notin Crowded
  PROVE  x = y
BY DEF Crowded

\* A family that is not crowded has one request in all the table.
LEMMA OneOfFamily ==
  ASSUME Inv, NEW m, m \notin Crowded, NEW o \in Object, NEW p \in Object, NEW i, NEW j,
         Request(m, o, i), Request(m, p, j)
  PROVE  o = p /\ i = j
<1> DEFINE x == table[o].waiters[i].locker
           y == table[p].waiters[j].locker
<1>1. i \in 1..Len(table[o].waiters) /\ j \in 1..Len(table[p].waiters) /\ Master[x] = m /\ Master[y] = m
  BY DEF Request
<1>2. x \in Locker /\ Unanswered(table[o], x) /\ life[x] = "asleep"
  BY <1>1, RequestFacts
<1>3. y \in Locker /\ Unanswered(table[p], y) /\ life[y] = "asleep"
  BY <1>1, RequestFacts
<1>4. x = y
  BY <1>1, <1>2, <1>3, OneSleeper
<1>5. o = p
  BY <1>2, <1>3, <1>4 DEF Inv, OneRequest
<1>6. i = j
  BY <1>1, <1>4, <1>5, EntryFacts DEF Distinct, WaitersDiffer
<1> QED BY <1>5, <1>6

\* None of the locks of such a family is one that was just promoted.
LEMMA FamilyHolds ==
  ASSUME Inv, NEW m, m \notin Crowded, NEW o \in Object, NEW i, Request(m, o, i),
         NEW p \in Object, NEW k \in 1..Len(table[p].holders),
         Master[table[p].holders[k].locker] = m
  PROVE  table[p].holders[k].status = "held"
<1> DEFINE l == table[o].waiters[i].locker
           h == table[p].holders[k]
           x == h.locker
<1>1. i \in 1..Len(table[o].waiters) /\ Master[x] = m /\ Master[l] = m
  BY DEF Request
<1>2. l \in Locker /\ Unanswered(table[o], l) /\ life[l] = "asleep"
  BY <1>1, RequestFacts
<1>3. h \in Holder /\ x \in Locker
  BY HolderFacts
<1>4. h.status # "pending"
  <2> SUFFICES ASSUME h.status = "pending" PROVE FALSE
    OBVIOUS
  <2>1. Unanswered(table[p], x)
    BY DEF Unanswered, PendingIn
  <2>2. life[x] = "asleep" /\ \A q \in Object : Unanswered(table[q], x) => q = p
    BY <1>3, <2>1 DEF Inv, OneRequest
  <2>3. x = l
    BY <1>1, <1>2, <1>3, <2>2, OneSleeper
  <2>4. o = p
    BY <1>2, <2>2, <2>3
  <2>5. WaitsForMore(table[o])
    BY EntryFacts DEF Distinct
  <2> QED BY <1>1, <2>3, <2>4, <2>5 DEF WaitsForMore
<1> QED BY <1>3, <1>4 DEF Holder

\* What keeps the i-th request waiting: a holder, or a request before it.
HolderBlocks(x, o, i) ==
    \E k \in 1..Len(table[o].holders) :
        /\ InTheWay(table[o].holders[k], table[o].waiters[i].locker, table[o].waiters[i].mode)
        /\ x = table[o].holders[k].locker

WaiterBlocks(x, o, i) ==
    \E n \in 1..i - 1 : Waits(table[o].waiters[n]) /\ x = table[o].waiters[n].locker

LEMMA BlockersAre ==
  ASSUME Inv, NEW o \in Object, NEW i \in 1..Len(table[o].waiters)
  PROVE  \A x : x \in Blockers(table[o].waiters[i], o) <=> HolderBlocks(x, o, i) \/ WaiterBlocks(x, o, i)
<1>1. PICK t : t = table[o]
  OBVIOUS
<1>2. /\ t.holders \in Seq(Holder) /\ t.waiters \in Seq(Waiter)
      /\ DOMAIN t.holders = 1..Len(t.holders) /\ DOMAIN t.waiters = 1..Len(t.waiters)
      /\ WaitersDiffer(t)
  BY <1>1, EntryFacts DEF Distinct
<1>3. PICK w : w = t.waiters[i]
  OBVIOUS
<1>4. (CHOOSE n \in DOMAIN table[o].waiters : table[o].waiters[n] = w) = i
  BY <1>1, <1>2, <1>3 DEF WaitersDiffer
<1>5. Blockers(w, o) = {h.locker : h \in {g \in Range(t.holders) : InTheWay(g, w.locker, w.mode)}}
                       \cup {t.waiters[n].locker : n \in {k \in 1..i - 1 : Waits(t.waiters[k])}}
  BY <1>1, <1>4, Zenon DEF Blockers
<1>6. \A g : g \in Range(t.holders) <=> \E k \in 1..Len(t.holders) : g = t.holders[k]
  BY <1>2 DEF Range
<1>7. \A x : x \in Blockers(w, o) <=>
          \/ \E k \in 1..Len(t.holders) :
                InTheWay(t.holders[k], w.locker, w.mode) /\ x = t.holders[k].locker
          \/ \E n \in 1..i - 1 : Waits(t.waiters[n]) /\ x = t.waiters[n].locker
  BY <1>5, <1>6
<1> QED BY <1>1, <1>3, <1>7 DEF HolderBlocks, WaiterBlocks

LEMMA HeldByIs ==
  ASSUME Inv, NEW o \in Object
  PROVE  /\ HeldBy(o) \subseteq Masters
         /\ \A y : y \in HeldBy(o) <=>
               \E k \in 1..Len(table[o].holders) :
                  table[o].holders[k].status = "held" /\ y = Master[table[o].holders[k].locker]
<1>1. \A g : g \in Range(table[o].holders) <=>
                \E k \in 1..Len(table[o].holders) : g = table[o].holders[k]
  BY EntryFacts DEF Range
<1>2. \A y : y \in HeldBy(o) <=>
               \E k \in 1..Len(table[o].holders) :
                  table[o].holders[k].status = "held" /\ y = Master[table[o].holders[k].locker]
  BY <1>1 DEF HeldBy
<1> QED BY <1>2, HolderFacts

\* The i-th request in the queue of o is one of family m, which has time and waits.
WaitsAt(m, o, i) ==
    Request(m, o, i) /\ Waits(table[o].waiters[i]) /\ m \notin late

LEMMA StillWaitingIs ==
  ASSUME Inv, NEW o \in Object
  PROVE  \A w : w \in StillWaiting(o) <=>
            \E i \in 1..Len(table[o].waiters) :
               w = table[o].waiters[i] /\ Waits(w) /\ Master[w.locker] \notin late
<1>1. \A g : g \in Range(table[o].waiters) <=>
                \E i \in 1..Len(table[o].waiters) : g = table[o].waiters[i]
  BY EntryFacts DEF Range
<1> QED BY <1>1 DEF StillWaiting

LEMMA WaitsForIs ==
  ASSUME Inv, NEW objects
  PROVE  /\ WaitsFor(objects) \in [Masters -> SUBSET Masters]
         /\ \A m \in Masters : \A y : y \in WaitsFor(objects)[m] <=>
               /\ \E o \in Object : y \in HeldBy(o) /\ \E i : WaitsAt(m, o, i)
               /\ y = m => WaitsForItself(m, objects)
<1>1. ASSUME NEW m \in Masters, NEW o \in Object, NEW w
      PROVE  <<o, w>> \in WaitingOf({m}) <=> \E i : WaitsAt(m, o, i) /\ w = table[o].waiters[i]
  <2>1. <<o, w>> \in WaitingOf({m}) <=> w \in StillWaiting(o) /\ Master[w.locker] = m
    BY DEF WaitingOf
  <2> QED BY <2>1, StillWaitingIs DEF WaitsAt, Request
<1>2. ASSUME NEW m \in Masters, NEW e \in WaitingOf({m}) PROVE \E o \in Object : \E w : e = <<o, w>>
  BY DEF WaitingOf
<1>3. ASSUME NEW m \in Masters, NEW y
      PROVE  y \in HeldBefore(m) <=>
                \E o \in Object : y \in HeldBy(o) /\ \E i : WaitsAt(m, o, i)
  <2>1. ASSUME NEW e \in WaitingOf({m}), y \in HeldBy(e[1])
        PROVE  \E o \in Object : y \in HeldBy(o) /\ \E i : WaitsAt(m, o, i)
    <3>1. PICK o \in Object : \E w : e = <<o, w>>
      BY <1>2
    <3>2. PICK w : e = <<o, w>>
      BY <3>1
    <3>3. e[1] = o /\ <<o, w>> \in WaitingOf({m})
      BY <3>2
    <3> QED BY <1>1, <2>1, <3>3
  <2>2. ASSUME NEW o \in Object, y \in HeldBy(o), NEW i, WaitsAt(m, o, i)
        PROVE  \E e \in WaitingOf({m}) : y \in HeldBy(e[1])
    <3>1. PICK e : e = <<o, table[o].waiters[i]>>
      OBVIOUS
    <3>2. e[1] = o /\ e \in WaitingOf({m})
      BY <1>1, <2>2, <3>1
    <3> QED BY <2>2, <3>2
  <2> QED BY <2>1, <2>2 DEF HeldBefore
<1>5. ASSUME NEW m \in Masters, NEW y
      PROVE  y \in WaitsFor(objects)[m] <=>
               /\ \E o \in Object : y \in HeldBy(o) /\ \E i : WaitsAt(m, o, i)
               /\ y = m => WaitsForItself(m, objects)
  <2>1. WaitsFor(objects)[m] = {x \in HeldBefore(m) : x = m => WaitsForItself(m, objects)}
    BY DEF WaitsFor
  <2> QED BY <1>3, <2>1
<1>6. WaitsFor(objects) \in [Masters -> SUBSET Masters]
  <2>1. ASSUME NEW m \in Masters PROVE WaitsFor(objects)[m] \in SUBSET Masters
    BY <1>5, HeldByIs
  <2>2. WaitsFor(objects) = [m \in Masters |-> WaitsFor(objects)[m]]
    BY DEF WaitsFor
  <2> QED BY <2>1, <2>2
<1> QED BY <1>5, <1>6

\* A list of the objects, each of them somewhere.
Listed(objects) ==
    objects \in Seq(Object) /\ \A o \in Object : \E n \in DOMAIN objects : objects[n] = o

(* A family with one request: its place in the queue decides whether it is *)
(* taken to wait for itself, whatever the order of the objects.            *)
LEMMA OneRequestWaitsFor ==
  ASSUME Inv, NEW objects, Listed(objects), NEW m \in Masters, m \notin Crowded, NEW y
  PROVE  y \in WaitsFor(objects)[m] <=>
            \E o \in Object : \E i :
               WaitsAt(m, o, i) /\ y \in HeldBy(o) /\ (i = 1 => y # m)
<1>1. ASSUME y = m, WaitsForItself(m, objects)
      PROVE  \E o \in Object : \E i : WaitsAt(m, o, i) /\ y \in HeldBy(o) /\ i # 1
  <2>1. PICK n \in DOMAIN objects : WaitsLater(m, objects[n]) /\ m \in HeldBy(objects[n])
    BY <1>1 DEF WaitsForItself
  <2>2. PICK o \in Object : o = objects[n]
    BY <2>1 DEF Listed
  <2>3. PICK i \in DOMAIN table[o].waiters :
           /\ i > 1 /\ table[o].waiters[i] \in StillWaiting(o)
           /\ Master[table[o].waiters[i].locker] = m
    BY <2>1, <2>2 DEF WaitsLater
  <2>4. i \in 1..Len(table[o].waiters)
    BY <2>3, EntryFacts
  <2>5. WaitsAt(m, o, i)
    BY <2>3, <2>4, StillWaitingIs DEF WaitsAt, Request
  <2> QED BY <1>1, <2>1, <2>2, <2>3, <2>4, <2>5
<1>2. ASSUME NEW o \in Object, NEW i, WaitsAt(m, o, i), m \in HeldBy(o), i # 1
      PROVE  WaitsForItself(m, objects)
  <2>1. PICK n \in DOMAIN objects : objects[n] = o
    BY DEF Listed
  <2>2. i \in 1..Len(table[o].waiters) /\ Master[table[o].waiters[i].locker] = m
    BY <1>2 DEF WaitsAt, Request
  <2>3. WaitsLater(m, o)
    <3>1. i > 1 /\ i \in DOMAIN table[o].waiters
      BY <1>2, <2>2, EntryFacts
    <3>2. table[o].waiters[i] \in StillWaiting(o)
      BY <1>2, <2>2, StillWaitingIs DEF WaitsAt
    <3> QED BY <2>2, <3>1, <3>2 DEF WaitsLater
  <2>4. ASSUME NEW k \in DOMAIN objects, WaitsFirst(m, objects[k]) PROVE FALSE
    <3>1. PICK p \in Object : p = objects[k]
      BY DEF Listed
    <3>2. table[p].waiters # <<>> /\ Master[Head(table[p].waiters).locker] = m
      BY <2>4, <3>1 DEF WaitsFirst
    <3>3. 1 \in 1..Len(table[p].waiters) /\ Head(table[p].waiters) = table[p].waiters[1]
      BY <3>2, EntryFacts
    <3>4. Request(m, p, 1)
      BY <3>2, <3>3 DEF Request
    <3>5. Request(m, o, i)
      BY <1>2 DEF WaitsAt
    <3> QED BY <1>2, <3>4, <3>5, OneOfFamily
  <2> QED BY <1>2, <2>1, <2>3, <2>4 DEF WaitsForItself
<1>3. ASSUME y \in WaitsFor(objects)[m]
      PROVE  \E o \in Object : \E i :
                WaitsAt(m, o, i) /\ y \in HeldBy(o) /\ (i = 1 => y # m)
  <2>1. CASE y = m
    BY <1>1, <1>3, <2>1, WaitsForIs
  <2>2. CASE y # m
    BY <1>3, <2>2, WaitsForIs
  <2> QED BY <2>1, <2>2
<1>4. ASSUME NEW o \in Object, NEW i, WaitsAt(m, o, i), y \in HeldBy(o), i = 1 => y # m
      PROVE  y \in WaitsFor(objects)[m]
  BY <1>2, <1>4, WaitsForIs
<1> QED BY <1>3, <1>4

\* For the first of a queue every other family that holds the object is a real
\* blocker, with one of its locks.
LEMMA HeadIsBlocked ==
  ASSUME Inv, NEW o \in Object, NEW m, Request(m, o, 1), Waits(table[o].waiters[1]),
         NEW y \in HeldBy(o), y # m
  PROVE  \E x \in Blockers(table[o].waiters[1], o) : Master[x] = y
<1> DEFINE w == table[o].waiters[1]
           hs == table[o].holders
<1>1. 1 \in 1..Len(table[o].waiters) /\ Master[w.locker] = m
  BY DEF Request
<1>2. w \in Waiter /\ w.locker \in Locker /\ w.mode \in {"READ", "WRITE"}
  BY <1>1, RequestFacts DEF Waiter, Mode
<1>3. PICK k \in 1..Len(hs) : y = Master[hs[k].locker]
  BY HeldByIs
<1>4. \E j \in 1..Len(hs) : InTheWay(hs[j], w.locker, w.mode) /\ Master[hs[j].locker] = y
  <2>1. CASE w.mode = "WRITE"
    <3>1. hs[k].locker # w.locker /\ hs[k].locker \notin Ancestors[w.locker]
      BY <1>1, <1>2, <1>3, AncestorMaster
    <3> QED BY <1>3, <2>1, <3>1 DEF InTheWay, Conflicts
  <2>2. CASE w.mode = "READ"
    <3>1. table[o].waiters # <<>> /\ FirstIsBlocked(table[o])
      BY <1>1, EntryFacts
    <3>2. PICK j \in 1..Len(hs) : InTheWay(hs[j], w.locker, w.mode)
      BY <3>1 DEF FirstIsBlocked
    <3>3. hs[j].mode = "WRITE"
      BY <2>2, <3>2 DEF InTheWay, Conflicts
    <3>4. Master[hs[j].locker] = Master[hs[k].locker]
      BY <3>3, EntryFacts DEF Compatible, Conflicts
    <3> QED BY <1>3, <3>2, <3>4
  <2> QED BY <1>2, <2>1, <2>2
<1>5. PICK j \in 1..Len(hs) : InTheWay(hs[j], w.locker, w.mode) /\ Master[hs[j].locker] = y
  BY <1>4
<1>6. hs[j].locker \in Blockers(w, o)
  <2>1. HolderBlocks(hs[j].locker, o, 1)
    BY <1>5 DEF HolderBlocks
  <2> QED BY <1>1, <2>1, BlockersAre
<1> QED BY <1>5, <1>6

\* A family that really waits, for another of S.
ReallyWaits(m, S) ==
    \E o \in Object : \E i \in 1..Len(table[o].waiters) :
        /\ Request(m, o, i) /\ Waits(table[o].waiters[i])
        /\ \E b \in Blockers(table[o].waiters[i], o) : Master[b] \in S \ {m}

LEMMA StandStillIs ==
  ASSUME Inv, NEW S \in SUBSET Masters
  PROVE  StandStill(S) <=> \A m \in S : ReallyWaits(m, S)
<1>1. \A o \in Object : \A g : g \in Range(table[o].waiters) <=>
         \E i \in 1..Len(table[o].waiters) : g = table[o].waiters[i]
  BY EntryFacts DEF Range
<1>2. ASSUME NEW m
      PROVE  (\E o \in Object : \E w \in Range(table[o].waiters) :
                 Waits(w) /\ Master[w.locker] = m /\ \E b \in Blockers(w, o) : Master[b] \in S \ {m})
             <=> ReallyWaits(m, S)
  <2>1. ASSUME NEW o \in Object, NEW w \in Range(table[o].waiters),
               Waits(w), Master[w.locker] = m, NEW b \in Blockers(w, o), Master[b] \in S \ {m}
        PROVE  ReallyWaits(m, S)
    <3>1. PICK i \in 1..Len(table[o].waiters) : w = table[o].waiters[i]
      BY <1>1
    <3> QED BY <2>1, <3>1 DEF ReallyWaits, Request
  <2>2. ASSUME NEW o \in Object, NEW i \in 1..Len(table[o].waiters),
               Request(m, o, i), Waits(table[o].waiters[i]),
               NEW b \in Blockers(table[o].waiters[i], o), Master[b] \in S \ {m}
        PROVE  \E w \in Range(table[o].waiters) :
                  Waits(w) /\ Master[w.locker] = m /\ \E c \in Blockers(w, o) : Master[c] \in S \ {m}
    <3>1. table[o].waiters[i] \in Range(table[o].waiters)
      BY <1>1
    <3> QED BY <2>2, <3>1 DEF Request
  <2> QED BY <2>1, <2>2 DEF ReallyWaits
<1> QED BY <1>2, Zenon DEF StandStill

\* A deadlock in which no time is over and no family is crowded is a circle of
\* the detector's: where a family waits behind another's request, the first of
\* S in that queue has a holder in its way, and the detector takes it for a
\* blocker of both.
LEMMA RealIsCircle ==
  ASSUME Inv, NEW objects, Listed(objects),
         NEW S \in Deadlocks, S \cap late = {}, S \cap Crowded = {}
  PROVE  S \in SUBSET Masters /\ Circle(WaitsFor(objects), S)
<1>1. S \in SUBSET Masters /\ S # {} /\ \A m \in S : ReallyWaits(m, S) /\ m \notin late /\ m \notin Crowded
  BY StandStillIs DEF Deadlocks
\* Whoever of S has a lock on an object is taken for a blocker there.
<1>2. ASSUME NEW o \in Object, NEW k \in 1..Len(table[o].holders), Master[table[o].holders[k].locker] \in S
      PROVE  Master[table[o].holders[k].locker] \in HeldBy(o)
  <2>1. PICK m \in S : m = Master[table[o].holders[k].locker]
    BY <1>2
  <2>2. PICK p \in Object : \E i : Request(m, p, i)
    BY <1>1 DEF ReallyWaits
  <2>3. table[o].holders[k].status = "held"
    BY <1>1, <2>1, <2>2, FamilyHolds
  <2> QED BY <2>3, HeldByIs
<1>3. ASSUME NEW m \in S PROVE WaitsFor(objects)[m] \cap S # {}
  <2>1. PICK o, i :
           /\ o \in Object /\ i \in 1..Len(table[o].waiters)
           /\ Request(m, o, i) /\ Waits(table[o].waiters[i])
           /\ \E b \in Blockers(table[o].waiters[i], o) : Master[b] \in S \ {m}
    BY <1>1 DEF ReallyWaits
  <2>2. PICK b \in Blockers(table[o].waiters[i], o) : Master[b] \in S \ {m}
    BY <2>1
  <2>3. m \in Masters /\ m \notin Crowded /\ WaitsAt(m, o, i)
    BY <1>1, <2>1 DEF WaitsAt
  <2>4. ASSUME NEW y \in HeldBy(o) \cap S, i = 1 => y # m PROVE WaitsFor(objects)[m] \cap S # {}
    BY <2>1, <2>3, <2>4, OneRequestWaitsFor
  <2>5. CASE HolderBlocks(b, o, i)
    <3>1. PICK k \in 1..Len(table[o].holders) : b = table[o].holders[k].locker
      BY <2>5 DEF HolderBlocks
    <3>2. Master[b] \in HeldBy(o)
      BY <1>2, <2>1, <2>2, <3>1
    <3> QED BY <2>2, <2>4, <3>2
  <2>6. CASE WaiterBlocks(b, o, i)
    <3> DEFINE OfS == {n \in 1..i - 1 : Waits(table[o].waiters[n]) /\ Master[table[o].waiters[n].locker] \in S}
    <3>1. OfS # {} /\ OfS \subseteq Nat
      BY <2>2, <2>6 DEF WaiterBlocks
    <3>2. PICK n \in OfS : \A k \in OfS : n =< k
      <4> HIDE DEF OfS
      <4> QED BY <3>1, LeastNat
    <3>3. n \in 1..i - 1 /\ Waits(table[o].waiters[n]) /\ n \in 1..Len(table[o].waiters) /\ i # 1
      BY <2>1
    <3>4. PICK q \in S : q = Master[table[o].waiters[n].locker]
      BY <3>2
    <3>5. Request(q, o, n)
      BY <3>3, <3>4 DEF Request
    <3>6. PICK c \in Blockers(table[o].waiters[n], o) : Master[c] \in S
      <4>0. ReallyWaits(q, S) /\ q \notin Crowded
        BY <1>1, <3>4
      <4>1. PICK p, j :
               /\ p \in Object /\ j \in 1..Len(table[p].waiters) /\ Request(q, p, j)
               /\ \E c \in Blockers(table[p].waiters[j], p) : Master[c] \in S
        BY <4>0 DEF ReallyWaits
      <4>2. p = o /\ j = n
        BY <2>1, <3>5, <4>0, <4>1, OneOfFamily
      <4> QED BY <4>1, <4>2
    <3>7. ~WaiterBlocks(c, o, n)
      <4> SUFFICES ASSUME NEW k \in 1..n - 1, Waits(table[o].waiters[k]), c = table[o].waiters[k].locker
                   PROVE  FALSE
        BY DEF WaiterBlocks
      <4>1. k \in 1..i - 1 /\ k < n
        <5>1. i \in Nat /\ n \in Nat
          BY <2>1, <3>3
        <5> QED BY <3>3, <5>1
      <4>2. k \in OfS
        BY <3>6, <4>1
      <4> QED BY <3>2, <3>3, <4>1, <4>2
    <3>8. PICK k \in 1..Len(table[o].holders) : c = table[o].holders[k].locker
      <4>1. HolderBlocks(c, o, n)
        BY <2>1, <3>3, <3>6, <3>7, BlockersAre
      <4> QED BY <4>1 DEF HolderBlocks
    <3>9. Master[c] \in HeldBy(o)
      BY <1>2, <2>1, <3>6, <3>8
    <3> QED BY <2>4, <3>3, <3>6, <3>9
  <2>7. HolderBlocks(b, o, i) \/ WaiterBlocks(b, o, i)
    BY <2>1, <2>2, BlockersAre
  <2> QED BY <2>5, <2>6, <2>7
<1> QED BY <1>1, <1>3 DEF Circle

\* Where no time is over and nobody is crowded, a circle of the detector's is a
\* deadlock, together with the first of the queues in which its members wait.
LEMMA CircleIsReal ==
  ASSUME Inv, NEW objects, Listed(objects), Crowded = {},
         NEW T \in SUBSET Masters, Circle(WaitsFor(objects), T),
         \A o \in Object : \A i \in 1..Len(table[o].waiters) :
            Waits(table[o].waiters[i]) /\ Master[table[o].waiters[i].locker] \notin late
  PROVE  \E S \in Deadlocks : S \cap late = {} /\ T \subseteq S
<1> DEFINE Behind(m, o) == Request(m, o, 1) /\ \E x \in T : \E i : Request(x, o, i)
           S == T \cup {m \in Masters : \E o \in Object : Behind(m, o)}
<1>0. \A o \in Object : \A i \in 1..Len(table[o].waiters) :
         Waits(table[o].waiters[i]) /\ Master[table[o].waiters[i].locker] \notin late
  OBVIOUS
<1>1. ASSUME NEW x \in T, NEW o \in Object, NEW i, Request(x, o, i)
      PROVE  \E y \in HeldBy(o) \cap T : i = 1 => y # x
  <2>1. PICK y \in WaitsFor(objects)[x] : y \in T
    BY DEF Circle
  <2>2. PICK p, j :
           p \in Object /\ Request(x, p, j) /\ y \in HeldBy(p) /\ (j = 1 => y # x)
    BY OneRequestWaitsFor DEF WaitsAt
  <2>3. p = o /\ j = i
    BY <1>1, <2>2, OneOfFamily
  <2> QED BY <2>1, <2>2, <2>3
<1>2. ASSUME NEW m \in S PROVE ReallyWaits(m, S) /\ m \notin late
  <2>1. PICK o, i : o \in Object /\ Request(m, o, i) /\ (m \in T \/ (i = 1 /\ Behind(m, o)))
    <3>1. CASE m \in T
      <4>1. PICK y : y \in WaitsFor(objects)[m]
        BY <3>1 DEF Circle
      <4> QED BY <3>1, <4>1, OneRequestWaitsFor DEF WaitsAt
    <3>2. CASE m \notin T
      BY <3>2
    <3> QED BY <3>1, <3>2
  <2>2. i \in 1..Len(table[o].waiters)
    BY <2>1 DEF Request
  <2>3. Waits(table[o].waiters[i]) /\ m \notin late
    BY <2>1, <2>2 DEF Request
  <2>4. CASE i = 1
    <3>1. \E y \in HeldBy(o) \cap T : y # m
      <4>1. CASE m \in T
        BY <1>1, <2>1, <2>4, <4>1
      <4>2. CASE m \notin T
        <5>1. PICK x, j : x \in T /\ Request(x, o, j)
          BY <2>1, <4>2
        <5>2. PICK y \in HeldBy(o) \cap T : j = 1 => y # x
          BY <1>1, <2>1, <5>1
        <5> QED BY <4>2, <5>2
      <4> QED BY <4>1, <4>2
    <3>2. PICK y \in HeldBy(o) \cap T : y # m
      BY <3>1
    <3>3. \E b \in Blockers(table[o].waiters[1], o) : Master[b] = y
      BY <2>1, <2>3, <2>4, <3>2, HeadIsBlocked
    <3> QED BY <2>1, <2>2, <2>3, <2>4, <3>2, <3>3 DEF ReallyWaits
  <2>5. CASE i # 1
    <3>1. 1 \in 1..i - 1 /\ 1 \in 1..Len(table[o].waiters) /\ m \in T
      BY <2>1, <2>2, <2>5
    <3>2. PICK b : b = table[o].waiters[1].locker
      OBVIOUS
    <3>3. b \in Blockers(table[o].waiters[i], o)
      <4>1. WaiterBlocks(b, o, i)
        BY <2>1, <3>1, <3>2, <1>0 DEF WaiterBlocks
      <4> QED BY <2>1, <2>2, <4>1, BlockersAre
    <3>4. Master[b] \in Masters /\ Request(Master[b], o, 1)
      BY <2>1, <3>1, <3>2, RequestFacts DEF Request
    <3>5. Master[b] \in S
      BY <2>1, <3>1, <3>4
    <3>6. Master[b] # m
      BY <2>1, <2>5, <3>4, OneOfFamily
    <3> QED BY <2>1, <2>2, <2>3, <3>3, <3>5, <3>6 DEF ReallyWaits
  <2> QED BY <2>3, <2>4, <2>5
<1>3. S \in SUBSET Masters /\ S # {} /\ T \subseteq S /\ S \cap late = {}
  <2>1. \A m \in S : m \notin late
    BY <1>2
  <2> QED BY <2>1 DEF Circle
<1>4. StandStill(S)
  <2> HIDE DEF S
  <2> QED BY <1>2, <1>3, StandStillIs
<1>5. S \in Deadlocks
  <2> HIDE DEF S
  <2> QED BY <1>3, <1>4 DEF Deadlocks
<1> QED BY <1>3, <1>5

\* A list of a finite set has each of its elements once.
LEMMA OrdersAre ==
  ASSUME NEW S, IsFiniteSet(S), NEW order \in Orders(S)
  PROVE  /\ order \in Seq(S)
         /\ \A p, q \in 1..Len(order) : order[p] = order[q] => p = q
         /\ \A m \in S : \E p \in 1..Len(order) : order[p] = m
<1>1. PICK n : n = Cardinality(S)
  OBVIOUS
<1>2. n \in Nat
  BY <1>1, FS_CardinalityType
<1>3. order \in [1..n -> S] /\ \A i, j \in 1..n : i # j => order[i] # order[j]
  BY <1>1 DEF Orders, SetToSeqs
<1>4. order \in Seq(S) /\ Len(order) = n
  BY <1>2, <1>3
<1>5. order \in Injection(1..n, S)
  BY <1>3 DEF Injection, IsInjective
<1>6. Cardinality(1..n) = n
  <2>1. Cardinality(1..n) = IF 1 > n THEN 0 ELSE n - 1 + 1
    BY <1>2, FS_Interval
  <2> QED BY <1>2, <2>1
<1>7. order \in Surjection(1..n, S)
  BY <1>1, <1>2, <1>5, <1>6, FS_Injection
<1>8. \A m \in S : \E p \in 1..n : order[p] = m
  BY <1>7 DEF Surjection
<1> QED BY <1>3, <1>4, <1>8

LEMMA ListsAre ==
  /\ \A order \in Orders(Masters) : Order(order)
  /\ \A objects \in Orders(Object) : Listed(objects)
<1>1. IsFiniteSet(Masters)
  <2>1. Masters \in SUBSET Locker
    BY DEF Masters
  <2> QED BY <2>1, LockerAssumption, FS_Subset
<1>2. ASSUME NEW order \in Orders(Masters) PROVE Order(order)
  BY <1>1, OrdersAre DEF Order
<1>3. ASSUME NEW objects \in Orders(Object) PROVE Listed(objects)
  BY LockerAssumption, OrdersAre DEF Listed
<1> QED BY <1>2, <1>3

LEMMA OnlyBuilds ==
  ASSUME Inv, Next, need_dd, ~need_dd'
  PROVE  \E d \in Detector : \E order \in Orders(Masters) : \E objects \in Orders(Object) :
            DetectorBuilds(d, order, objects)
<1>1. ASSUME NEW l \in Locker, LockerEnds(l) \/ KidCommits(l) \/ Begin(l) \/ TimePasses(l) PROVE FALSE
  BY <1>1 DEF LockerEnds, KidCommits, Begin, TimePasses
<1>2. ASSUME NEW l \in Locker, NEW o \in Object, NEW mode \in {"READ", "WRITE"},
             LockGranted(l, o, mode) \/ LockWaits(l, o, mode) \/ LockTooLate(l, o, mode)
      PROVE  FALSE
  BY <1>2 DEF LockGranted, LockWaits, LockTooLate
<1>3. ASSUME NEW l \in Locker, NEW o \in Object, WakeGranted(l, o) \/ WakeExpired(l, o) PROVE FALSE
  BY <1>3 DEF WakeGranted, WakeExpired
<1>4. ASSUME NEW l \in Locker, WakeAborted(l) PROVE FALSE
  BY <1>4 DEF WakeAborted
<1>5. ~DetectorExpires
  BY DEF DetectorExpires
<1>6. ASSUME NEW d \in Detector, NEW m \in Masters, DetectorAborts(d, m) PROVE FALSE
  BY <1>6 DEF DetectorAborts
<1> QED BY <1>1, <1>2, <1>3, <1>4, <1>5, <1>6 DEF Next

\* Nothing is over: every request waits, and its family has time.
LEMMA NothingOver ==
  ASSUME Inv,
         {e \in Object \X Locker : e[1] \in QueuedAt(e[2]) /\
             (~Waits(RequestOf(e[2], e[1])) \/ Master[e[2]] \in late)} = {},
         NEW o \in Object, NEW i \in 1..Len(table[o].waiters)
  PROVE  Waits(table[o].waiters[i]) /\ Master[table[o].waiters[i].locker] \notin late
<1> DEFINE w == table[o].waiters[i]
           l == w.locker
<1>1. w \in Range(table[o].waiters) /\ l \in Locker
  BY RequestFacts
<1>2. o \in QueuedAt(l)
  BY <1>1 DEF QueuedAt
<1>3. \A v \in Range(table[o].waiters) : v.locker = l => v = w
  BY EntryFacts DEF Distinct, WaitersDiffer, Range
<1>4. RequestOf(l, o) = w
  <2>1. RequestOf(l, o) = CHOOSE v \in Range(table[o].waiters) : v.locker = l
    BY DEF RequestOf
  <2> HIDE DEF w, l
  <2>2. w.locker = l
    BY DEF l
  <2> QED BY <1>1, <1>3, <2>1, <2>2
<1>5. PICK e \in Object \X Locker : e = <<o, l>>
  BY <1>1
<1>6. e[1] = o /\ e[2] = l
  BY <1>5
<1>7. Waits(RequestOf(l, o)) /\ Master[l] \notin late
  BY <1>2, <1>5, <1>6
<1> QED BY <1>4, <1>7

\* Every detector has a list of what it has to break.
Detectors == detector = [d \in Detector |-> detector[d]]

LEMMA StepDetectors == ASSUME Detectors, [Next]_vars PROVE Detectors'
<1>1. CASE UNCHANGED detector
  BY <1>1 DEF Detectors
<1>2. ASSUME NEW d, NEW x, detector' = [detector EXCEPT ![d] = x] PROVE Detectors'
  BY <1>2 DEF Detectors
<1>3. CASE UNCHANGED vars
  BY <1>1, <1>3 DEF vars
<1>4. ASSUME NEW l \in Locker, Begin(l) \/ LockerEnds(l) \/ KidCommits(l) \/ TimePasses(l) PROVE Detectors'
  <2>1. CASE LockerEnds(l) \/ KidCommits(l)
    <3>1. detector' = Forgotten(l)
      BY <2>1 DEF LockerEnds, KidCommits, Ends
    <3> QED BY <3>1 DEF Detectors, Forgotten
  <2>2. CASE Begin(l) \/ TimePasses(l)
    BY <1>1, <2>2 DEF Begin, TimePasses
  <2> QED BY <1>4, <2>1, <2>2
<1>5. ASSUME NEW l \in Locker, NEW o \in Object, NEW mode \in {"READ", "WRITE"},
             LockGranted(l, o, mode) \/ LockWaits(l, o, mode) \/ LockTooLate(l, o, mode)
      PROVE  Detectors'
  BY <1>1, <1>5 DEF LockGranted, LockWaits, LockTooLate
<1>6. ASSUME NEW l \in Locker, NEW o \in Object, WakeGranted(l, o) \/ WakeExpired(l, o) PROVE Detectors'
  BY <1>1, <1>6 DEF WakeGranted, WakeExpired
<1>7. ASSUME NEW l \in Locker, WakeAborted(l) PROVE Detectors'
  BY <1>1, <1>7 DEF WakeAborted
<1>8. ASSUME NEW d \in Detector, NEW order, NEW objects, DetectorBuilds(d, order, objects) PROVE Detectors'
  <2>1. \E x : detector' = [detector EXCEPT ![d] = x]
    BY <1>8 DEF DetectorBuilds
  <2> QED BY <1>2, <2>1
<1>9. CASE DetectorExpires
  BY <1>1, <1>9 DEF DetectorExpires
<1>10. ASSUME NEW d \in Detector, NEW m \in Masters, DetectorAborts(d, m) PROVE Detectors'
  <2>1. detector' = [detector EXCEPT ![d] = Tail(detector[d])]
    BY <1>10 DEF DetectorAborts
  <2> QED BY <1>2, <2>1
<1> QED BY <1>3, <1>4, <1>5, <1>6, <1>7, <1>8, <1>9, <1>10 DEF Next

LEMMA BuildsFinds ==
  ASSUME Inv, Detectors, NEW d \in Detector, NEW order \in Orders(Masters), NEW objects \in Orders(Object),
         DetectorBuilds(d, order, objects)
  PROVE  FindsStep
<1>0. Listed(objects)
  BY ListsAre
<1>1. PICK rows, dead : rows = WaitsFor(objects) /\ dead = Find(rows, order)
  OBVIOUS
<1>2. Order(order) /\ order \in Seq(Masters) /\ rows \in [Masters -> SUBSET Masters]
  BY <1>1, ListsAre, WaitsForIs DEF Order
<1>3. dead \in Seq(SUBSET Masters)
  <2>1. PICK found \in [0..Len(order) -> Search] : Find(rows, order) = found[Len(order)].dead
    BY <1>2, FindSteps
  <2>2. Len(order) \in 0..Len(order)
    BY <1>2
  <2> QED BY <1>1, <2>1, <2>2 DEF Search
<1> DEFINE found == UNION {{detector'[x][i].members : i \in DOMAIN detector'[x]} :
                           x \in {y \in Detector : detector[y] = <<>>}}
<1>4. found = {dead[i] : i \in 1..Len(dead)}
  <2>1. PICK list : /\ detector' = [detector EXCEPT ![d] = list]
                    /\ list = [i \in DOMAIN dead |->
                           [members |-> dead[i],
                            verified |-> {m \in dead[i] : Verified(objects, dead[i], m)},
                            last |-> LastRequests(dead[i])]]
    BY <1>1, Zenon DEF DetectorBuilds
  <2>2. DOMAIN list = 1..Len(dead) /\ \A i \in 1..Len(dead) : list[i].members = dead[i]
    BY <1>3, <2>1
  <2>3. detector[d] = <<>> /\ detector'[d] = list
    BY <2>1 DEF DetectorBuilds, Detectors
  <2>4. ASSUME NEW x \in Detector, detector[x] = <<>>, x # d PROVE DOMAIN detector'[x] = {}
    <3>1. detector'[x] = <<>>
      BY <2>1, <2>4 DEF Detectors
    <3> QED BY <3>1
  <2>5. ASSUME NEW e PROVE e \in found <=> \E i \in 1..Len(dead) : e = dead[i]
    <3>1. e \in found <=> \E x \in Detector : detector[x] = <<>> /\ \E i \in DOMAIN detector'[x] :
                              e = detector'[x][i].members
      OBVIOUS
    <3> HIDE DEF found
    <3>2. e \in found <=> \E i \in DOMAIN list : e = list[i].members
      BY <2>3, <2>4, <3>1
    <3> QED BY <2>2, <3>2
  <2> QED BY <2>5
<1>5. ASSUME NEW S \in Deadlocks, S \cap late = {}, S \cap Crowded = {} PROVE found # {}
  <2>1. S \in SUBSET Masters /\ Circle(rows, S)
    BY <1>0, <1>1, <1>5, RealIsCircle
  <2>2. Len(dead) # 0
    BY <1>1, <1>2, <2>1, FindsACircle
  <2>3. 1 \in 1..Len(dead)
    BY <1>3, <2>2
  <2> HIDE DEF found
  <2>4. dead[1] \in found
    BY <1>4, <2>3
  <2> QED BY <2>4
<1>6. ASSUME {e \in Object \X Locker : e[1] \in QueuedAt(e[2]) /\
                 (~Waits(RequestOf(e[2], e[1])) \/ Master[e[2]] \in late)} = {},
             Crowded = {}, NEW f \in found
      PROVE  \E S \in {R \in Deadlocks : R \cap late = {}} : S \cap f # {}
  <2>1. PICK k \in 1..Len(dead) : f = dead[k]
    BY <1>4
  <2>2. PICK i \in f : i \in Masters /\ i \in Reach(rows, i)
    BY <1>1, <1>2, <2>1, FindReaches
  <2>3. PICK T \in SUBSET Masters : i \in T /\ Circle(rows, T)
    BY <1>2, <2>2, CircleAround
  <2>4. \A o \in Object : \A j \in 1..Len(table[o].waiters) :
            Waits(table[o].waiters[j]) /\ Master[table[o].waiters[j].locker] \notin late
    BY <1>6, NothingOver
  <2>5. PICK S \in Deadlocks : S \cap late = {} /\ T \subseteq S
    BY <1>0, <1>1, <1>6, <2>3, <2>4, CircleIsReal
  <2> QED BY <2>2, <2>3, <2>5
<1> QED BY <1>5, <1>6, Zenon DEF FindsStep

(* The detector is right, for any lockers, objects, detectors and orders:  *)
(* if families wait for each other in a circle, none of them with two      *)
(* sleepers, it finds one; and unless the time of a queued request is over *)
(* or a family has two sleepers each of its finds meets such a circle.     *)
THEOREM FindsDeadlocksHolds == Spec => FindsDeadlocks
<1>1. Init => Detectors
  BY DEF Init, Detectors
<1>2. Inv /\ Detectors /\ [Next]_vars => Detectors'
  BY StepDetectors
<1>3. Inv /\ Detectors /\ [Next]_vars => [FindsStep]_vars
  <2> SUFFICES ASSUME Inv, Detectors, Next PROVE FindsStep
    BY DEF vars
  <2>1. CASE need_dd /\ ~need_dd'
    <3>1. PICK d \in Detector, order \in Orders(Masters), objects \in Orders(Object) :
             DetectorBuilds(d, order, objects)
      BY <2>1, OnlyBuilds
    <3> QED BY <3>1, BuildsFinds
  <2>2. CASE ~(need_dd /\ ~need_dd')
    BY <2>2, Zenon DEF FindsStep
  <2> QED BY <2>1, <2>2
<1> QED BY <1>1, <1>2, <1>3, Invariance, PTL DEF Spec, FindsDeadlocks

=============================================================================
