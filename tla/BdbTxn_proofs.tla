---------------------------- MODULE BdbTxn_proofs ----------------------------
(***************************************************************************)
(* What holds of Berkeley DB's transactions for any number of transactions *)
(* and records: the transactions form a forest, the locks of strangers are *)
(* compatible whatever is inherited or released, and what a transaction    *)
(* has read changes only through its own relatives.                        *)
(***************************************************************************)
EXTENDS BdbTxn, WellFoundedInduction, TLAPS

-----------------------------------------------------------------------------
(* Sets of numbers. *)

\* Every set of numbers that is not empty has a least one.
LEMMA LeastNat ==
  ASSUME NEW S, S \subseteq Nat, S # {}
  PROVE  \E n \in S : \A m \in S : n =< m
<1>1. IsWellFoundedOn(OpToRel(<, Nat), Nat)
  BY NatLessThanWellFounded
<1>2. PICK n \in S : \A m \in S : ~(<<m, n>> \in OpToRel(<, Nat))
  BY <1>1, WFMin
<1>3. \A m \in S : ~(m < n)
  BY <1>2 DEF OpToRel
<1> QED BY <1>3

\* The greatest of a set of numbers that has a bound.
LEMMA GreatestNat ==
  ASSUME NEW S, NEW N \in Nat, S \subseteq 0..N, S # {}
  PROVE  \E n \in S : \A m \in S : n >= m
<1>1. PICK T : T = {N - m : m \in S}
  OBVIOUS
<1>2. T \subseteq Nat /\ T # {}
  <2>1. \A m \in S : N - m \in Nat
    OBVIOUS
  <2> QED BY <1>1, <2>1
<1>3. PICK k \in T : \A m \in T : k =< m
  BY <1>2, LeastNat
<1>4. PICK n \in S : k = N - n
  BY <1>1, <1>3
<1>5. ASSUME NEW m \in S PROVE n >= m
  <2>1. N - m \in T
    BY <1>1
  <2>2. N - n =< N - m
    BY <1>3, <1>4, <2>1
  <2> QED BY <2>2
<1> QED BY <1>5

-----------------------------------------------------------------------------
(* The invariant. *)

\* The ancestors of a transaction are ancestors of each other: a chain.
ChainOK ==
    \A t \in Txn : \A a, b \in ancestors[t] :
        a = b \/ a \in ancestors[b] \/ b \in ancestors[a]

\* The inductive invariant.
Inv == TypeOK /\ TreeOK /\ ChainOK /\ LocksCompatible

Related(t, u) == t \in ancestors[u] \/ u \in ancestors[t]

-----------------------------------------------------------------------------
\* The image a set of transactions would restore is one that a member saved.
LEMMA ImageFacts ==
  ASSUME TypeOK, NEW S \in SUBSET Txn, NEW k \in Key
  PROVE  /\ ImageOf(S, k) \in Val \cup {NoImage}
         /\ ImageOf(S, k) # NoImage => \E h \in S : WriteLocked(h, k)
<1>1. CASE \E h \in S : Outermost(S, h, k)
  <2> DEFINE h == CHOOSE h \in S : Outermost(S, h, k)
  <2>1. h \in S /\ Outermost(S, h, k)
    BY <1>1
  <2>2. ImageOf(S, k) = before[h][k]
    BY <1>1 DEF ImageOf
  <2> QED BY <2>1, <2>2 DEF TypeOK, Outermost
<1>2. CASE ~\E h \in S : Outermost(S, h, k)
  BY <1>2 DEF ImageOf
<1> QED BY <1>1, <1>2

\* A family consists of live transactions when its root is live.
LEMMA FamilyFacts ==
  ASSUME NEW t \in Txn, Running(t)
  PROVE  /\ Family(t) \subseteq Txn
         /\ t \in Family(t)
         /\ \A u \in Family(t) : Running(u) /\ (u = t \/ t \in ancestors[u])
         /\ \A u \in Txn : Running(u) /\ t \in ancestors[u] => u \in Family(t)
BY DEF Family, Descendants

\* What survives a commit is a part of the family.
LEMMA KeptFacts ==
  ASSUME NEW t \in Txn
  PROVE  Kept(t) \subseteq Family(t)
BY DEF Kept

\* A live relative of a member of t's family that is outside the family is an
\* ancestor of t.
LEMMA OutsideRelative ==
  ASSUME Inv, NEW t \in Txn, Running(t), NEW h \in Family(t),
         NEW x \in Txn, x \notin Family(t), Running(x), Related(x, h)
  PROVE  x \in ancestors[t]
<1>1. h \in Txn /\ Running(h) /\ (h = t \/ t \in ancestors[h])
  BY FamilyFacts
<1>2. t \notin ancestors[x]
  BY FamilyFacts
<1>3. h \notin ancestors[x]
  BY <1>1, <1>2 DEF Inv, TreeOK
<1>4. x \in ancestors[h]
  BY <1>3 DEF Related
<1>5. CASE h = t
  BY <1>4, <1>5
<1>6. CASE t \in ancestors[h]
  <2>1. x = t \/ x \in ancestors[t] \/ t \in ancestors[x]
    BY <1>1, <1>4, <1>6 DEF Inv, ChainOK
  <2> QED BY <1>2, <2>1, FamilyFacts
<1> QED BY <1>1, <1>5, <1>6

-----------------------------------------------------------------------------
\* __txn_begin gives the new transaction a place in the forest.
LEMMA TxnBeginInv ==
  ASSUME Inv, NEW p \in Txn \cup {None}, TxnBegin(p)
  PROVE  Inv'
<1>0. PICK t \in Txn : t = lastTxnid + 1
  BY BoundAssumption DEF TxnBegin, Inv, TypeOK, Txn
<1>1. /\ lastTxnid \in Nat /\ lastTxnid < MaxTxn /\ t \in Txn /\ lastTxnid' = t
      /\ t > lastTxnid
  BY <1>0, BoundAssumption DEF TxnBegin, Inv, TypeOK, Txn
<1>2. /\ status' = [status EXCEPT ![t] = "running"]
      /\ ancestors' = [ancestors EXCEPT ![t] = IF p = None THEN {} ELSE {p} \cup ancestors[p]]
      /\ UNCHANGED <<deadlock, cursors, readLocks, before, store, panic>>
  BY <1>0 DEF TxnBegin
<1>3. p # None => p \in Txn /\ Running(p) /\ p < t
  <2> SUFFICES ASSUME p # None PROVE p \in Txn /\ Running(p) /\ p < t
    OBVIOUS
  <2>1. p \in Txn /\ Running(p)
    BY DEF TxnBegin
  <2>2. ~(p > lastTxnid)
    BY <2>1 DEF Inv, TreeOK, Running
  <2> QED BY <1>1, <2>1, <2>2 DEF Txn
<1>4. TypeOK'
  BY <1>1, <1>2, <1>3 DEF Inv, TypeOK, Txn
<1>5. /\ ~Running(t) /\ ancestors[t] = {} /\ readLocks[t] = {} /\ before[t] = Clean
      /\ cursors[t] = 0
  BY <1>1 DEF Inv, TreeOK, Running
<1>6. \A u \in Txn : t \notin ancestors[u]
  BY <1>1 DEF Inv, TreeOK, TypeOK, Txn
<1>7. /\ \A u \in Txn : u # t => ancestors'[u] = ancestors[u] /\ status'[u] = status[u]
      /\ status'[t] = "running"
      /\ ancestors'[t] = IF p = None THEN {} ELSE {p} \cup ancestors[p]
  BY <1>1, <1>2 DEF Inv, TypeOK
<1>8. \A a \in ancestors'[t] : a \in Txn /\ a # t /\ a < t /\ Running(a)
                                 /\ ancestors[a] \subseteq ancestors'[t]
  <2> SUFFICES ASSUME p # None, NEW a \in {p} \cup ancestors[p]
               PROVE  a \in Txn /\ a # t /\ a < t /\ Running(a)
                      /\ ancestors[a] \subseteq {p} \cup ancestors[p]
    BY <1>7
  <2>1. CASE a = p
    BY <1>1, <1>3, <2>1 DEF Txn
  <2>2. CASE a \in ancestors[p]
    <3>1. a \in Txn /\ a < p /\ ancestors[a] \subseteq ancestors[p] /\ Running(a)
      BY <1>3, <2>2 DEF Inv, TreeOK, TypeOK
    <3> QED BY <1>1, <1>3, <3>1 DEF Txn
  <2> QED BY <2>1, <2>2
<1>9. TreeOK'
  <2> SUFFICES ASSUME NEW u \in Txn
               PROVE  /\ \A a \in ancestors'[u] : a < u /\ ancestors'[a] \subseteq ancestors'[u]
                      /\ Running(u)' => \A a \in ancestors'[u] : Running(a)'
                      /\ ~Running(u)' => readLocks'[u] = {} /\ before'[u] = Clean
                                          /\ cursors'[u] = 0
                      /\ u > lastTxnid' <=> status'[u] = "unused"
                      /\ u > lastTxnid' => ancestors'[u] = {}
    BY DEF TreeOK, Clean
  <2>1. CASE u = t
    <3>1. \A a \in ancestors'[t] : a < t /\ ancestors'[a] \subseteq ancestors'[t] /\ Running(a)'
      BY <1>7, <1>8 DEF Running
    <3>2. Running(t)' /\ status'[t] # "unused"
      BY <1>7 DEF Running
    <3>3. ~(t > lastTxnid')
      BY <1>1 DEF Txn
    <3> QED BY <2>1, <3>1, <3>2, <3>3
  <2>2. CASE u # t
    <3>1. \A a \in ancestors[u] : a \in Txn /\ a # t
      BY <1>6 DEF Inv, TypeOK
    <3>2. u > lastTxnid' <=> u > lastTxnid
      BY <1>0, <1>1, <2>2 DEF Txn
    <3>3. /\ \A a \in ancestors[u] : a < u /\ ancestors[a] \subseteq ancestors[u]
          /\ Running(u) => \A a \in ancestors[u] : Running(a)
          /\ ~Running(u) => readLocks[u] = {} /\ before[u] = Clean /\ cursors[u] = 0
          /\ u > lastTxnid <=> status[u] = "unused"
          /\ u > lastTxnid => ancestors[u] = {}
      BY DEF Inv, TreeOK
    <3> QED BY <1>2, <1>7, <2>2, <3>1, <3>2, <3>3 DEF Running
  <2> QED BY <2>1, <2>2
<1>10. ChainOK'
  <2> SUFFICES ASSUME NEW u \in Txn, NEW a \in ancestors'[u], NEW b \in ancestors'[u]
               PROVE  a = b \/ a \in ancestors'[b] \/ b \in ancestors'[a]
    BY DEF ChainOK
  <2>1. a \in Txn /\ b \in Txn /\ a # t /\ b # t
    <3>1. CASE u = t
      BY <1>8, <3>1
    <3>2. CASE u # t
      BY <1>6, <1>7, <3>2 DEF Inv, TypeOK
    <3> QED BY <3>1, <3>2
  <2>2. a = b \/ a \in ancestors[b] \/ b \in ancestors[a]
    <3>1. CASE u = t
      BY <1>3, <1>7, <3>1 DEF Inv, ChainOK
    <3>2. CASE u # t
      BY <1>7, <3>2 DEF Inv, ChainOK
    <3> QED BY <3>1, <3>2
  <2> QED BY <1>7, <2>1, <2>2
<1>11. LocksCompatible'
  <2> SUFFICES ASSUME NEW x \in Txn, NEW y \in Txn, NEW k \in Key, x # y,
                      WriteLocked(x, k)', WriteLocked(y, k)' \/ k \in readLocks'[y]
               PROVE  Related(x, y)'
    BY DEF LocksCompatible, Related
  <2>1. WriteLocked(x, k) /\ (WriteLocked(y, k) \/ k \in readLocks[y])
    BY <1>2 DEF WriteLocked
  <2>2. x # t /\ y # t
    BY <1>5, <2>1 DEF WriteLocked, Clean
  <2> QED BY <1>7, <2>1, <2>2 DEF Inv, LocksCompatible, Related
<1> QED BY <1>4, <1>9, <1>10, <1>11 DEF Inv

\* The operations on records and cursors: the forest stays as it is, and the
\* locks only grow by one that was granted.
LEMMA OperationInv ==
  ASSUME Inv, NEW t \in Txn, Running(t),
         UNCHANGED <<lastTxnid, status, ancestors, panic>>,
         deadlock' \in [Txn -> BOOLEAN],
         cursors' \in [Txn -> 0..MaxCursors],
         readLocks' \in [Txn -> SUBSET Key],
         before' \in [Txn -> [Key -> Val \cup {NoImage}]],
         store' \in [Key -> Val],
         \A u \in Txn : u # t => /\ cursors'[u] = cursors[u]
                                 /\ readLocks'[u] = readLocks[u]
                                 /\ before'[u] = before[u],
         \A u \in Txn, k \in Key :
           Stranger(t, u) =>
             /\ WriteLocked(t, k)' =>
                  WriteLocked(t, k) \/ (~WriteLocked(u, k) /\ k \notin readLocks[u])
             /\ k \in readLocks'[t] => k \in readLocks[t] \/ ~WriteLocked(u, k)
  PROVE  Inv'
<1>1. TypeOK'
  BY DEF Inv, TypeOK
<1>2. TreeOK'
  <2>1. \A u \in Txn : ~Running(u) => u # t
    OBVIOUS
  <2> QED BY <2>1 DEF Inv, TreeOK, Running, Clean
<1>3. ChainOK'
  BY DEF Inv, ChainOK
<1>4. LocksCompatible'
  <2> SUFFICES ASSUME NEW x \in Txn, NEW y \in Txn, NEW k \in Key, x # y,
                      WriteLocked(x, k)', WriteLocked(y, k)' \/ k \in readLocks'[y]
               PROVE  Related(x, y)
    BY DEF LocksCompatible, Related
  <2>1. CASE x # t /\ y # t
    BY <2>1 DEF Inv, LocksCompatible, Related, WriteLocked
  <2>2. CASE x = t
    <3>1. WriteLocked(y, k) \/ k \in readLocks[y]
      BY <2>2 DEF WriteLocked
    <3>2. CASE Stranger(t, y)
      <4>1. WriteLocked(x, k)
        BY <2>2, <3>1, <3>2
      <4> QED BY <3>1, <4>1 DEF Inv, LocksCompatible, Related
    <3> QED BY <2>2, <3>2 DEF Stranger, Related
  <2>3. CASE y = t
    <3>1. WriteLocked(x, k)
      BY <2>3 DEF WriteLocked
    <3>2. CASE Stranger(t, x)
      <4>1. WriteLocked(y, k) \/ k \in readLocks[y]
        BY <2>3, <3>1, <3>2
      <4> QED BY <3>1, <4>1 DEF Inv, LocksCompatible, Related
    <3> QED BY <2>3, <3>2 DEF Stranger, Related
  <2> QED BY <2>1, <2>2, <2>3
<1> QED BY <1>1, <1>2, <1>3, <1>4 DEF Inv

\* DB->put: the write lock has been granted against every stranger.
LEMMA DbPutInv ==
  ASSUME Inv, NEW t \in Txn, NEW k \in Key, NEW v \in Val, DbPut(t, k, v)
  PROVE  Inv'
<1>1. /\ Running(t) /\ GrantWrite(t, k)
      /\ store' = [store EXCEPT ![k] = v]
      /\ before' = [before EXCEPT ![t][k] = IF WriteLocked(t, k) THEN @ ELSE store[k]]
      /\ UNCHANGED <<lastTxnid, status, ancestors, deadlock, cursors, readLocks, panic>>
  BY DEF DbPut, MayUse
<1>2. /\ before' \in [Txn -> [Key -> Val \cup {NoImage}]]
      /\ \A u \in Txn : u # t => before'[u] = before[u]
      /\ \A j \in Key : j # k => before'[t][j] = before[t][j]
  BY <1>1 DEF Inv, TypeOK
<1>3. \A u \in Txn, j \in Key : Stranger(t, u) /\ WriteLocked(t, j)' =>
        WriteLocked(t, j) \/ (~WriteLocked(u, j) /\ j \notin readLocks[u])
  BY <1>1, <1>2 DEF GrantWrite, WriteConflict, WriteLocked
<1> QED BY <1>1, <1>2, <1>3, OperationInv DEF Inv, TypeOK

\* DB->get: the read lock has been granted against every writing stranger.
LEMMA DbGetInv ==
  ASSUME Inv, NEW t \in Txn, NEW k \in Key, DbGet(t, k)
  PROVE  Inv'
<1>1. /\ Running(t) /\ GrantRead(t, k)
      /\ readLocks' = [readLocks EXCEPT ![t] = @ \cup {k}]
      /\ UNCHANGED <<lastTxnid, status, ancestors, deadlock, cursors, before, store, panic>>
  BY DEF DbGet, MayUse
<1>2. /\ readLocks' \in [Txn -> SUBSET Key]
      /\ \A u \in Txn : u # t => readLocks'[u] = readLocks[u]
      /\ readLocks'[t] = readLocks[t] \cup {k}
  BY <1>1 DEF Inv, TypeOK
<1>3. \A u \in Txn, j \in Key : Stranger(t, u) =>
        /\ WriteLocked(t, j)' => WriteLocked(t, j)
        /\ j \in readLocks'[t] => j \in readLocks[t] \/ ~WriteLocked(u, j)
  BY <1>1, <1>2 DEF GrantRead, ReadConflict, WriteLocked
<1> QED BY <1>1, <1>2, <1>3, OperationInv DEF Inv, TypeOK

\* A refused lock and the calls on cursors leave the lock table alone.
LEMMA QuietInv ==
  ASSUME Inv, NEW t \in Txn,
         (\E k \in Key : LockRefused(t, k)) \/ CursorOpen(t) \/ CursorClose(t)
  PROVE  Inv'
<1>1. /\ Running(t)
      /\ UNCHANGED <<lastTxnid, status, ancestors, readLocks, before, store, panic>>
      /\ \/ deadlock' = [deadlock EXCEPT ![t] = TRUE] /\ cursors' = cursors
         \/ /\ cursors[t] < MaxCursors /\ deadlock' = deadlock
            /\ cursors' = [cursors EXCEPT ![t] = @ + 1]
         \/ /\ cursors[t] > 0 /\ deadlock' = deadlock
            /\ cursors' = [cursors EXCEPT ![t] = @ - 1]
  BY DEF LockRefused, CursorOpen, CursorClose, MayUse
<1>2. deadlock' \in [Txn -> BOOLEAN]
  BY <1>1 DEF Inv, TypeOK
<1>3. /\ cursors' \in [Txn -> 0..MaxCursors]
      /\ \A u \in Txn : u # t => cursors'[u] = cursors[u]
  BY <1>1, BoundAssumption DEF Inv, TypeOK
<1>4. \A u \in Txn, k \in Key : Stranger(t, u) =>
        /\ WriteLocked(t, k)' => WriteLocked(t, k)
        /\ k \in readLocks'[t] => k \in readLocks[t]
  BY <1>1 DEF WriteLocked
<1> QED BY <1>1, <1>2, <1>3, <1>4, OperationInv DEF Inv, TypeOK

-----------------------------------------------------------------------------
\* What the undone and the inherited log records look like.
LEMMA RecordFacts ==
  ASSUME TypeOK, StoreAssumption, NEW S \in SUBSET Txn
  PROVE  /\ Undone(S) \in [Key -> Val]
         /\ \A u \in Txn : Inherited(u, S) \in [Key -> Val \cup {NoImage}]
         /\ \A u \in Txn, k \in Key :
              Inherited(u, S)[k] # NoImage =>
                WriteLocked(u, k) \/ \E h \in S : WriteLocked(h, k)
<1>1. \A k \in Key : /\ ImageOf(S, k) \in Val \cup {NoImage}
                     /\ ImageOf(S, k) # NoImage => \E h \in S : WriteLocked(h, k)
  BY ImageFacts
<1>2. Undone(S) \in [Key -> Val]
  BY <1>1 DEF Undone, TypeOK
<1>3. ASSUME NEW u \in Txn
      PROVE  Inherited(u, S) \in [Key -> Val \cup {NoImage}]
  BY <1>1 DEF Inherited, TypeOK
<1>4. ASSUME NEW u \in Txn, NEW k \in Key, Inherited(u, S)[k] # NoImage
      PROVE  WriteLocked(u, k) \/ \E h \in S : WriteLocked(h, k)
  BY <1>1, <1>4 DEF Inherited
<1> QED BY <1>2, <1>3, <1>4

\* __txn_end, for a transaction and the descendants that end with it: the
\* family leaves the forest with nothing in its hands, and a lock that goes to
\* the parent goes to an ancestor of whoever held it.
LEMMA EndFamilyInv ==
  ASSUME Inv, NEW t \in Txn, Running(t), ~OpenCursors(t),
         NEW kept \in SUBSET Family(t), EndFamily(t, kept)
  PROVE  Inv'
<1> DEFINE F == Family(t)
           Heir(p) == kept # {} /\ IsParent(p, t)
<1>1. /\ F \subseteq Txn /\ kept \subseteq Txn /\ t \in F
      /\ \A u \in F : Running(u) /\ (u = t \/ t \in ancestors[u])
      /\ \A u \in Txn : Running(u) /\ t \in ancestors[u] => u \in F
  BY FamilyFacts
<1>2. /\ F \ kept \in SUBSET Txn /\ kept \in SUBSET Txn
  BY <1>1
<1>3. /\ UNCHANGED <<lastTxnid, ancestors, deadlock, cursors, panic>>
      /\ store' = Undone(F \ kept)
      /\ status' = [u \in Txn |-> CASE u \in kept -> "committed"
                                    [] u \in F \ kept -> "aborted"
                                    [] OTHER -> status[u]]
      /\ before' = [u \in Txn |-> CASE u \in F -> Clean
                                    [] u \notin F /\ Heir(u) -> Inherited(u, kept)
                                    [] OTHER -> before[u]]
      /\ readLocks' = [u \in Txn |-> CASE u \in F -> {}
                                       [] u \notin F /\ Heir(u) ->
                                            readLocks[u] \cup UNION {readLocks[c] : c \in kept}
                                       [] OTHER -> readLocks[u]]
  BY DEF EndFamily
<1>4. \A u \in F : cursors[u] = 0
  BY <1>1, BoundAssumption DEF OpenCursors, Inv, TypeOK
<1>5. \A u \in Txn : Heir(u) => u \in ancestors[t] /\ Running(u)
  BY DEF IsParent, Inv, TreeOK
<1>6. \A u \in F : /\ status'[u] \in {"committed", "aborted"}
                   /\ before'[u] = Clean /\ readLocks'[u] = {}
  BY <1>1, <1>3
<1>7. \A u \in Txn \ F :
        /\ status'[u] = status[u]
        /\ before'[u] = IF Heir(u) THEN Inherited(u, kept) ELSE before[u]
        /\ readLocks'[u] = IF Heir(u) THEN readLocks[u] \cup UNION {readLocks[c] : c \in kept}
                                      ELSE readLocks[u]
  BY <1>3
<1>8. TypeOK'
  <2>1. status' \in [Txn -> {"unused", "running", "committed", "aborted"}]
    BY <1>3 DEF Inv, TypeOK
  <2>2. Undone(F \ kept) \in [Key -> Val]
    BY <1>2, RecordFacts, StoreAssumption DEF Inv
  <2>3. \A u \in Txn : Inherited(u, kept) \in [Key -> Val \cup {NoImage}]
    BY <1>2, RecordFacts, StoreAssumption DEF Inv
  <2>4. before' \in [Txn -> [Key -> Val \cup {NoImage}]]
    <3>1. Clean \in [Key -> Val \cup {NoImage}]
      BY DEF Clean
    <3> QED BY <1>3, <2>3, <3>1 DEF Inv, TypeOK
  <2>5. readLocks' \in [Txn -> SUBSET Key]
    BY <1>1, <1>3 DEF Inv, TypeOK
  <2> QED BY <1>3, <2>1, <2>2, <2>4, <2>5 DEF Inv, TypeOK
<1>9. TreeOK'
  <2> SUFFICES ASSUME NEW u \in Txn
               PROVE  /\ \A a \in ancestors[u] : a < u /\ ancestors[a] \subseteq ancestors[u]
                      /\ Running(u)' => \A a \in ancestors[u] : Running(a)'
                      /\ ~Running(u)' => readLocks'[u] = {} /\ before'[u] = Clean
                                          /\ cursors'[u] = 0
                      /\ u > lastTxnid <=> status'[u] = "unused"
                      /\ u > lastTxnid => ancestors[u] = {}
    BY <1>3 DEF TreeOK, Clean
  <2>1. /\ \A a \in ancestors[u] : a \in Txn /\ a < u /\ ancestors[a] \subseteq ancestors[u]
        /\ Running(u) => \A a \in ancestors[u] : Running(a)
        /\ ~Running(u) => readLocks[u] = {} /\ before[u] = Clean /\ cursors[u] = 0
        /\ u > lastTxnid <=> status[u] = "unused"
        /\ u > lastTxnid => ancestors[u] = {}
    BY DEF Inv, TreeOK, TypeOK
  <2>2. CASE u \in F
    BY <1>1, <1>3, <1>4, <1>6, <2>1, <2>2 DEF Running
  <2>3. CASE u \notin F
    <3>1. status'[u] = status[u]
      BY <1>7, <2>3
    <3>2. Running(u)' => \A a \in ancestors[u] : Running(a)'
      <4> SUFFICES ASSUME Running(u), NEW a \in ancestors[u]
                   PROVE  Running(a)'
        BY <3>1 DEF Running
      <4>1. a \in Txn /\ Running(a) /\ ancestors[a] \subseteq ancestors[u]
        BY <2>1
      <4>2. a \notin F
        BY <1>1, <2>3, <4>1
      <4> QED BY <1>7, <4>1, <4>2 DEF Running
    <3>3. ~Running(u)' => readLocks'[u] = {} /\ before'[u] = Clean /\ cursors'[u] = 0
      <4>1. ~Running(u) => ~Heir(u)
        BY <1>5
      <4> QED BY <1>3, <1>7, <2>1, <2>3, <3>1, <4>1 DEF Running
    <3> QED BY <2>1, <3>1, <3>2, <3>3
  <2> QED BY <2>2, <2>3
<1>10. ChainOK'
  BY <1>3 DEF Inv, ChainOK
<1>11. LocksCompatible'
  <2> SUFFICES ASSUME NEW x \in Txn, NEW y \in Txn, NEW k \in Key, x # y,
                      WriteLocked(x, k)', WriteLocked(y, k)' \/ k \in readLocks'[y]
               PROVE  Related(x, y)
    BY <1>3 DEF LocksCompatible, Related
  <2>1. x \notin F /\ y \notin F
    BY <1>6 DEF WriteLocked, Clean
  <2>2. \A u \in Txn : Inherited(u, kept)[k] # NoImage =>
            WriteLocked(u, k) \/ \E h \in kept : WriteLocked(h, k)
    BY <1>2, RecordFacts, StoreAssumption DEF Inv
  <2>3. \/ WriteLocked(x, k)
        \/ Heir(x) /\ \E h \in kept : WriteLocked(h, k)
    BY <1>7, <2>1, <2>2 DEF WriteLocked
  <2>4. \/ WriteLocked(y, k) \/ k \in readLocks[y]
        \/ Heir(y) /\ \E h \in kept : WriteLocked(h, k) \/ k \in readLocks[h]
    <3>1. CASE WriteLocked(y, k)'
      BY <1>7, <2>1, <2>2, <3>1 DEF WriteLocked
    <3>2. CASE k \in readLocks'[y]
      <4>1. readLocks'[y] = IF Heir(y) THEN readLocks[y] \cup UNION {readLocks[c] : c \in kept}
                                       ELSE readLocks[y]
        BY <1>7, <2>1
      <4> QED BY <3>2, <4>1
    <3> QED BY <3>1, <3>2
  <2>5. x \in ancestors[t] /\ y \in ancestors[t] => Related(x, y)
    BY DEF Inv, ChainOK, Related
  <2>6. CASE WriteLocked(x, k) /\ (WriteLocked(y, k) \/ k \in readLocks[y])
    BY <2>6 DEF Inv, LocksCompatible, Related
  <2>7. CASE Heir(x) /\ Heir(y)
    BY <1>5, <2>5, <2>7
  <2>8. ASSUME Heir(x), NEW h \in kept, WriteLocked(h, k),
               WriteLocked(y, k) \/ k \in readLocks[y]
        PROVE  Related(x, y)
    <3>1. h \in F /\ h \in Txn /\ h # y
      BY <1>1, <2>1
    <3>2. Related(y, h)
      BY <2>8, <3>1 DEF Inv, LocksCompatible, Related
    <3>3. Running(y)
      BY <2>8 DEF Inv, TreeOK, WriteLocked, Clean
    <3>4. y \in ancestors[t]
      BY <2>1, <3>1, <3>2, <3>3, OutsideRelative
    <3> QED BY <1>5, <2>5, <2>8, <3>4
  <2>9. ASSUME Heir(y), NEW h \in kept, WriteLocked(h, k) \/ k \in readLocks[h],
               WriteLocked(x, k)
        PROVE  Related(x, y)
    <3>1. h \in F /\ h \in Txn /\ h # x
      BY <1>1, <2>1
    <3>2. Related(x, h)
      BY <2>9, <3>1 DEF Inv, LocksCompatible, Related
    <3>3. Running(x)
      BY <2>9 DEF Inv, TreeOK, WriteLocked, Clean
    <3>4. x \in ancestors[t]
      BY <2>1, <3>1, <3>2, <3>3, OutsideRelative
    <3> QED BY <1>5, <2>5, <2>9, <3>4
  <2> QED BY <2>3, <2>4, <2>6, <2>7, <2>8, <2>9
<1> QED BY <1>8, <1>9, <1>10, <1>11 DEF Inv

\* __txn_commit and __txn_abort end a part of the family each way.
LEMMA ResolveInv ==
  ASSUME Inv, NEW t \in Txn, TxnCommit(t) \/ TxnAbort(t)
  PROVE  Inv'
<1>1. Running(t) /\ ~OpenCursors(t) /\ (EndFamily(t, Kept(t)) \/ EndFamily(t, {}))
  BY DEF TxnCommit, TxnAbort
<1>2. CASE EndFamily(t, Kept(t))
  BY <1>1, <1>2, KeptFacts, EndFamilyInv
<1>3. CASE EndFamily(t, {})
  <2>1. {} \in SUBSET Family(t)
    OBVIOUS
  <2> QED BY <1>1, <1>3, <2>1, EndFamilyInv
<1> QED BY <1>1, <1>2, <1>3

\* Nothing the invariant speaks of changes when only the panic flag does.
LEMMA UnchangedInv ==
  ASSUME Inv, panic' \in BOOLEAN,
         UNCHANGED <<lastTxnid, status, ancestors, deadlock, cursors, readLocks, before, store>>
  PROVE  Inv'
<1>1. TypeOK'
  BY DEF Inv, TypeOK
<1>2. TreeOK'
  BY DEF Inv, TreeOK, Running, Clean
<1>3. ChainOK'
  BY DEF Inv, ChainOK
<1>4. LocksCompatible'
  BY DEF Inv, LocksCompatible, WriteLocked
<1> QED BY <1>1, <1>2, <1>3, <1>4 DEF Inv

\* The environment is opened with no transaction and no lock.
LEMMA InitInv == Init => Inv
<1> SUFFICES ASSUME Init PROVE Inv
  OBVIOUS
<1>1. TypeOK
  <2>1. before \in [Txn -> [Key -> Val \cup {NoImage}]]
    <3>1. Clean \in [Key -> Val \cup {NoImage}]
      BY DEF Clean
    <3> QED BY <3>1 DEF Init
  <2>2. lastTxnid \in 0..MaxTxn /\ cursors \in [Txn -> 0..MaxCursors]
    BY BoundAssumption DEF Init, None
  <2> QED BY StoreAssumption, <2>1, <2>2 DEF Init, TypeOK
<1>2. TreeOK
  BY DEF Init, TreeOK, Running, Txn, None
<1>3. ChainOK
  BY DEF Init, ChainOK
<1>4. LocksCompatible
  BY DEF Init, LocksCompatible, WriteLocked, Clean
<1> QED BY <1>1, <1>2, <1>3, <1>4 DEF Inv

\* Every step of the environment preserves the invariant.
LEMMA NextInv == Inv /\ [Next]_vars => Inv'
<1> SUFFICES ASSUME Inv, [Next]_vars PROVE Inv'
  OBVIOUS
<1>1. ASSUME NEW p \in Txn \cup {None}, TxnBegin(p) PROVE Inv'
  BY <1>1, TxnBeginInv
<1>2. ASSUME NEW t \in Txn, NEW k \in Key, NEW v \in Val, DbPut(t, k, v) PROVE Inv'
  BY <1>2, DbPutInv
<1>3. ASSUME NEW t \in Txn, NEW k \in Key, DbGet(t, k) PROVE Inv'
  BY <1>3, DbGetInv
<1>4. ASSUME NEW t \in Txn, NEW k \in Key, LockRefused(t, k) PROVE Inv'
  BY <1>4, QuietInv
<1>5. ASSUME NEW t \in Txn, CursorOpen(t) \/ CursorClose(t) PROVE Inv'
  BY <1>5, QuietInv
<1>6. ASSUME NEW t \in Txn, TxnCommit(t) \/ TxnAbort(t) PROVE Inv'
  BY <1>6, ResolveInv
<1>7. ASSUME NEW t \in Txn, Panic(t) PROVE Inv'
  BY <1>7, UnchangedInv DEF Panic
<1>8. CASE UNCHANGED vars
  BY <1>8, UnchangedInv DEF vars, Inv, TypeOK
<1> QED BY <1>1, <1>2, <1>3, <1>4, <1>5, <1>6, <1>7, <1>8 DEF Next

\* The invariant holds in every reachable state.
THEOREM InvTheorem == Spec => []Inv
BY InitInv, NextInv, PTL DEF Spec

\* No sequence of the calls of txn.c and lock.c leaves a variable outside its
\* type, whatever the number of transactions, records and cursors.
THEOREM TypeCorrect == Spec => []TypeOK
<1>1. Inv => TypeOK
  BY DEF Inv
<1> QED BY <1>1, InvTheorem, PTL

\* The live transactions form a forest in which a parent outlives its kids, and
\* one that has ended has left no lock, log record or cursor (__txn_end).
THEOREM TreeTheorem == Spec => []TreeOK
<1>1. Inv => TreeOK
  BY DEF Inv
<1> QED BY <1>1, InvTheorem, PTL

\* Through any nesting, inheritance and undo, a write lock never stands next to
\* a lock of a transaction that is no relative of its holder
\* (__lock_get_internal, __lock_inherit_locks, __lock_vec).
THEOREM LocksTheorem == Spec => []LocksCompatible
<1>1. Inv => LocksCompatible
  BY DEF Inv
<1> QED BY <1>1, InvTheorem, PTL

-----------------------------------------------------------------------------
\* What RepeatableRead asks of one step.
RepeatableStep ==
    \A t \in Txn, k \in Key :
      Running(t) /\ k \in readLocks[t] /\ status'[t] = "running" /\ store'[k] # store[k]
      => \E u \in Txn : /\ u = t \/ u \in ancestors[t] \/ t \in ancestors[u]
                        /\ before'[u][k] # NoImage \/ WriteLocked(u, k)

\* A write changes only the record it names, under the writer's own lock.
LEMMA DbPutRepeatable ==
  ASSUME Inv, NEW u \in Txn, NEW j \in Key, NEW v \in Val, DbPut(u, j, v)
  PROVE  RepeatableStep
<1> SUFFICES ASSUME NEW t \in Txn, NEW k \in Key, k \in readLocks[t], store'[k] # store[k]
             PROVE  /\ u = t \/ u \in ancestors[t] \/ t \in ancestors[u]
                    /\ before'[u][k] # NoImage
  BY DEF RepeatableStep
<1>1. k = j
  BY DEF DbPut, Inv, TypeOK
<1>2. before'[u][k] # NoImage
  BY <1>1, StoreAssumption DEF DbPut, WriteLocked, Inv, TypeOK
<1>3. Inv'
  BY DbPutInv
<1>4. UNCHANGED <<ancestors, readLocks>>
  BY DEF DbPut
<1>5. CASE u # t
  <2>1. WriteLocked(u, k)' /\ k \in readLocks'[t]
    BY <1>2, <1>4 DEF WriteLocked
  <2>2. t \in ancestors'[u] \/ u \in ancestors'[t]
    BY <1>3, <1>5, <2>1 DEF Inv, LocksCompatible
  <2> QED BY <1>2, <1>4, <2>2
<1> QED BY <1>2, <1>5

\* Undoing a family changes only records a member of it has write locked.
LEMMA EndFamilyRepeatable ==
  ASSUME Inv, NEW r \in Txn, Running(r), NEW kept \in SUBSET Family(r), EndFamily(r, kept)
  PROVE  RepeatableStep
<1> SUFFICES ASSUME NEW t \in Txn, NEW k \in Key, k \in readLocks[t], store'[k] # store[k]
             PROVE  \E u \in Txn : /\ u = t \/ u \in ancestors[t] \/ t \in ancestors[u]
                                   /\ WriteLocked(u, k)
  BY DEF RepeatableStep
<1>1. Family(r) \ kept \in SUBSET Txn
  BY FamilyFacts
<1>2. store' = Undone(Family(r) \ kept)
  BY DEF EndFamily
<1>3. ImageOf(Family(r) \ kept, k) # NoImage
  BY <1>2 DEF Undone
<1>4. PICK h \in Txn : WriteLocked(h, k)
  BY <1>1, <1>3, ImageFacts DEF Inv
<1>5. h = t \/ h \in ancestors[t] \/ t \in ancestors[h]
  BY <1>4 DEF Inv, LocksCompatible
<1> QED BY <1>4, <1>5

\* What a transaction has read stays as it was until the transaction ends,
\* unless the transaction, an ancestor or a descendant changed it (degree 3
\* isolation: __db_lput keeps the read locks of a transaction).
THEOREM RepeatableReadTheorem == Spec => RepeatableRead
<1>1. Inv /\ [Next]_vars => [RepeatableStep]_vars
  <2> SUFFICES ASSUME Inv, Next PROVE RepeatableStep
    OBVIOUS
  <2>1. CASE store' = store
    BY <2>1 DEF RepeatableStep
  <2>2. ASSUME NEW t \in Txn, NEW k \in Key, NEW v \in Val, DbPut(t, k, v) PROVE RepeatableStep
    BY <2>2, DbPutRepeatable
  <2>3. ASSUME NEW t \in Txn, TxnCommit(t) PROVE RepeatableStep
    BY <2>3, KeptFacts, EndFamilyRepeatable DEF TxnCommit
  <2>4. ASSUME NEW t \in Txn, TxnAbort(t) PROVE RepeatableStep
    <3>1. {} \in SUBSET Family(t)
      OBVIOUS
    <3> QED BY <2>4, <3>1, EndFamilyRepeatable DEF TxnAbort
  <2>5. store' = store \/ (\E t \in Txn, k \in Key, v \in Val : DbPut(t, k, v))
                       \/ (\E t \in Txn : TxnCommit(t) \/ TxnAbort(t))
    BY DEF Next, TxnBegin, DbGet, LockRefused, CursorOpen, CursorClose, Panic
  <2> QED BY <2>1, <2>2, <2>3, <2>4, <2>5
<1> QED BY <1>1, InvTheorem, PTL DEF Spec, RepeatableRead, RepeatableStep

-----------------------------------------------------------------------------
(* The refinement of AtomicStore, for an application that leaves a parent   *)
(* alone while it has active kids.                                          *)

\* A transaction that is not a root has a parent.
ParentOK == \A t \in Txn : ancestors[t] # {} => \E p \in ancestors[t] : IsParent(p, t)

\* Between a live transaction and an ancestor of it there is a kid of the
\* ancestor.
KidsOK ==
    \A t, c \in Txn : Running(c) /\ t \in ancestors[c] =>
        \E d \in Txn : Running(d) /\ IsParent(t, d) /\ (d = c \/ d \in ancestors[c])

\* The invariant of the refinement.
TreeInv == Inv /\ ParentOK /\ KidsOK

LEMMA InitTree == Init => TreeInv
BY InitInv DEF Init, TreeInv, ParentOK, KidsOK

\* __txn_begin puts a transaction below its parent.
LEMMA TxnBeginTree ==
  ASSUME TreeInv, NEW p \in Txn \cup {None}, TxnBegin(p)
  PROVE  ParentOK' /\ KidsOK'
<1>1. PICK t : t = lastTxnid + 1
  OBVIOUS
<1>2. /\ t \in Txn /\ t > lastTxnid /\ p # t
      /\ status' = [status EXCEPT ![t] = "running"]
      /\ ancestors' = [ancestors EXCEPT ![t] = IF p = None THEN {} ELSE {p} \cup ancestors[p]]
      /\ p # None => Running(p)
  <2>1. t \in Txn /\ t > lastTxnid
    BY <1>1, BoundAssumption DEF TxnBegin, TreeInv, Inv, TypeOK, Txn
  <2>2. p # None => Running(p) /\ p \in Txn
    BY DEF TxnBegin
  <2>3. p # t
    BY <2>1, <2>2 DEF TreeInv, Inv, TreeOK, Running, None, Txn
  <2> QED BY <1>1, <2>1, <2>2, <2>3 DEF TxnBegin
<1>3. /\ \A u \in Txn : u # t => ancestors'[u] = ancestors[u] /\ status'[u] = status[u]
      /\ ancestors'[t] = IF p = None THEN {} ELSE {p} \cup ancestors[p]
      /\ status'[t] = "running"
  BY <1>2 DEF TreeInv, Inv, TypeOK
<1>4. \A u \in Txn : t \notin ancestors[u] /\ ancestors[u] \subseteq Txn
  BY <1>2 DEF TreeInv, Inv, TreeOK, TypeOK, Txn
<1>5. ASSUME NEW u \in Txn, ancestors'[u] # {}
      PROVE  \E q \in ancestors'[u] : IsParent(q, u)'
  <2>1. CASE u = t
    <3>1. p \in Txn /\ p \in ancestors'[t] /\ ancestors'[p] = ancestors[p]
      BY <1>2, <1>3, <1>5, <2>1
    <3> QED BY <1>3, <1>5, <2>1, <3>1 DEF IsParent
  <2>2. CASE u # t
    <3>1. PICK q \in ancestors[u] : ancestors[u] = {q} \cup ancestors[q]
      BY <1>3, <1>5, <2>2 DEF TreeInv, ParentOK, IsParent
    <3>2. ancestors'[u] = ancestors[u] /\ ancestors'[q] = ancestors[q]
      BY <1>3, <1>4, <2>2, <3>1
    <3> QED BY <3>1, <3>2 DEF IsParent
  <2> QED BY <2>1, <2>2
<1>6. ASSUME NEW a \in Txn, NEW c \in Txn, Running(c)', a \in ancestors'[c]
      PROVE  \E d \in Txn : (Running(d) /\ IsParent(a, d))' /\ (d = c \/ d \in ancestors'[c])
  <2>1. a # t /\ ancestors'[a] = ancestors[a]
    BY <1>2, <1>3, <1>4, <1>6
  <2>2. ASSUME NEW e \in Txn, e # t, Running(e), a \in ancestors[e], e = c \/ e \in ancestors'[c],
               ancestors[e] \subseteq ancestors'[c]
        PROVE  \E d \in Txn : (Running(d) /\ IsParent(a, d))' /\ (d = c \/ d \in ancestors'[c])
    <3>1. PICK d \in Txn : Running(d) /\ IsParent(a, d) /\ (d = e \/ d \in ancestors[e])
      BY <2>2 DEF TreeInv, KidsOK
    <3>2. d # t
      BY <1>4, <2>2, <3>1
    <3>3. (Running(d) /\ IsParent(a, d))'
      BY <1>3, <2>1, <3>1, <3>2 DEF Running, IsParent
    <3> QED BY <2>2, <3>1, <3>3
  <2>3. CASE c # t
    BY <1>3, <1>6, <2>2, <2>3 DEF Running
  <2>4. CASE c = t /\ a = p
    <3>1. (Running(t) /\ IsParent(a, t))'
      BY <1>3, <1>6, <2>1, <2>4 DEF Running, IsParent
    <3> QED BY <1>2, <2>4, <3>1
  <2>5. CASE c = t /\ a # p
    <3>1. p \in Txn /\ Running(p) /\ a \in ancestors[p] /\ p # t
          /\ ancestors'[c] = {p} \cup ancestors[p]
      BY <1>2, <1>3, <1>6, <2>5
    <3>2. p \in ancestors'[c] /\ ancestors[p] \subseteq ancestors'[c]
      BY <3>1
    <3> HIDE <2>5
    <3> QED BY <2>2, <3>1, <3>2
  <2> QED BY <2>3, <2>4, <2>5
<1> QED BY <1>5, <1>6 DEF ParentOK, KidsOK

\* The end of a family takes whole subtrees away.
LEMMA EndFamilyTree ==
  ASSUME TreeInv, NEW t \in Txn, Running(t), NEW kept \in SUBSET Family(t), EndFamily(t, kept)
  PROVE  ParentOK' /\ KidsOK'
<1>1. /\ ancestors' = ancestors
      /\ \A u \in Txn : u \notin Family(t) => status'[u] = status[u]
      /\ \A u \in Txn : u \in Family(t) => status'[u] \in {"committed", "aborted"}
  BY DEF EndFamily
<1>2. ParentOK'
  BY <1>1 DEF TreeInv, ParentOK, IsParent
<1>3. ASSUME NEW a \in Txn, NEW c \in Txn, Running(c)', a \in ancestors[c]
      PROVE  \E d \in Txn : Running(d)' /\ IsParent(a, d) /\ (d = c \/ d \in ancestors[c])
  <2>1. c \notin Family(t) /\ Running(c)
    BY <1>1, <1>3 DEF Running
  <2>2. PICK d \in Txn : Running(d) /\ IsParent(a, d) /\ (d = c \/ d \in ancestors[c])
    BY <1>3, <2>1 DEF TreeInv, KidsOK
  <2>3. d \notin Family(t)
    <3>1. t \notin ancestors[c] /\ c # t
      BY <2>1, FamilyFacts
    <3>2. d # c => ancestors[d] \subseteq ancestors[c]
      BY <2>2 DEF TreeInv, Inv, TreeOK
    <3> QED BY <2>2, <3>1, <3>2, FamilyFacts
  <2> QED BY <1>1, <2>2, <2>3 DEF Running
<1>4. KidsOK'
  BY <1>1, <1>3 DEF KidsOK, IsParent
<1> QED BY <1>2, <1>4

\* Every step preserves the invariant of the refinement.
LEMMA NextTree == TreeInv /\ [Next]_vars => TreeInv'
<1> SUFFICES ASSUME TreeInv, [Next]_vars PROVE TreeInv'
  OBVIOUS
<1>1. Inv'
  BY NextInv DEF TreeInv
<1>2. CASE UNCHANGED <<status, ancestors>>
  BY <1>1, <1>2 DEF TreeInv, ParentOK, KidsOK, IsParent, Running
<1>3. CASE \E p \in Txn \cup {None} : TxnBegin(p)
  BY <1>1, <1>3, TxnBeginTree DEF TreeInv
<1>4. CASE \E t \in Txn : TxnCommit(t)
  BY <1>1, <1>4, KeptFacts, EndFamilyTree DEF TreeInv, TxnCommit
<1>5. ASSUME NEW t \in Txn, TxnAbort(t) PROVE TreeInv'
  <2>1. {} \in SUBSET Family(t)
    OBVIOUS
  <2> QED BY <1>1, <1>5, <2>1, EndFamilyTree DEF TreeInv, TxnAbort
<1> QED BY <1>2, <1>3, <1>4, <1>5
        DEF Next, vars, DbPut, DbGet, LockRefused, CursorOpen, CursorClose, Panic

\* The invariant of the refinement holds in every reachable state.
LEMMA TreeInvariance == Spec => []TreeInv
BY InitTree, NextTree, PTL DEF Spec

-----------------------------------------------------------------------------
\* The image of a record nobody in S has written.
LEMMA ImageNone ==
  ASSUME NEW S, NEW k, \A h \in S : ~WriteLocked(h, k)
  PROVE  ImageOf(S, k) = NoImage
BY DEF ImageOf, Outermost

\* The outermost writer is unique.
LEMMA ImageIs ==
  ASSUME Inv, NEW S \in SUBSET Txn, NEW k \in Key, NEW h \in S, Outermost(S, h, k)
  PROVE  ImageOf(S, k) = before[h][k] /\ ImageOf(S, k) # NoImage
<1> DEFINE g == CHOOSE g \in S : Outermost(S, g, k)
<1>1. g \in S /\ Outermost(S, g, k)
  OBVIOUS
<1>2. g = h
  <2>1. h = g \/ (h \in ancestors[g] /\ g \in ancestors[h])
    BY <1>1 DEF Outermost
  <2> HIDE DEF g
  <2>2. g \in Txn /\ h \in Txn
    BY <1>1
  <2> QED BY <2>1, <2>2 DEF Inv, TreeOK, Txn
<1>3. ImageOf(S, k) = before[g][k]
  BY DEF ImageOf
<1> QED BY <1>2, <1>3 DEF Outermost, WriteLocked

\* Writers of one record are a chain, which has a first and a last member.
LEMMA WritersRelated ==
  ASSUME Inv, NEW k \in Key, NEW g \in Txn, NEW h \in Txn,
         WriteLocked(g, k), WriteLocked(h, k)
  PROVE  g = h \/ g \in ancestors[h] \/ h \in ancestors[g]
BY DEF Inv, LocksCompatible

LEMMA OutermostExists ==
  ASSUME Inv, NEW S \in SUBSET Txn, NEW k \in Key, NEW x \in S, WriteLocked(x, k)
  PROVE  \E h \in S : Outermost(S, h, k)
<1>1. PICK W : W = {h \in S : WriteLocked(h, k)}
  OBVIOUS
<1>2. W \subseteq Nat /\ W # {}
  <2>1. \A n \in W : n \in Txn
    BY <1>1
  <2>2. x \in W
    BY <1>1
  <2> QED BY <2>1, <2>2 DEF Txn
<1>3. PICK n \in W : \A m \in W : n =< m
  BY <1>2, LeastNat
<1>4. ASSUME NEW g \in S, WriteLocked(g, k) PROVE n = g \/ n \in ancestors[g]
  <2>1. g \in W /\ n \in Txn /\ g \in Txn /\ WriteLocked(n, k)
    BY <1>1, <1>4
  <2>2. n = g \/ n \in ancestors[g] \/ g \in ancestors[n]
    BY <1>4, <2>1, WritersRelated
  <2>3. ~(g < n)
    BY <1>3, <2>1 DEF Txn
  <2> QED BY <2>1, <2>2, <2>3 DEF Inv, TreeOK
<1> QED BY <1>1, <1>4 DEF Outermost

\* Of the writers in S, h is the last.
Last(S, h, k) ==
    /\ WriteLocked(h, k)
    /\ \A g \in S : WriteLocked(g, k) => g = h \/ g \in ancestors[h]

LEMMA LastExists ==
  ASSUME Inv, NEW S \in SUBSET Txn, NEW k \in Key, NEW x \in S, WriteLocked(x, k)
  PROVE  \E h \in S : Last(S, h, k)
<1>1. PICK W : W = {h \in S : WriteLocked(h, k)}
  OBVIOUS
<1>2. W \subseteq 0..MaxTxn /\ W # {} /\ MaxTxn \in Nat
  <2>1. \A n \in W : n \in Txn
    BY <1>1
  <2>2. x \in W
    BY <1>1
  <2> QED BY <2>1, <2>2, BoundAssumption DEF Txn
<1>3. PICK n \in W : \A m \in W : n >= m
  BY <1>2, GreatestNat
<1>4. ASSUME NEW g \in S, WriteLocked(g, k) PROVE g = n \/ g \in ancestors[n]
  <2>1. g \in W /\ n \in Txn /\ g \in Txn /\ WriteLocked(n, k)
    BY <1>1, <1>4
  <2>2. n = g \/ n \in ancestors[g] \/ g \in ancestors[n]
    BY <1>4, <2>1, WritersRelated
  <2>3. ~(n < g)
    BY <1>3, <2>1 DEF Txn
  <2> QED BY <2>1, <2>2, <2>3 DEF Inv, TreeOK
<1> QED BY <1>1, <1>4 DEF Last

-----------------------------------------------------------------------------
\* What the writers in S found, or the record as it is if there are none.
Seen(S, k) == IF ImageOf(S, k) = NoImage THEN store[k] ELSE ImageOf(S, k)

\* The refinement mapping in these terms.
LEMMA MappingFacts ==
  ASSUME TypeOK
  PROVE  /\ \A k \in Key : Committed[k] = Seen(Txn, k)
         /\ \A t \in Txn, k \in Key :
              Work[t][k] = IF WriteLocked(t, k) THEN Seen(Descendants(t), k) ELSE NoImage
         /\ \A t \in Txn, k \in Key : Work[t][k] # NoImage <=> WriteLocked(t, k)
<1>1. \A k \in Key : Committed[k] = Seen(Txn, k)
  BY DEF Committed, Seen
<1>2. \A t \in Txn, k \in Key :
        Work[t][k] = IF WriteLocked(t, k) THEN Seen(Descendants(t), k) ELSE NoImage
  BY DEF Work, Seen
<1>3. \A S : \A k \in Key : Seen(S, k) # NoImage
  BY StoreAssumption DEF Seen, TypeOK
<1>4. \A t \in Txn, k \in Key : Work[t][k] # NoImage <=> WriteLocked(t, k)
  BY <1>2, <1>3
<1> QED BY <1>1, <1>2, <1>4

\* The abstract store's innermost writer is the last.
LEMMA ResultFacts ==
  ASSUME Inv, NEW S \in SUBSET Txn, NEW k \in Key, NEW old
  PROVE  /\ (\A h \in S : ~WriteLocked(h, k)) => A!Result(S, k, old) = old
         /\ \A h \in S : Last(S, h, k) => A!Result(S, k, old) = Seen(Descendants(h), k)
<1>1. \A h \in S : A!Innermost(S, h, k) <=> Last(S, h, k)
  BY MappingFacts DEF A!Innermost, A!Wrote, Last, Inv
<1>2. ASSUME \A h \in S : ~WriteLocked(h, k) PROVE A!Result(S, k, old) = old
  BY <1>1, <1>2 DEF A!Result, Last
<1>3. ASSUME NEW h \in S, Last(S, h, k)
      PROVE  A!Result(S, k, old) = Seen(Descendants(h), k)
  <2> DEFINE g == CHOOSE g \in S : A!Innermost(S, g, k)
  <2>1. \E x \in S : A!Innermost(S, x, k)
    BY <1>1, <1>3
  <2>2. g \in S /\ A!Innermost(S, g, k)
    BY <2>1
  <2>3. A!Result(S, k, old) = Work[g][k]
    BY <2>1 DEF A!Result
  <2> HIDE DEF g
  <2>4. Last(S, g, k)
    BY <1>1, <2>2
  <2>5. g = h
    <3>1. g \in Txn /\ h \in Txn /\ (g = h \/ (g \in ancestors[h] /\ h \in ancestors[g]))
      BY <1>3, <2>2, <2>4 DEF Last
    <3> QED BY <3>1 DEF Inv, TreeOK, Txn
  <2> QED BY <1>3, <2>3, <2>5, MappingFacts DEF Inv, Last
<1> QED BY <1>2, <1>3

\* Who may use a transaction has no active kids, and then no descendants.
LEMMA NoDescendants ==
  ASSUME TreeInv, ~ParentMayOperate, NEW t \in Txn, MayUse(t)
  PROVE  \A c \in Txn : Running(c) => t \notin ancestors[c]
<1> SUFFICES ASSUME NEW c \in Txn, Running(c), t \in ancestors[c] PROVE FALSE
  OBVIOUS
<1>1. PICK d \in Txn : Running(d) /\ IsParent(t, d)
  BY DEF TreeInv, KidsOK
<1>2. d \in Kids(t)
  BY <1>1 DEF Kids, Descendants, IsParent
<1> QED BY <1>2 DEF MayUse

\* A record whose every writer is t or an ancestor of t: t sees what is stored.
LEMMA OwnView ==
  ASSUME TreeInv, NEW t \in Txn, NEW k \in Key,
         \A u \in Txn : WriteLocked(u, k) => u = t \/ u \in ancestors[t],
         \A c \in Txn : Running(c) => t \notin ancestors[c]
  PROVE  store[k] = A!View(t, k)
<1> DEFINE S == {t} \cup ancestors[t]
<1>1. S \in SUBSET Txn /\ Inv
  BY DEF TreeInv, Inv, TypeOK
<1>2. CASE \A h \in S : ~WriteLocked(h, k)
  <2>1. \A h \in Txn : ~WriteLocked(h, k)
    BY <1>2
  <2>2. Committed[k] = store[k]
    BY <1>1, <2>1, ImageNone, MappingFacts DEF Seen, Inv
  <2>3. A!Result(S, k, Committed[k]) = Committed[k]
    BY <1>1, <1>2, ResultFacts
  <2> QED BY <2>2, <2>3 DEF A!View
<1>3. CASE \E h \in S : WriteLocked(h, k)
  <2>1. PICK h \in S : Last(S, h, k)
    BY <1>1, <1>3, LastExists
  <2>2. \A g \in Descendants(h) : ~WriteLocked(g, k)
    <3> SUFFICES ASSUME NEW g \in Txn, Running(g), h \in ancestors[g], WriteLocked(g, k)
                 PROVE  FALSE
      BY DEF Descendants
    <3>1. g \in S
      OBVIOUS
    <3>2. g = h \/ g \in ancestors[h]
      BY <2>1, <3>1 DEF Last
    <3> QED BY <1>1, <2>1, <3>2 DEF Inv, TreeOK, Txn
  <2>3. Seen(Descendants(h), k) = store[k]
    BY <2>2, ImageNone DEF Seen
  <2>4. A!Result(S, k, Committed[k]) = store[k]
    BY <1>1, <2>1, <2>3, ResultFacts
  <2> QED BY <2>4 DEF A!View
<1> QED BY <1>2, <1>3

\* What DB->get would return is the view of the abstract store, for an application
\* that leaves a parent alone while it has active kids.
THEOREM OwnViewTheorem ==
  ASSUME ~ParentMayOperate
  PROVE  Spec => []ReadsSeeOwnView
<1>1. ASSUME TreeInv PROVE ReadsSeeOwnView
  <2> SUFFICES ASSUME NEW t \in Txn, NEW k \in Key, MayUse(t), GrantRead(t, k)
               PROVE  store[k] = A!View(t, k)
    BY DEF ReadsSeeOwnView
  <2>1. \A c \in Txn : Running(c) => t \notin ancestors[c]
    BY <1>1, NoDescendants
  <2>2. ASSUME NEW u \in Txn, WriteLocked(u, k), u # t PROVE u \in ancestors[t]
    <3>1. CASE k \in readLocks[t]
      <4>1. Running(u)
        BY <1>1, <2>2 DEF TreeInv, Inv, TreeOK, WriteLocked, Clean
      <4>2. u \in ancestors[t] \/ t \in ancestors[u]
        BY <1>1, <2>2, <3>1 DEF TreeInv, Inv, LocksCompatible
      <4> QED BY <2>1, <4>1, <4>2
    <3>2. CASE ~ReadConflict(t, k)
      BY <2>2, <3>2 DEF ReadConflict, Stranger
    <3> QED BY <3>1, <3>2 DEF GrantRead
  <2> QED BY <1>1, <2>1, <2>2, OwnView
<1> QED BY <1>1, TreeInvariance, PTL

-----------------------------------------------------------------------------
\* The same facts of the state after a step.
LEMMA SeenNoneLater ==
  ASSUME NEW S, NEW k, \A h \in S : before'[h][k] = NoImage
  PROVE  Seen(S, k)' = store'[k]
BY DEF Seen, ImageOf, Outermost, WriteLocked

LEMMA SeenIsLater ==
  ASSUME Inv', NEW S \in SUBSET Txn, NEW k \in Key, NEW h \in S, before'[h][k] # NoImage,
         \A g \in S : before'[g][k] # NoImage => h = g \/ h \in ancestors'[g]
  PROVE  Seen(S, k)' = before'[h][k]
<1> DEFINE First(x) == /\ before'[x][k] # NoImage
                       /\ \A y \in S : before'[y][k] # NoImage => x = y \/ x \in ancestors'[y]
           g == CHOOSE x \in S : First(x)
<1>1. First(h)
  OBVIOUS
<1>2. g \in S /\ First(g)
  BY <1>1
<1>3. g = h
  <2>1. h = g \/ (h \in ancestors'[g] /\ g \in ancestors'[h])
    BY <1>1, <1>2
  <2> HIDE DEF g
  <2>2. g \in Txn /\ h \in Txn
    BY <1>2
  <2> QED BY <2>1, <2>2 DEF Inv, TreeOK, Txn
<1>4. ImageOf(S, k)' = before'[g][k]
  BY <1>1 DEF ImageOf, Outermost, WriteLocked
<1> QED BY <1>3, <1>4 DEF Seen

LEMMA MappingLater ==
  ASSUME TypeOK'
  PROVE  /\ \A k \in Key : Committed'[k] = Seen(Txn, k)'
         /\ \A t \in Txn, k \in Key :
              Work'[t][k] = IF WriteLocked(t, k)' THEN Seen(Descendants(t), k)' ELSE NoImage
BY DEF Committed, Work, Seen

\* What the first writer found is what the set has seen.
LEMMA SeenFacts ==
  ASSUME Inv, NEW S \in SUBSET Txn, NEW k \in Key
  PROVE  /\ (\A h \in S : ~WriteLocked(h, k)) => Seen(S, k) = store[k]
         /\ \A h \in S : Outermost(S, h, k) => Seen(S, k) = before[h][k]
BY ImageNone, ImageIs DEF Seen

\* A step that leaves the record and its log records alone, and its writers where
\* they are.
LEMMA SeenSame ==
  ASSUME Inv, Inv', NEW S \in SUBSET Txn, NEW T \in SUBSET Txn, NEW k \in Key,
         store'[k] = store[k], \A u \in Txn : before'[u][k] = before[u][k],
         \A u \in Txn : WriteLocked(u, k) => ancestors'[u] = ancestors[u] /\ (u \in S <=> u \in T)
  PROVE  Seen(T, k)' = Seen(S, k)
<1>1. CASE \A h \in S : ~WriteLocked(h, k)
  <2>1. \A h \in T : before'[h][k] = NoImage
    BY <1>1 DEF WriteLocked
  <2>2. Seen(T, k)' = store'[k]
    BY <2>1, SeenNoneLater
  <2>3. Seen(S, k) = store[k]
    BY <1>1, SeenFacts
  <2> QED BY <2>2, <2>3
<1>2. CASE \E h \in S : WriteLocked(h, k)
  <2>1. PICK h \in S : Outermost(S, h, k)
    BY <1>2, OutermostExists
  <2>2. h \in T /\ before'[h][k] # NoImage
    BY <2>1 DEF Outermost, WriteLocked
  <2>3. \A g \in T : before'[g][k] # NoImage => h = g \/ h \in ancestors'[g]
    BY <2>1 DEF Outermost, WriteLocked
  <2>4. Seen(T, k)' = before'[h][k]
    BY <2>2, <2>3, SeenIsLater
  <2> QED BY <2>1, <2>4, SeenFacts
<1> QED BY <1>1, <1>2

\* The mapping of such a step for every record.
LEMMA SameMapping ==
  ASSUME Inv, Inv', store' = store, before' = before,
         \A u \in Txn : before[u] # Clean => /\ ancestors'[u] = ancestors[u]
                                             /\ Running(u) <=> Running(u)'
  PROVE  Work' = Work /\ Committed' = Committed
<1>1. \A u \in Txn, k \in Key : WriteLocked(u, k) => before[u] # Clean
  BY DEF WriteLocked, Clean
<1>2. ASSUME NEW k \in Key PROVE Committed'[k] = Committed[k]
  <2>1. Txn \in SUBSET Txn
    OBVIOUS
  <2>2. Seen(Txn, k)' = Seen(Txn, k)
    BY <1>1, <2>1, SeenSame
  <2> QED BY <2>2, MappingFacts, MappingLater DEF Inv
<1>3. ASSUME NEW t \in Txn, NEW k \in Key PROVE Work'[t][k] = Work[t][k]
  <2>1. PICK S \in SUBSET Txn : S = Descendants(t)
    BY DEF Descendants
  <2>2. PICK T \in SUBSET Txn : T = Descendants(t)'
    BY DEF Descendants
  <2>3. \A u \in Txn : WriteLocked(u, k) => (u \in S <=> u \in T)
    BY <1>1, <2>1, <2>2 DEF Descendants
  <2>4. Seen(T, k)' = Seen(S, k)
    BY <1>1, <2>3, SeenSame
  <2>5. Seen(Descendants(t), k)' = Seen(T, k)'
    BY <2>2 DEF Seen, ImageOf
  <2>6. Work'[t][k] = Work[t][k]
    BY <2>1, <2>4, <2>5, MappingFacts, MappingLater DEF Inv, WriteLocked
  <2> QED BY <2>6
<1> QED BY <1>2, <1>3 DEF Work, Committed

-----------------------------------------------------------------------------
\* The environment is opened on an abstract store without transactions.
LEMMA InitRefines == Init => A!Init
<1> SUFFICES ASSUME Init PROVE A!Init
  OBVIOUS
<1>1. Inv
  BY InitInv
<1>2. \A u \in Txn, k \in Key : ~WriteLocked(u, k)
  BY DEF Init, WriteLocked, Clean
<1>3. ASSUME NEW k \in Key PROVE Committed[k] = InitStore[k]
  <2>1. Seen(Txn, k) = store[k]
    BY <1>1, <1>2, SeenFacts
  <2> QED BY <1>1, <2>1, MappingFacts DEF Inv, Init
<1>4. ASSUME NEW t \in Txn, NEW k \in Key PROVE Work[t][k] = NoImage
  BY <1>1, <1>2, MappingFacts DEF Inv
<1>5. Committed = InitStore
  BY <1>3, StoreAssumption DEF Committed
<1>6. Work = [t \in Txn |-> [k \in Key |-> NoImage]]
  BY <1>4 DEF Work
<1> QED BY <1>5, <1>6 DEF Init, A!Init, A!Txn, Txn

\* __txn_begin: the new transaction has written nothing.
LEMMA TxnBeginRefines ==
  ASSUME TreeInv, NEW p \in Txn \cup {None}, TxnBegin(p)
  PROVE  A!Next
<1>1. PICK t : t = lastTxnid + 1
  OBVIOUS
<1>2. /\ t \in Txn /\ t > lastTxnid
      /\ status' = [status EXCEPT ![t] = "running"]
      /\ ancestors' = [ancestors EXCEPT ![t] = IF p = None THEN {} ELSE {p} \cup ancestors[p]]
      /\ p # None => p \in Txn /\ Running(p)
      /\ UNCHANGED <<before, store>>
  BY <1>1, BoundAssumption DEF TxnBegin, TreeInv, Inv, TypeOK, Txn
<1>3. status[t] = "unused" /\ before[t] = Clean
  BY <1>2 DEF TreeInv, Inv, TreeOK, Running
<1>4. ASSUME NEW u \in Txn, before[u] # Clean
      PROVE  ancestors'[u] = ancestors[u] /\ (Running(u) <=> Running(u)')
  BY <1>2, <1>3, <1>4 DEF Running, TreeInv, Inv, TypeOK
<1>5. Inv /\ Inv'
  BY TxnBeginInv DEF TreeInv
<1>6. Work' = Work /\ Committed' = Committed
  BY <1>2, <1>4, <1>5, SameMapping
<1>7. p \in Txn <=> p # None
  BY <1>2 DEF Txn, None
<1>8. A!Begin(t, p)
  BY <1>2, <1>3, <1>6, <1>7 DEF A!Begin, A!Running, A!Txn, Txn, Running
<1> QED BY <1>2, <1>8 DEF A!Next, A!Txn, Txn, None

\* Nothing the abstract store knows of changes.
LEMMA QuietRefines ==
  ASSUME Inv, Inv', UNCHANGED <<status, ancestors, before, store>>
  PROVE  UNCHANGED A!vars
<1>1. Work' = Work /\ Committed' = Committed
  BY SameMapping DEF Running
<1> QED BY <1>1 DEF A!vars

\* The writers of a record t may write are t and ancestors of it.
LEMMA WritersAbove ==
  ASSUME TreeInv, ~ParentMayOperate, NEW t \in Txn, NEW k \in Key, MayUse(t), GrantWrite(t, k),
         NEW u \in Txn, WriteLocked(u, k), u # t
  PROVE  u \in ancestors[t]
<1>1. Running(u)
  BY DEF TreeInv, Inv, TreeOK, WriteLocked, Clean
<1>2. CASE WriteLocked(t, k)
  <2>1. u \in ancestors[t] \/ t \in ancestors[u]
    BY <1>2 DEF TreeInv, Inv, LocksCompatible
  <2> QED BY <1>1, <2>1, NoDescendants
<1>3. CASE ~WriteConflict(t, k)
  BY <1>3 DEF WriteConflict, Stranger
<1> QED BY <1>2, <1>3 DEF GrantWrite

\* A write is seen by no set of transactions that holds the writer: it is what the
\* writer found that counts.
LEMMA SeenPut ==
  ASSUME Inv, Inv', NEW t \in Txn, NEW k \in Key, ancestors' = ancestors,
         \A u \in Txn : WriteLocked(u, k) => u = t \/ u \in ancestors[t],
         \A u \in Txn : before'[u][k] = IF u = t /\ ~WriteLocked(t, k) THEN store[k]
                                                                  ELSE before[u][k],
         store[k] # NoImage,
         NEW S \in SUBSET Txn, t \in S
  PROVE  Seen(S, k)' = Seen(S, k)
<1>1. CASE \A h \in S : ~WriteLocked(h, k)
  <2>1. Seen(S, k) = store[k]
    BY <1>1, SeenFacts
  <2>2. before'[t][k] = store[k] /\ \A g \in S : before'[g][k] # NoImage => g = t
    BY <1>1 DEF WriteLocked
  <2>3. Seen(S, k)' = before'[t][k]
    BY <2>2, SeenIsLater
  <2> QED BY <2>1, <2>2, <2>3
<1>2. CASE \E h \in S : WriteLocked(h, k)
  <2>1. PICK h \in S : Outermost(S, h, k)
    BY <1>2, OutermostExists
  <2>2. before'[h][k] = before[h][k] /\ before'[h][k] # NoImage /\ (h = t \/ h \in ancestors[t])
    BY <2>1 DEF Outermost, WriteLocked
  <2>3. ASSUME NEW g \in S, before'[g][k] # NoImage PROVE h = g \/ h \in ancestors'[g]
    BY <2>1, <2>2, <2>3 DEF Outermost, WriteLocked
  <2>4. Seen(S, k)' = before'[h][k]
    BY <2>2, <2>3, SeenIsLater
  <2> QED BY <2>1, <2>2, <2>4, SeenFacts
<1> QED BY <1>1, <1>2

\* DB->put of a transaction without active kids.
LEMMA DbPutRefines ==
  ASSUME TreeInv, ~ParentMayOperate, NEW t \in Txn, NEW k \in Key, NEW v \in Val, DbPut(t, k, v)
  PROVE  A!Next
<1>1. /\ MayUse(t) /\ GrantWrite(t, k) /\ Running(t)
      /\ store' = [store EXCEPT ![k] = v]
      /\ before' = [before EXCEPT ![t][k] = IF WriteLocked(t, k) THEN @ ELSE store[k]]
      /\ UNCHANGED <<status, ancestors>>
  BY DEF DbPut, MayUse
<1>2. Inv /\ Inv' /\ TypeOK /\ TypeOK'
  BY DbPutInv DEF TreeInv, Inv
<1>3. /\ store'[k] = v /\ store[k] # NoImage /\ v # NoImage
      /\ \A j \in Key : j # k => store'[j] = store[j]
      /\ \A u \in Txn : before'[u][k] = IF u = t /\ ~WriteLocked(t, k) THEN store[k]
                                                                   ELSE before[u][k]
      /\ \A u \in Txn, j \in Key : j # k => before'[u][j] = before[u][j]
  BY <1>1, <1>2, StoreAssumption DEF TypeOK
<1>4. \A u \in Txn : WriteLocked(u, k) => u = t \/ u \in ancestors[t]
  BY <1>1, WritersAbove
<1>5. \A u \in Txn : WriteLocked(u, k)' <=> u = t \/ WriteLocked(u, k)
  BY <1>3 DEF WriteLocked
<1>6. \A u \in Txn : Descendants(u) \in SUBSET Txn /\ Descendants(u)' = Descendants(u)
  BY <1>1 DEF Descendants, Running
<1>7. ASSUME NEW S \in SUBSET Txn, NEW j \in Key, j # k PROVE Seen(S, j)' = Seen(S, j)
  BY <1>1, <1>2, <1>3, <1>7, SeenSame
<1>8. ASSUME NEW S \in SUBSET Txn, t \in S PROVE Seen(S, k)' = Seen(S, k)
  BY <1>1, <1>2, <1>3, <1>4, <1>8, SeenPut
<1>9. Committed' = Committed
  <2>1. ASSUME NEW j \in Key PROVE Committed'[j] = Committed[j]
    <3>1. Seen(Txn, j)' = Seen(Txn, j)
      BY <1>7, <1>8
    <3> QED BY <1>2, <3>1, MappingFacts, MappingLater
  <2> QED BY <2>1 DEF Committed
<1>10. ASSUME NEW u \in Txn, NEW j \in Key, j # k \/ u # t
       PROVE  Work'[u][j] = Work[u][j]
  <2>1. PICK S \in SUBSET Txn : S = Descendants(u)
    BY <1>6
  <2>2. Seen(Descendants(u), j)' = Seen(S, j)'
    BY <1>6, <2>1 DEF Seen, ImageOf
  <2>3. WriteLocked(u, j)' <=> WriteLocked(u, j)
    BY <1>3, <1>5, <1>10 DEF WriteLocked
  <2>4. CASE j # k
    <3>1. Seen(S, j)' = Seen(S, j)
      BY <1>7, <2>4
    <3> QED BY <1>2, <2>1, <2>2, <2>3, <3>1, MappingFacts, MappingLater
  <2>5. CASE j = k /\ WriteLocked(u, k)
    <3>1. t \in S
      BY <1>1, <1>4, <1>10, <2>1, <2>5 DEF Descendants
    <3>2. Seen(S, k)' = Seen(S, k)
      BY <1>8, <3>1
    <3> QED BY <1>2, <2>1, <2>2, <2>3, <2>5, <3>2, MappingFacts, MappingLater
  <2>6. CASE j = k /\ ~WriteLocked(u, k)
    BY <1>2, <2>3, <2>6, MappingFacts, MappingLater
  <2> QED BY <2>4, <2>5, <2>6
<1>11. Work'[t][k] = v
  <2>1. PICK S \in SUBSET Txn : S = Descendants(t)
    BY <1>6
  <2>2. Seen(Descendants(t), k)' = Seen(S, k)'
    BY <1>6, <2>1 DEF Seen, ImageOf
  <2>4. S = {}
    BY <1>1, <2>1, NoDescendants DEF Descendants
  <2>5. Seen(S, k)' = store'[k]
    BY <2>4, SeenNoneLater
  <2> QED BY <1>2, <1>3, <1>5, <2>2, <2>5, MappingLater
<1>12. Work' = [Work EXCEPT ![t][k] = v]
  <2>1. PICK w : w = [u \in Txn |-> [j \in Key |-> IF u = t /\ j = k THEN v ELSE Work[u][j]]]
    OBVIOUS
  <2>2. Work = [u \in Txn |-> [j \in Key |-> Work[u][j]]]
    BY DEF Work
  <2>3. Work' = [u \in Txn |-> [j \in Key |-> Work'[u][j]]]
    BY DEF Work
  <2>4. \A u \in Txn, j \in Key : Work'[u][j] = IF u = t /\ j = k THEN v ELSE Work[u][j]
    BY <1>10, <1>11
  <2>5. Work' = w
    BY <2>1, <2>3, <2>4
  <2>6. [Work EXCEPT ![t][k] = v] = w
    BY <2>1, <2>2
  <2> QED BY <2>5, <2>6
<1>13. A!Write(t, k, v)
  <2>1. \A u \in Txn : A!Wrote(u, k) => u = t \/ u \in ancestors[t]
    BY <1>2, <1>4, MappingFacts DEF A!Wrote
  <2> QED BY <1>1, <1>9, <1>12, <2>1 DEF A!Write, A!Running, A!Txn, Txn, Running
<1> QED BY <1>13 DEF A!Next, A!Txn, Txn

-----------------------------------------------------------------------------
\* The survivors of a family are its upper part.
UpperPart(t, kept) ==
    /\ kept # {} => t \in kept
    /\ \A c \in kept : \A d \in Family(t) : d \in ancestors[c] => d \in kept

\* What the end of t's family makes of a record and of who runs.
LEMMA EndStep ==
  ASSUME Inv, NEW t \in Txn, Running(t), NEW kept \in SUBSET Family(t), EndFamily(t, kept),
         NEW k \in Key
  PROVE  /\ ancestors' = ancestors
         /\ \A u \in Family(t) : before'[u][k] = NoImage
         /\ \A u \in Txn \ Family(t) :
              before'[u][k] = IF kept # {} /\ IsParent(u, t) /\ ~WriteLocked(u, k)
                                THEN ImageOf(kept, k) ELSE before[u][k]
         /\ store'[k] = Seen(Family(t) \ kept, k)
         /\ \A u \in Txn : Running(u)' <=> Running(u) /\ u \notin Family(t)
<1>1. /\ Family(t) \subseteq Txn /\ ancestors' = ancestors
      /\ store' = Undone(Family(t) \ kept)
      /\ before' = [u \in Txn |-> CASE u \in Family(t) -> Clean
                                    [] u \notin Family(t) /\ kept # {} /\ IsParent(u, t)
                                         -> Inherited(u, kept)
                                    [] OTHER -> before[u]]
      /\ status' = [u \in Txn |-> CASE u \in kept -> "committed"
                                    [] u \in Family(t) \ kept -> "aborted"
                                    [] OTHER -> status[u]]
  BY FamilyFacts DEF EndFamily
<1>2. \A u \in Family(t) : before'[u][k] = NoImage
  BY <1>1 DEF Clean
<1>3. ASSUME NEW u \in Txn \ Family(t)
      PROVE  before'[u][k] = IF kept # {} /\ IsParent(u, t) /\ ~WriteLocked(u, k)
                               THEN ImageOf(kept, k) ELSE before[u][k]
  <2>1. CASE kept # {} /\ IsParent(u, t)
    <3>1. before'[u] = Inherited(u, kept)
      BY <1>1, <2>1
    <3> QED BY <2>1, <3>1 DEF Inherited
  <2>2. CASE ~(kept # {} /\ IsParent(u, t))
    <3>1. before'[u] = before[u]
      BY <1>1, <2>2
    <3> QED BY <2>2, <3>1
  <2> QED BY <2>1, <2>2
<1>4. store'[k] = Seen(Family(t) \ kept, k)
  BY <1>1 DEF Undone, Seen
<1>5. \A u \in Txn : Running(u)' <=> Running(u) /\ u \notin Family(t)
  BY <1>1 DEF Running
<1> QED BY <1>1, <1>2, <1>3, <1>4, <1>5

\* A writer outside the family, of a record that the family has written, is an
\* ancestor of all of it.
LEMMA WriterOutside ==
  ASSUME Inv, NEW t \in Txn, Running(t), NEW k \in Key,
         NEW x \in Family(t), WriteLocked(x, k),
         NEW g \in Txn, g \notin Family(t), WriteLocked(g, k)
  PROVE  g \in ancestors[t] /\ \A y \in Family(t) : g \in ancestors[y]
<1>1. x \in Txn /\ Running(g)
  BY FamilyFacts DEF Inv, TreeOK, WriteLocked, Clean
<1>2. Related(g, x)
  BY <1>1 DEF Inv, LocksCompatible, Related
<1>3. g \in ancestors[t]
  BY <1>1, <1>2, OutsideRelative
<1>4. ASSUME NEW y \in Family(t) PROVE g \in ancestors[y]
  <2>1. y \in Txn /\ (y = t \/ t \in ancestors[y])
    BY FamilyFacts
  <2> QED BY <1>3, <2>1 DEF Inv, TreeOK
<1> QED BY <1>3, <1>4

\* A set of transactions that holds the family's writers, and the parent when it
\* inherits, sees after the end what it saw before.
LEMMA SeenEnd ==
  ASSUME Inv, Inv', NEW t \in Txn, Running(t), NEW kept \in SUBSET Family(t),
         UpperPart(t, kept), EndFamily(t, kept), NEW k \in Key,
         NEW S \in SUBSET Txn, NEW T \in SUBSET S, S \ Family(t) \subseteq T,
         \A x \in Family(t) : WriteLocked(x, k) => x \in S,
         \A x \in kept : WriteLocked(x, k) => \E y \in S : IsParent(y, t)
  PROVE  Seen(T, k)' = Seen(S, k)
<1> DEFINE F == Family(t)
<1>1. /\ F \in SUBSET Txn /\ t \in F /\ kept \in SUBSET Txn /\ T \in SUBSET Txn
      /\ F \ kept \in SUBSET Txn /\ S \ F \in SUBSET Txn
      /\ \A u \in F : u = t \/ t \in ancestors[u]
  BY FamilyFacts
<1>2. /\ ancestors' = ancestors
      /\ \A u \in F : before'[u][k] = NoImage
      /\ \A u \in Txn \ F :
           before'[u][k] = IF kept # {} /\ IsParent(u, t) /\ ~WriteLocked(u, k)
                             THEN ImageOf(kept, k) ELSE before[u][k]
      /\ store'[k] = Seen(F \ kept, k)
  BY EndStep
<1>3. (\A x \in kept : ~WriteLocked(x, k)) => ImageOf(kept, k) = NoImage
  BY ImageNone
<1> HIDE DEF F
<1>4. CASE \E g \in S \ F : WriteLocked(g, k)
  <2>1. PICK g \in S \ F : Outermost(S \ F, g, k)
    BY <1>1, <1>4, OutermostExists
  <2>2. WriteLocked(g, k) /\ g \in Txn /\ g \notin F /\ g \in T
    BY <2>1 DEF Outermost, F
  <2>3. ASSUME NEW x \in S, WriteLocked(x, k) PROVE g = x \/ g \in ancestors[x]
    <3>1. CASE x \in F
      BY <2>2, <2>3, <3>1, WriterOutside DEF F
    <3>2. CASE x \notin F
      BY <2>1, <2>3, <3>2 DEF Outermost
    <3> QED BY <3>1, <3>2
  <2>4. Seen(S, k) = before[g][k]
    BY <2>2, <2>3, SeenFacts DEF Outermost
  <2>5. before'[g][k] = before[g][k] /\ before'[g][k] # NoImage
    BY <1>2, <2>2 DEF WriteLocked
  <2>6. ASSUME NEW y \in T, before'[y][k] # NoImage PROVE g = y \/ g \in ancestors'[y]
    <3>1. y \in Txn \ F /\ y \in S
      BY <1>1, <1>2, <2>6
    <3>2. CASE WriteLocked(y, k)
      BY <1>2, <2>1, <3>1, <3>2 DEF Outermost
    <3>3. CASE ~WriteLocked(y, k)
      <4>1. kept # {} /\ IsParent(y, t) /\ ImageOf(kept, k) # NoImage
        BY <1>2, <2>6, <3>1, <3>3 DEF WriteLocked
      <4>2. PICK x \in kept : WriteLocked(x, k)
        BY <1>3, <4>1
      <4>3. g \in ancestors[t]
        BY <2>2, <4>2, WriterOutside DEF F
      <4> QED BY <1>2, <4>1, <4>3 DEF IsParent
    <3> QED BY <3>2, <3>3
  <2>7. Seen(T, k)' = before'[g][k]
    BY <1>1, <2>2, <2>5, <2>6, SeenIsLater
  <2> QED BY <2>4, <2>5, <2>7
<1>5. CASE (\A g \in S \ F : ~WriteLocked(g, k)) /\ \A x \in F : ~WriteLocked(x, k)
  <2>1. Seen(S, k) = store[k]
    BY <1>5, SeenFacts
  <2>2. \A y \in T : before'[y][k] = NoImage
    BY <1>1, <1>2, <1>3, <1>5 DEF WriteLocked, F
  <2>3. Seen(T, k)' = store'[k]
    BY <2>2, SeenNoneLater
  <2>4. Seen(F \ kept, k) = store[k]
    BY <1>1, <1>5, SeenFacts
  <2> QED BY <1>2, <2>1, <2>3, <2>4
<1>6. CASE (\A g \in S \ F : ~WriteLocked(g, k)) /\ \E x \in F : WriteLocked(x, k)
  <2>1. PICK h \in F : Outermost(F, h, k)
    BY <1>1, <1>6, OutermostExists
  <2>2. h \in S /\ Outermost(S, h, k)
    BY <1>6, <2>1 DEF Outermost, F
  <2>3. Seen(S, k) = before[h][k]
    BY <2>2, SeenFacts
  <2>4. CASE \A x \in kept : ~WriteLocked(x, k)
    <3>1. h \in F \ kept /\ Outermost(F \ kept, h, k)
      BY <2>1, <2>4 DEF Outermost
    <3>2. store'[k] = before[h][k]
      BY <1>1, <1>2, <3>1, SeenFacts
    <3>3. \A y \in T : before'[y][k] = NoImage
      BY <1>1, <1>2, <1>3, <1>6, <2>4 DEF WriteLocked
    <3>4. Seen(T, k)' = store'[k]
      BY <3>3, SeenNoneLater
    <3> QED BY <2>3, <3>2, <3>4
  <2>5. ASSUME NEW c \in kept, WriteLocked(c, k) PROVE Seen(T, k)' = Seen(S, k)
    <3>1. h \in kept /\ Outermost(kept, h, k)
      BY <1>1, <2>1, <2>5 DEF Outermost, UpperPart, F
    <3>2. ImageOf(kept, k) = before[h][k] /\ before[h][k] # NoImage
      BY <1>1, <3>1, ImageIs
    <3>3. PICK y \in S : IsParent(y, t)
      BY <2>5
    <3>4. y \in Txn \ F /\ y \in T
      <4>1. y \in Txn /\ y \in ancestors[t]
        BY <3>3 DEF IsParent
      <4>2. y \notin F
        BY <1>1, <4>1 DEF Inv, TreeOK, Txn
      <4> QED BY <4>1, <4>2 DEF F
    <3>5. before'[y][k] = before[h][k] /\ before'[y][k] # NoImage
      BY <1>2, <1>6, <3>2, <3>3, <3>4, <2>5
    <3>6. ASSUME NEW g \in T, before'[g][k] # NoImage PROVE y = g
      <4>1. g \in Txn \ F /\ ~WriteLocked(g, k)
        BY <1>1, <1>2, <1>6, <3>6
      <4>2. IsParent(g, t)
        BY <1>2, <3>6, <4>1 DEF WriteLocked
      <4>3. y = g \/ (y \in ancestors[g] /\ g \in ancestors[y])
        BY <3>3, <4>2 DEF IsParent
      <4> QED BY <3>4, <4>1, <4>3 DEF Inv, TreeOK, Txn
    <3>7. Seen(T, k)' = before'[y][k]
      BY <1>1, <3>4, <3>5, <3>6, SeenIsLater
    <3> QED BY <2>3, <3>5, <3>7
  <2> QED BY <2>4, <2>5
<1> QED BY <1>4, <1>5, <1>6

\* What the survivors have made of a record is what the undo of the others leaves.
LEMMA KeptResult ==
  ASSUME Inv, NEW t \in Txn, Running(t), NEW kept \in SUBSET Family(t),
         UpperPart(t, kept), EndFamily(t, kept), NEW k \in Key,
         NEW c \in kept, WriteLocked(c, k), NEW old
  PROVE  A!Result(kept, k, old) = store'[k]
<1> DEFINE F == Family(t)
<1>1. /\ F \in SUBSET Txn /\ kept \in SUBSET Txn /\ F \ kept \in SUBSET Txn
      /\ \A u \in F : u = t \/ t \in ancestors[u]
      /\ \A u \in Txn : Running(u) /\ t \in ancestors[u] => u \in F
  BY FamilyFacts
<1>2. store'[k] = Seen(F \ kept, k)
  BY EndStep
<1>3. PICK i \in kept : Last(kept, i, k)
  BY <1>1, LastExists
<1>4. A!Result(kept, k, old) = Seen(Descendants(i), k)
  BY <1>1, <1>3, ResultFacts
<1>5. i \in F /\ i \in Txn /\ WriteLocked(i, k) /\ Descendants(i) \in SUBSET Txn
  BY <1>1, <1>3 DEF Last, Descendants
<1> HIDE DEF F
<1>6. ASSUME NEW g \in Descendants(i), WriteLocked(g, k) PROVE g \in F \ kept
  <2>1. g \in Txn /\ Running(g) /\ i \in ancestors[g]
    BY DEF Descendants
  <2>2. g \in F
    BY <1>1, <1>5, <2>1 DEF Inv, TreeOK
  <2>3. g \notin kept
    <3>1. g \in kept => g = i \/ g \in ancestors[i]
      BY <1>3, <1>6 DEF Last
    <3> QED BY <1>5, <2>1, <3>1 DEF Inv, TreeOK, Txn
  <2> QED BY <2>2, <2>3
<1>7. CASE \A g \in F \ kept : ~WriteLocked(g, k)
  <2>1. Seen(F \ kept, k) = store[k]
    BY <1>1, <1>7, SeenFacts
  <2>2. Seen(Descendants(i), k) = store[k]
    BY <1>5, <1>6, <1>7, SeenFacts
  <2> QED BY <1>2, <1>4, <2>1, <2>2
<1>8. CASE \E g \in F \ kept : WriteLocked(g, k)
  <2>1. PICK h \in F \ kept : Outermost(F \ kept, h, k)
    BY <1>1, <1>8, OutermostExists
  <2>2. WriteLocked(h, k) /\ h \in Txn /\ h # i /\ Running(h)
    BY <1>1, <2>1 DEF Outermost, Inv, TreeOK, WriteLocked, Clean
  <2>3. i \in ancestors[h]
    <3>1. h \notin ancestors[i]
      BY <2>1 DEF UpperPart, F
    <3> QED BY <1>5, <2>2, <3>1, WritersRelated
  <2>4. h \in Descendants(i)
    BY <2>2, <2>3 DEF Descendants
  <2>5. Outermost(Descendants(i), h, k)
    BY <1>6, <2>1 DEF Outermost
  <2>6. Seen(F \ kept, k) = before[h][k]
    BY <1>1, <2>1, SeenFacts
  <2>7. Seen(Descendants(i), k) = before[h][k]
    BY <1>5, <2>4, <2>5, SeenFacts
  <2> QED BY <1>2, <1>4, <2>6, <2>7
<1> QED BY <1>7, <1>8

\* The work of a transaction outside the family that ends.
LEMMA EndWork ==
  ASSUME TreeInv, Inv', NEW t \in Txn, Running(t), NEW kept \in SUBSET Family(t),
         UpperPart(t, kept), EndFamily(t, kept), NEW k \in Key,
         NEW u \in Txn, u \notin Family(t)
  PROVE  Work'[u][k] = IF IsParent(u, t) THEN A!Result(kept, k, Work[u][k]) ELSE Work[u][k]
<1> DEFINE F == Family(t)
<1>1. /\ F \in SUBSET Txn /\ t \in F /\ kept \in SUBSET Txn
      /\ \A x \in F : Running(x) /\ (x = t \/ t \in ancestors[x])
      /\ \A x \in Txn : Running(x) /\ t \in ancestors[x] => x \in F
  BY FamilyFacts
<1>2. /\ ancestors' = ancestors
      /\ \A x \in F : before'[x][k] = NoImage
      /\ \A x \in Txn \ F :
           before'[x][k] = IF kept # {} /\ IsParent(x, t) /\ ~WriteLocked(x, k)
                             THEN ImageOf(kept, k) ELSE before[x][k]
      /\ \A x \in Txn : Running(x)' <=> Running(x) /\ x \notin F
  BY EndStep DEF TreeInv
<1>3. Inv /\ TypeOK /\ TypeOK'
  BY DEF TreeInv, Inv
<1> HIDE DEF F
<1>4. PICK T \in SUBSET Txn : T = Descendants(u)'
  BY DEF Descendants
<1>5. PICK S \in SUBSET Txn : S = Descendants(u)
  BY DEF Descendants
<1>6. T \in SUBSET S /\ S \ F \subseteq T
  BY <1>2, <1>4, <1>5 DEF Descendants
<1>7. Work'[u][k] = IF WriteLocked(u, k)' THEN Seen(T, k)' ELSE NoImage
  <2>1. Seen(Descendants(u), k)' = Seen(T, k)'
    BY <1>4 DEF Seen, ImageOf
  <2> QED BY <1>3, <2>1, MappingLater
<1>8. Work[u][k] = IF WriteLocked(u, k) THEN Seen(S, k) ELSE NoImage
  BY <1>3, <1>5, MappingFacts
<1>9. CASE IsParent(u, t) /\ \E c \in kept : WriteLocked(c, k)
  <2>1. PICK c \in kept : WriteLocked(c, k)
    BY <1>9
  <2>2. A!Result(kept, k, Work[u][k]) = store'[k]
    BY <1>3, <2>1, KeptResult
  <2>3. ImageOf(kept, k) # NoImage
    <3>1. PICK h \in kept : Outermost(kept, h, k)
      BY <1>1, <1>3, <2>1, OutermostExists
    <3> QED BY <1>1, <1>3, <3>1, ImageIs
  <2>4. WriteLocked(u, k)'
    BY <1>2, <1>9, <2>1, <2>3 DEF WriteLocked, F
  <2>5. ASSUME NEW g \in T PROVE before'[g][k] = NoImage
    <3>1. g \in Txn /\ u \in ancestors[g] /\ g \in Txn \ F
      BY <1>2, <1>4 DEF Descendants
    <3>2. g \notin ancestors[u] /\ g # u
      BY <3>1 DEF TreeInv, Inv, TreeOK, Txn
    <3>3. g \notin ancestors[t]
      BY <1>9, <3>2 DEF IsParent
    <3>4. ~WriteLocked(g, k)
      BY <1>3, <2>1, <3>1, <3>3, WriterOutside DEF F
    <3>5. ~IsParent(g, t)
      BY <3>3 DEF IsParent
    <3> QED BY <1>2, <3>1, <3>4, <3>5 DEF WriteLocked
  <2>6. Seen(T, k)' = store'[k]
    BY <2>5, SeenNoneLater
  <2> QED BY <1>7, <1>9, <2>2, <2>4, <2>6
<1>10. CASE ~(IsParent(u, t) /\ \E c \in kept : WriteLocked(c, k))
  <2>1. IsParent(u, t) => A!Result(kept, k, Work[u][k]) = Work[u][k]
    BY <1>1, <1>3, <1>10, ResultFacts
  <2>2. before'[u][k] = before[u][k]
    <3>1. IsParent(u, t) => ImageOf(kept, k) = NoImage
      BY <1>10, ImageNone
    <3> QED BY <1>2, <3>1 DEF WriteLocked, F
  <2>3. CASE ~WriteLocked(u, k)
    <3>1. Work'[u][k] = NoImage /\ Work[u][k] = NoImage
      BY <1>7, <1>8, <2>2, <2>3 DEF WriteLocked
    <3> QED BY <2>1, <3>1
  <2>4. CASE WriteLocked(u, k)
    <3>1. ASSUME NEW x \in F, WriteLocked(x, k) PROVE x \in S
      BY <1>1, <1>3, <1>5, <2>4, <3>1, WriterOutside DEF Descendants, F
    <3>2. ASSUME NEW x \in kept, WriteLocked(x, k) PROVE \E y \in S : IsParent(y, t)
      <4>1. u \in ancestors[t]
        BY <1>3, <2>4, <3>2, WriterOutside DEF F
      <4>2. PICK y \in ancestors[t] : IsParent(y, t)
        BY <4>1 DEF TreeInv, ParentOK
      <4>3. y \in Txn /\ Running(y)
        BY <1>3, <4>2 DEF Inv, TreeOK, TypeOK
      <4>4. u \in ancestors[y]
        BY <1>10, <3>2, <4>1, <4>2 DEF IsParent
      <4> QED BY <1>5, <4>2, <4>3, <4>4 DEF Descendants
    <3>3. Seen(T, k)' = Seen(S, k)
      BY <1>3, <1>6, <3>1, <3>2, SeenEnd DEF F
    <3>4. Work'[u][k] = Work[u][k]
      BY <1>7, <1>8, <2>2, <2>4, <3>3 DEF WriteLocked
    <3> QED BY <2>1, <3>4
  <2> QED BY <2>3, <2>4
<1> QED BY <1>9, <1>10

\* The committed store changes only with a root.
LEMMA EndCommitted ==
  ASSUME TreeInv, Inv', NEW t \in Txn, Running(t), NEW kept \in SUBSET Family(t),
         UpperPart(t, kept), EndFamily(t, kept), NEW k \in Key
  PROVE  Committed'[k] = IF ancestors[t] = {} THEN A!Result(kept, k, Committed[k])
                                              ELSE Committed[k]
<1> DEFINE F == Family(t)
<1>1. /\ F \in SUBSET Txn /\ kept \in SUBSET Txn /\ Inv /\ TypeOK /\ TypeOK'
      /\ Txn \in SUBSET Txn /\ Txn \ F \subseteq Txn
  BY FamilyFacts DEF TreeInv, Inv
<1>2. /\ \A x \in F : before'[x][k] = NoImage
      /\ \A x \in Txn \ F :
           before'[x][k] = IF kept # {} /\ IsParent(x, t) /\ ~WriteLocked(x, k)
                             THEN ImageOf(kept, k) ELSE before[x][k]
  BY EndStep DEF TreeInv
<1>3. Committed[k] = Seen(Txn, k) /\ Committed'[k] = Seen(Txn, k)'
  BY <1>1, MappingFacts, MappingLater
<1> HIDE DEF F
<1>4. CASE ancestors[t] = {} /\ \E c \in kept : WriteLocked(c, k)
  <2>1. PICK c \in kept : WriteLocked(c, k)
    BY <1>4
  <2>2. A!Result(kept, k, Committed[k]) = store'[k]
    BY <1>1, <2>1, KeptResult
  <2>3. ASSUME NEW g \in Txn PROVE before'[g][k] = NoImage
    <3>1. CASE g \in F
      BY <1>2, <3>1
    <3>2. CASE g \notin F
      <4>1. ~WriteLocked(g, k)
        BY <1>1, <1>4, <2>1, <3>2, WriterOutside DEF F
      <4>2. ~IsParent(g, t)
        BY <1>4 DEF IsParent
      <4> QED BY <1>2, <3>2, <4>1, <4>2 DEF WriteLocked
    <3> QED BY <3>1, <3>2
  <2>4. Seen(Txn, k)' = store'[k]
    BY <2>3, SeenNoneLater
  <2> QED BY <1>3, <1>4, <2>2, <2>4
<1>5. CASE ~(ancestors[t] = {} /\ \E c \in kept : WriteLocked(c, k))
  <2>1. ancestors[t] = {} => A!Result(kept, k, Committed[k]) = Committed[k]
    BY <1>1, <1>5, ResultFacts
  <2>2. ASSUME NEW x \in kept, WriteLocked(x, k) PROVE \E y \in Txn : IsParent(y, t)
    <3>1. PICK y \in ancestors[t] : IsParent(y, t)
      BY <1>5, <2>2 DEF TreeInv, ParentOK
    <3> QED BY <1>1, <3>1 DEF TypeOK
  <2>3. \A x \in F : WriteLocked(x, k) => x \in Txn
    BY <1>1
  <2>4. Seen(Txn, k)' = Seen(Txn, k)
    BY <1>1, <2>2, <2>3, SeenEnd DEF F
  <2> QED BY <1>3, <2>1, <2>4
<1> QED BY <1>4, <1>5

\* __txn_commit and __txn_abort end a family as the abstract store does.
LEMMA EndFamilyRefines ==
  ASSUME TreeInv, Inv', NEW t \in Txn, Running(t), NEW kept \in SUBSET Family(t),
         UpperPart(t, kept), EndFamily(t, kept)
  PROVE  A!Next
<1>1. A!Family(t) = Family(t)
  BY DEF A!Family, A!Running, A!Txn, Family, Descendants, Running, Txn
<1>2. status' = [u \in Txn |-> IF u \in kept THEN "committed"
                               ELSE IF u \in Family(t) THEN "aborted" ELSE status[u]]
  BY DEF EndFamily
<1>3. ASSUME NEW u \in Txn, NEW k \in Key
      PROVE  Work'[u][k] = IF u \in Family(t) THEN NoImage
                           ELSE IF IsParent(u, t) THEN A!Result(kept, k, Work[u][k])
                           ELSE Work[u][k]
  <2>1. CASE u \in Family(t)
    <3>1. ~WriteLocked(u, k)'
      BY <2>1, EndStep DEF TreeInv, WriteLocked
    <3> QED BY <2>1, <3>1, MappingLater DEF Inv
  <2>2. CASE u \notin Family(t)
    BY <2>2, EndWork
  <2> QED BY <2>1, <2>2
<1>4. Work' = [u \in Txn |-> [k \in Key |->
                 IF u \in Family(t) THEN NoImage
                 ELSE IF IsParent(u, t) THEN A!Result(kept, k, Work[u][k])
                 ELSE Work[u][k]]]
  BY <1>3 DEF Work
<1>5. \A u \in Txn : A!IsParent(u, t) <=> IsParent(u, t)
  BY DEF A!IsParent, IsParent
<1>6. Committed' = IF ancestors[t] = {} THEN [k \in Key |-> A!Result(kept, k, Committed[k])]
                                        ELSE Committed
  BY EndCommitted DEF Committed
<1>7. ancestors' = ancestors
  BY DEF EndFamily
<1>8. A!End(t, kept)
  BY <1>1, <1>2, <1>4, <1>5, <1>6, <1>7 DEF A!End, A!Running, A!Txn, Txn, Running, UpperPart
<1> QED BY <1>1, <1>8 DEF A!Next, A!Txn, Txn

\* Each step of the transaction subsystem is a step of the abstract store, or none.
LEMMA NextRefines ==
  ASSUME ~ParentMayOperate
  PROVE  TreeInv /\ [Next]_vars => [A!Next]_A!vars
<1> SUFFICES ASSUME TreeInv, [Next]_vars PROVE A!Next \/ UNCHANGED A!vars
  OBVIOUS
<1>1. Inv /\ Inv'
  BY NextInv DEF TreeInv
<1>2. CASE UNCHANGED <<status, ancestors, before, store>>
  BY <1>1, <1>2, QuietRefines
<1>3. CASE \E p \in Txn \cup {None} : TxnBegin(p)
  BY <1>3, TxnBeginRefines
<1>4. CASE \E t \in Txn, k \in Key, v \in Val : DbPut(t, k, v)
  BY <1>4, DbPutRefines
<1>5. ASSUME NEW t \in Txn, TxnCommit(t) PROVE A!Next
  <2>1. t \notin ancestors[t] /\ \A d \in Txn : ~(d \in ancestors[t] /\ t \in ancestors[d])
    BY <1>1 DEF Inv, TreeOK, Txn
  <2>2. ASSUME Kept(t) # {} PROVE t \in Kept(t)
    BY <2>1, <2>2 DEF Kept, Family, Descendants
  <2>3. ASSUME NEW c \in Kept(t), NEW d \in Family(t), d \in ancestors[c] PROVE d \in Kept(t)
    <3>1. c \in Txn /\ ancestors[d] \subseteq ancestors[c]
      BY <1>1, <2>3 DEF Kept, Family, Descendants, Inv, TreeOK
    <3> QED BY <2>3, <3>1 DEF Kept
  <2>4. UpperPart(t, Kept(t))
    BY <2>2, <2>3 DEF UpperPart
  <2> QED BY <1>1, <1>5, <2>4, KeptFacts, EndFamilyRefines DEF TxnCommit
<1>6. ASSUME NEW t \in Txn, TxnAbort(t) PROVE A!Next
  <2>1. {} \in SUBSET Family(t) /\ UpperPart(t, {})
    BY DEF UpperPart
  <2> QED BY <1>1, <1>6, <2>1, EndFamilyRefines DEF TxnAbort
<1> QED BY <1>2, <1>3, <1>4, <1>5, <1>6
        DEF Next, vars, DbGet, LockRefused, CursorOpen, CursorClose, Panic

\* In-place update with locks and undo implements atomic, isolated nested
\* transactions of any number and depth, for an application that leaves a parent
\* alone while it has active kids.
THEOREM AtomicStoreTheorem ==
  ASSUME ~ParentMayOperate
  PROVE  Spec => ImplementsAtomicStore
<1>1. TreeInv /\ [Next]_vars => [A!Next]_A!vars
  BY NextRefines
<1> QED BY <1>1, InitRefines, TreeInvariance, PTL DEF Spec, ImplementsAtomicStore, A!Spec

=============================================================================
