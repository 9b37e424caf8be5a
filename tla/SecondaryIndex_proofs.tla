------------------------ MODULE SecondaryIndex_proofs ------------------------
(***************************************************************************)
(* What holds of a primary and its secondary indexes for any number of     *)
(* threads, keys, values and indexes: two-phase locking, page by page,     *)
(* keeps every index in step with the records although no operation locks  *)
(* the record first.                                                       *)
(*                                                                         *)
(* The argument looks at the database through the eyes of one transaction: *)
(* what it has changed itself, and for the rest what was committed last.   *)
(* What it sees is always consistent but for the entries of the one key    *)
(* its operation is at work on; a commit turns what it sees into what is   *)
(* committed; and a locked page is what every lock holder sees.            *)
(*                                                                         *)
(* That a circle of waiting threads needs a replacement in it is about the *)
(* order of the locks instead: without one a thread waits only for threads *)
(* that are further on, and a finite number of threads has a last one.     *)
(***************************************************************************)
EXTENDS SecondaryIndex, WellFoundedInduction, SequenceTheorems, FiniteSetTheorems, TLAPS

-----------------------------------------------------------------------------
(* Induction on numbers, and functions defined by recursion on them *)

\* Every set of numbers that is not empty has a least one.
LEMMA LeastNat ==
  ASSUME NEW S, S \subseteq Nat, S # {}
  PROVE  \E n \in S : \A m \in S : n =< m
<1>1. IsWellFoundedOn(OpToRel(<, Nat), Nat)
  BY NatLessThanWellFounded
<1>2. PICK n \in S : \A m \in S : ~(<<m, n>> \in OpToRel(<, Nat))
  BY <1>1, WFMin
<1>3. \A m \in S : ~(m < n)
  BY <1>2 DEF OpToRel
<1> QED BY <1>3

\* Induction: a set with 0, and with n + 1 for every n in it.
LEMMA SetInduction ==
  ASSUME NEW S, 0 \in S, \A n \in Nat : n \in S => n + 1 \in S
  PROVE  Nat \subseteq S
<1> SUFFICES ASSUME Nat \ S # {} PROVE FALSE
  OBVIOUS
<1>1. PICK n \in Nat \ S : \A m \in Nat \ S : n =< m
  BY LeastNat
<1>2. n # 0 /\ n - 1 \in Nat
  BY <1>1
<1>3. n - 1 \in S
  BY <1>1, <1>2
<1> QED BY <1>1, <1>2, <1>3

\* f is defined on 0..N by recursion to the number before.
CountStep(N, V, base, step) == base \in V /\ step \in [1..N -> [V -> V]]

ByCount(f, N, V, base, step) ==
    /\ f \in [0..N -> V]
    /\ \A n \in 0..N : f[n] = IF n = 0 THEN base ELSE step[n][f[n - 1]]

LEMMA CountRecursion ==
  ASSUME NEW N \in Nat, NEW V, NEW base, NEW step, CountStep(N, V, base, step)
  PROVE  \E f : ByCount(f, N, V, base, step)
<1> USE DEF CountStep
<1> DEFINE ByTheRule(n, f) ==
              \A m \in 0..n : f[m] = IF m = 0 THEN base ELSE step[m][f[m - 1]]
           S == {n \in Nat : n =< N => \E f \in [0..n -> V] : ByTheRule(n, f)}
<1>1. 0 \in S
  <2>1. [m \in 0..0 |-> base] \in [0..0 -> V] /\ ByTheRule(0, [m \in 0..0 |-> base])
    OBVIOUS
  <2> QED BY <2>1
<1>2. ASSUME NEW n \in Nat, n \in S PROVE n + 1 \in S
  <2> SUFFICES ASSUME n + 1 =< N PROVE \E f \in [0..n + 1 -> V] : ByTheRule(n + 1, f)
    OBVIOUS
  <2>1. PICK f \in [0..n -> V] : ByTheRule(n, f)
    BY <1>2
  <2>2. PICK g : g = [m \in 0..n + 1 |-> IF m = n + 1 THEN step[n + 1][f[n]] ELSE f[m]]
    OBVIOUS
  <2>3. step[n + 1][f[n]] \in V
    BY <2>1
  <2>4. g \in [0..n + 1 -> V]
    BY <2>1, <2>2, <2>3
  <2>5. ASSUME NEW m \in 0..n + 1
        PROVE  g[m] = IF m = 0 THEN base ELSE step[m][g[m - 1]]
    <3>1. CASE m = n + 1
      BY <3>1, <2>2
    <3>2. CASE m # n + 1
      <4>1. m \in 0..n /\ g[m] = f[m]
        BY <3>2, <2>2
      <4>2. m # 0 => g[m - 1] = f[m - 1]
        BY <4>1, <2>2
      <4> QED BY <4>1, <4>2, <2>1
    <3> QED BY <3>1, <3>2
  <2> QED BY <2>4, <2>5
<1> HIDE DEF S
<1>3. N \in S
  BY <1>1, <1>2, SetInduction
<1>4. PICK f \in [0..N -> V] : ByTheRule(N, f)
  BY <1>3 DEF S
<1> QED BY <1>4 DEF ByCount

-----------------------------------------------------------------------------
(* Types *)

Steps1 == {"new", "get", "old", "put", "position", "getcur", "cur", "curput"}

Operation ==
    [at : Steps1 \cup {"idle", "getdel", "del", "erase", "secdel", "pget", "data", "undo"},
     n : Nat, i : Index, from : Index, key : Key \cup {Absent}, val : Value \cup {Absent},
     skey : SecKey \cup {DoNotIndex}, old : Value \cup {Absent},
     rc : {"none", "ok", "DB_NOTFOUND", "DB_SECONDARY_BAD", "timed_out", "half_done"}]

Change ==
    [what : {"added", "removed"}, i : Index, e : SecKey \X Key]
        \cup [what : {"set"}, key : Key, old : Value \cup {Absent}]

-----------------------------------------------------------------------------
(* What a transaction has changed, and what was there before. *)

IsEntry(c, i, e) == c.what # "set" /\ c.i = i /\ c.e = e
IsRecord(c, k) == c.what = "set" /\ c.key = k

ChangedEntry(p, i, e) == \E n \in DOMAIN undo[p] : IsEntry(undo[p][n], i, e)
ChangedRecord(p, k) == \E n \in DOMAIN undo[p] : IsRecord(undo[p][n], k)

\* The n-th change of p is its first one of the entry, or the record.
FirstOfEntry(p, n, i, e) ==
    /\ n \in DOMAIN undo[p] /\ IsEntry(undo[p][n], i, e)
    /\ \A m \in DOMAIN undo[p] : m < n => ~IsEntry(undo[p][m], i, e)
FirstOfRecord(p, n, k) ==
    /\ n \in DOMAIN undo[p] /\ IsRecord(undo[p][n], k)
    /\ \A m \in DOMAIN undo[p] : m < n => ~IsRecord(undo[p][m], k)

\* The entry was in the index, or was not, when a transaction last committed it.
WasIn(i, e) ==
    \/ \E p \in Proc : \E n \in DOMAIN undo[p] :
          FirstOfEntry(p, n, i, e) /\ undo[p][n].what = "removed"
    \/ (\A p \in Proc : ~ChangedEntry(p, i, e)) /\ e \in sec[i]
WasOut(i, e) ==
    \/ \E p \in Proc : \E n \in DOMAIN undo[p] :
          FirstOfEntry(p, n, i, e) /\ undo[p][n].what = "added"
    \/ (\A p \in Proc : ~ChangedEntry(p, i, e)) /\ e \notin sec[i]

\* v was committed last as the value of k.
WasValue(k, v) ==
    \/ \E p \in Proc : \E n \in DOMAIN undo[p] :
          FirstOfRecord(p, n, k) /\ undo[p][n].old = v
    \/ (\A p \in Proc : ~ChangedRecord(p, k)) /\ v = primary[k]

\* What p sees.
SeesIn(p, i, e) == IF ChangedEntry(p, i, e) THEN e \in sec[i] ELSE WasIn(i, e)
SeesOut(p, i, e) == IF ChangedEntry(p, i, e) THEN e \notin sec[i] ELSE WasOut(i, e)
SeesValue(p, k, v) == IF ChangedRecord(p, k) THEN v = primary[k] ELSE WasValue(k, v)

-----------------------------------------------------------------------------
(* How far an operation o is with the entries of its key. *)

HasNew(o, i) ==
    \/ o.at \in {"get", "old", "put"}
    \/ o.at \in {"new", "cur", "curput"} /\ i < o.i

HasOld(o, i) ==
    /\ o.at \notin {"put", "erase"}
    /\ o.at \in {"old", "del", "cur"} => i >= o.i
    /\ o.at = "curput" => i > o.i

\* Nothing but an abort is left to do, as long as no index is spoilt.
Doomed(o) == o.at = "undo" \/ (o.at = "idle" /\ o.rc = "half_done")

\* The index has an entry with s for key k, which has the value v.
Expected(o, k, v, i, s) ==
    \/ v # Absent /\ Extract[i][v] = s /\ (k = o.key => HasOld(o, i))
    \/ k = o.key /\ HasNew(o, i) /\ Extract[i][o.val] = s

Consistent(p) ==
    \A k \in Key, v \in Value \cup {Absent}, i \in Index, s \in SecKey :
        SeesValue(p, k, v) =>
            /\ SeesIn(p, i, <<s, k>>) => Expected(op[p], k, v, i, s)
            /\ SeesOut(p, i, <<s, k>>) => ~Expected(op[p], k, v, i, s)

\* Also to nobody in particular.
CommittedConsistent ==
    \A k \in Key, v \in Value \cup {Absent}, i \in Index, s \in SecKey :
        WasValue(k, v) =>
            /\ WasIn(i, <<s, k>>) => v # Absent /\ Extract[i][v] = s
            /\ WasOut(i, <<s, k>>) => ~(v # Absent /\ Extract[i][v] = s)

-----------------------------------------------------------------------------
(* Locks. *)

Writes(p, page) == <<p, "w", page>> \in held
Reads(p, page) == Writes(p, page) \/ <<p, "r", page>> \in held

Exclusive == \A l, m \in held : l[3] = m[3] /\ l[1] # m[1] => l[2] = "r" /\ m[2] = "r"

\* What p has changed is locked for writing; an entry of a key whose record is
\* not locked yet is the new one of a put.
ChangesLocked(p) ==
    /\ \A k \in Key : ChangedRecord(p, k) => Writes(p, PrimaryPage(k))
    /\ \A i \in Index, s \in SecKey, k \in Key : ChangedEntry(p, i, <<s, k>>) =>
         /\ Writes(p, SecPage(i, s))
         /\ \/ Doomed(op[p])
            \/ Writes(p, PrimaryPage(k))
            \/ /\ op[p].at \in {"new", "get"} /\ k = op[p].key
               /\ HasNew(op[p], i) /\ Extract[i][op[p].val] = s

\* A put that does not have the record locked yet has its new entries locked.
NewIsIn(p) ==
    LET o == op[p]
    IN o.at \in {"new", "get"} => \A i \in Index :
         HasNew(o, i) /\ Extract[i][o.val] # DoNotIndex
             => /\ Writes(p, SecPage(i, Extract[i][o.val]))
                /\ <<Extract[i][o.val], o.key>> \in sec[i]

\* What p knows of the record and the entry its operation is at.
Knows(p) ==
    LET o == op[p]
    IN  /\ o.at \in Steps1 => o.key \in Key /\ o.val \in Value
        /\ o.at \in {"getdel", "del", "erase", "data"} => o.key \in Key
        /\ o.at \in {"secdel", "pget", "data"} => o.skey \in SecKey
        /\ NewIsIn(p)
        /\ o.at \in {"get", "position", "getcur"} => o.i = 1
        /\ o.at \in {"old", "put", "cur", "curput", "del", "erase"} =>
             Writes(p, PrimaryPage(o.key))
        /\ o.at \in {"old", "cur", "curput", "del"} =>
             primary[o.key] = o.old /\ o.old \in Value
        /\ o.at = "curput" => Extract[o.i][o.val] # DoNotIndex
        /\ o.at = "getcur" => Reads(p, PrimaryPage(o.key)) /\ primary[o.key] # Absent
        /\ o.at = "getdel" /\ o.skey # DoNotIndex =>
             Writes(p, SecPage(o.i, o.skey)) /\ <<o.skey, o.key>> \in sec[o.i]
        /\ o.at = "data" =>
             Reads(p, SecPage(o.i, o.skey)) /\ <<o.skey, o.key>> \in sec[o.i]

Found(o) ==
    o.at = "idle" /\ o.rc = "ok" /\ o.skey # DoNotIndex => Extract[o.i][o.val] = o.skey

Types ==
    /\ primary \in [Key -> Value \cup {Absent}]
    /\ sec \in [Index -> SUBSET (SecKey \X Key)]
    /\ held \subseteq Proc \X {"r", "w"} \X (({0} \cup Index) \X (Key \cup SecKey))
    /\ op \in [Proc -> Operation]
    /\ undo \in [Proc -> Seq(Change)]

Inv ==
    /\ Types
    /\ Exclusive
    /\ CommittedConsistent
    /\ \A p \in Proc :
         /\ ChangesLocked(p)
         /\ ~Doomed(op[p]) => Consistent(p)
         /\ Knows(p)
         /\ Found(op[p])
         /\ op[p].rc # "DB_SECONDARY_BAD"

-----------------------------------------------------------------------------
(* The undo log. *)

\* A change is added at the end of the log of one transaction: what was changed
\* first stays first.
LEMMA PushFacts ==
  ASSUME Types, NEW p \in Proc, NEW c \in Change,
         undo' = [undo EXCEPT ![p] = Append(@, c)]
  PROVE  /\ undo' \in [Proc -> Seq(Change)]
         /\ \A q \in Proc : \A i, e :
              ChangedEntry(q, i, e)' <=> ChangedEntry(q, i, e) \/ (q = p /\ IsEntry(c, i, e))
         /\ \A q \in Proc : \A k :
              ChangedRecord(q, k)' <=> ChangedRecord(q, k) \/ (q = p /\ IsRecord(c, k))
         /\ \A q \in Proc : \A n, i, e : FirstOfEntry(q, n, i, e)' =>
              \/ FirstOfEntry(q, n, i, e) /\ undo'[q][n] = undo[q][n]
              \/ q = p /\ undo'[q][n] = c /\ IsEntry(c, i, e) /\ ~ChangedEntry(p, i, e)
         /\ \A q \in Proc : \A n, k : FirstOfRecord(q, n, k)' =>
              \/ FirstOfRecord(q, n, k) /\ undo'[q][n] = undo[q][n]
              \/ q = p /\ undo'[q][n] = c /\ IsRecord(c, k) /\ ~ChangedRecord(p, k)
<1> DEFINE L == Len(undo[p])
<1>1. undo[p] \in Seq(Change) /\ L \in Nat /\ DOMAIN undo[p] = 1..L
  BY LenProperties DEF Types
<1>2. /\ Append(undo[p], c) \in Seq(Change)
      /\ DOMAIN Append(undo[p], c) = 1..(L + 1)
      /\ \A n \in 1..L : Append(undo[p], c)[n] = undo[p][n]
      /\ Append(undo[p], c)[L + 1] = c
  BY <1>1, AppendProperties, LenProperties
<1>3. /\ undo' \in [Proc -> Seq(Change)]
      /\ undo'[p] = Append(undo[p], c)
      /\ \A q \in Proc : q # p => undo'[q] = undo[q]
  BY <1>1, <1>2 DEF Types
<1>4. /\ DOMAIN undo'[p] = 1..(L + 1)
      /\ \A n \in DOMAIN undo[p] : n \in DOMAIN undo'[p] /\ undo'[p][n] = undo[p][n]
      /\ \A n \in DOMAIN undo'[p] :
           \/ n \in DOMAIN undo[p]
           \/ n = L + 1 /\ undo'[p][n] = c /\ \A m \in DOMAIN undo[p] : m < n
      /\ L + 1 \in DOMAIN undo'[p] /\ undo'[p][L + 1] = c
  BY <1>1, <1>2, <1>3
<1> HIDE DEF L
<1>5. \A q \in Proc : \A i, e :
        ChangedEntry(q, i, e)' <=> ChangedEntry(q, i, e) \/ (q = p /\ IsEntry(c, i, e))
  BY <1>3, <1>4 DEF ChangedEntry
<1>6. \A q \in Proc : \A k :
        ChangedRecord(q, k)' <=> ChangedRecord(q, k) \/ (q = p /\ IsRecord(c, k))
  BY <1>3, <1>4 DEF ChangedRecord
<1>7. ASSUME NEW q \in Proc, NEW n, NEW i, NEW e, FirstOfEntry(q, n, i, e)'
      PROVE  \/ FirstOfEntry(q, n, i, e) /\ undo'[q][n] = undo[q][n]
             \/ q = p /\ undo'[q][n] = c /\ IsEntry(c, i, e) /\ ~ChangedEntry(p, i, e)
  <2>1. CASE q # p
    BY <1>3, <1>7, <2>1 DEF FirstOfEntry
  <2>2. CASE q = p
    BY <1>4, <1>7, <2>2 DEF FirstOfEntry, ChangedEntry
  <2> QED BY <2>1, <2>2
<1>8. ASSUME NEW q \in Proc, NEW n, NEW k, FirstOfRecord(q, n, k)'
      PROVE  \/ FirstOfRecord(q, n, k) /\ undo'[q][n] = undo[q][n]
             \/ q = p /\ undo'[q][n] = c /\ IsRecord(c, k) /\ ~ChangedRecord(p, k)
  <2>1. CASE q # p
    BY <1>3, <1>8, <2>1 DEF FirstOfRecord
  <2>2. CASE q = p
    BY <1>4, <1>8, <2>2 DEF FirstOfRecord, ChangedRecord
  <2> QED BY <2>1, <2>2
<1> QED BY <1>3, <1>5, <1>6, <1>7, <1>8

\* The last change of the log is taken off it.
LEMMA PopFacts ==
  ASSUME Types, NEW p \in Proc, undo[p] # <<>>, undo' = [undo EXCEPT ![p] = Front(@)],
         NEW c, c = Last(undo[p])
  PROVE  /\ undo' \in [Proc -> Seq(Change)]
         /\ c \in Change
         /\ \A q \in Proc : q # p => undo'[q] = undo[q]
         /\ \A q \in Proc : \A i, e : ChangedEntry(q, i, e)' => ChangedEntry(q, i, e)
         /\ \A q \in Proc : \A i, e :
              ChangedEntry(q, i, e) => ChangedEntry(q, i, e)' \/ (q = p /\ IsEntry(c, i, e))
         /\ \A q \in Proc : \A k : ChangedRecord(q, k)' => ChangedRecord(q, k)
         /\ \A q \in Proc : \A k :
              ChangedRecord(q, k) => ChangedRecord(q, k)' \/ (q = p /\ IsRecord(c, k))
         /\ \A q \in Proc : \A n, i, e : FirstOfEntry(q, n, i, e)' =>
              n \in DOMAIN undo[q] /\ FirstOfEntry(q, n, i, e) /\ undo'[q][n] = undo[q][n]
         /\ \A q \in Proc : \A n, k : FirstOfRecord(q, n, k)' =>
              n \in DOMAIN undo[q] /\ FirstOfRecord(q, n, k) /\ undo'[q][n] = undo[q][n]
         /\ \A i, e : IsEntry(c, i, e) => ChangedEntry(p, i, e) /\
              (ChangedEntry(p, i, e)' \/ FirstOfEntry(p, Len(undo[p]), i, e))
         /\ \A k : IsRecord(c, k) => ChangedRecord(p, k) /\
              (ChangedRecord(p, k)' \/ FirstOfRecord(p, Len(undo[p]), k))
         /\ Len(undo[p]) \in DOMAIN undo[p] /\ undo[p][Len(undo[p])] = c
<1> DEFINE L == Len(undo[p])
<1>1. undo[p] \in Seq(Change) /\ L \in Nat \ {0} /\ DOMAIN undo[p] = 1..L
  BY LenProperties, EmptySeq DEF Types
<1>2. /\ Front(undo[p]) \in Seq(Change) /\ Len(Front(undo[p])) = L - 1
      /\ \A n \in 1..(L - 1) : Front(undo[p])[n] = undo[p][n]
  <2>1. \A n \in 1..(L - 1) : undo[p][n] \in Change
    BY <1>1, ElementOfSeq
  <2> QED BY <1>1, <2>1, SubSeqProperties DEF Front
<1>3. DOMAIN Front(undo[p]) = 1..(L - 1)
  BY <1>2, LenProperties
<1>4. /\ undo' \in [Proc -> Seq(Change)]
      /\ undo'[p] = Front(undo[p])
      /\ \A q \in Proc : q # p => undo'[q] = undo[q]
  BY <1>1, <1>2 DEF Types
<1>5. c = undo[p][L] /\ c \in Change
  BY <1>1, ElementOfSeq DEF Last
<1>6. /\ L \in DOMAIN undo[p]
      /\ \A n \in DOMAIN undo'[p] : n \in DOMAIN undo[p] /\ undo'[p][n] = undo[p][n] /\ n < L
      /\ \A n \in DOMAIN undo[p] : n \in DOMAIN undo'[p] \/ n = L
      /\ \A n \in DOMAIN undo[p], m \in DOMAIN undo'[p] :
           n < m => n \in DOMAIN undo'[p]
  BY <1>1, <1>2, <1>3, <1>4
<1> HIDE DEF L
<1>7. /\ \A q \in Proc : \A i, e : ChangedEntry(q, i, e)' => ChangedEntry(q, i, e)
      /\ \A q \in Proc : \A i, e :
           ChangedEntry(q, i, e) => ChangedEntry(q, i, e)' \/ (q = p /\ IsEntry(c, i, e))
  BY <1>4, <1>5, <1>6 DEF ChangedEntry
<1>8. /\ \A q \in Proc : \A k : ChangedRecord(q, k)' => ChangedRecord(q, k)
      /\ \A q \in Proc : \A k :
           ChangedRecord(q, k) => ChangedRecord(q, k)' \/ (q = p /\ IsRecord(c, k))
  BY <1>4, <1>5, <1>6 DEF ChangedRecord
<1>9. ASSUME NEW q \in Proc, NEW n, NEW i, NEW e, FirstOfEntry(q, n, i, e)'
      PROVE  n \in DOMAIN undo[q] /\ FirstOfEntry(q, n, i, e) /\ undo'[q][n] = undo[q][n]
  <2>1. CASE q # p
    BY <1>4, <1>9, <2>1 DEF FirstOfEntry
  <2>2. CASE q = p
    BY <1>6, <1>9, <2>2 DEF FirstOfEntry
  <2> QED BY <2>1, <2>2
<1>10. ASSUME NEW q \in Proc, NEW n, NEW k, FirstOfRecord(q, n, k)'
       PROVE  n \in DOMAIN undo[q] /\ FirstOfRecord(q, n, k) /\ undo'[q][n] = undo[q][n]
  <2>1. CASE q # p
    BY <1>4, <1>10, <2>1 DEF FirstOfRecord
  <2>2. CASE q = p
    BY <1>6, <1>10, <2>2 DEF FirstOfRecord
  <2> QED BY <2>1, <2>2
<1>11. \A m \in DOMAIN undo[p] : m < L => m \in DOMAIN undo'[p] /\ undo'[p][m] = undo[p][m]
  BY <1>1, <1>2, <1>3, <1>4 DEF L
<1>12. \A i, e : IsEntry(c, i, e) => ChangedEntry(p, i, e) /\
              (ChangedEntry(p, i, e)' \/ FirstOfEntry(p, L, i, e))
  BY <1>5, <1>6, <1>11 DEF ChangedEntry, FirstOfEntry
<1>13. \A k : IsRecord(c, k) => ChangedRecord(p, k) /\
              (ChangedRecord(p, k)' \/ FirstOfRecord(p, L, k))
  BY <1>5, <1>6, <1>11 DEF ChangedRecord, FirstOfRecord
<1> QED BY <1>4, <1>5, <1>6, <1>7, <1>8, <1>9, <1>10, <1>12, <1>13 DEF L

-----------------------------------------------------------------------------
(* What one transaction does, to the others. *)

\* A step of p that changes only what p has locked for writing, and remembers
\* what was there: what was committed stays the same.
Keeps(p) ==
    /\ Types' /\ Exclusive'
    /\ held \subseteq held' /\ \A l \in held' \ held : l[1] = p
    /\ \A q \in Proc \ {p} : op'[q] = op[q] /\ undo'[q] = undo[q]
    /\ \A i \in Index : \A e : WasIn(i, e)' => WasIn(i, e)
    /\ \A i \in Index : \A e : WasOut(i, e)' => WasOut(i, e)
    /\ \A k \in Key : \A v : WasValue(k, v)' => WasValue(k, v)
    /\ \A i \in Index, s \in SecKey, k \in Key :
         ~(<<s, k>> \in sec'[i] <=> <<s, k>> \in sec[i]) => Writes(p, SecPage(i, s))'
    /\ \A k \in Key : primary'[k] # primary[k] => Writes(p, PrimaryPage(k))'

\* A locked page belongs to one writer, or to readers.
LEMMA OneWriter ==
  ASSUME Exclusive, NEW p, NEW q, p # q, NEW page
  PROVE  ~(Writes(q, page) /\ Reads(p, page))
BY DEF Exclusive, Writes, Reads

\* What another transaction sees, knows and has locked stays as it is.
LEMMA KeepsOther ==
  ASSUME Inv, NEW p \in Proc, Keeps(p), NEW q \in Proc, q # p
  PROVE  /\ ChangesLocked(q)'
         /\ (~Doomed(op[q]) => Consistent(q))'
         /\ Knows(q)'
         /\ Found(op[q])'
         /\ (op[q].rc # "DB_SECONDARY_BAD")'
<1>1. op'[q] = op[q] /\ undo'[q] = undo[q] /\ op[q] \in Operation
  BY DEF Keeps, Inv, Types
<1>2. \A page, mode : <<q, mode, page>> \in held' <=> <<q, mode, page>> \in held
  BY DEF Keeps
<1>3. \A page : /\ Writes(q, page)' <=> Writes(q, page)
                /\ Reads(q, page)' <=> Reads(q, page)
                /\ Reads(q, page) => ~Writes(p, page)'
  <2> TAKE page
  <2>1. Writes(q, page)' <=> Writes(q, page)
    BY <1>2 DEF Writes
  <2>2. Reads(q, page)' <=> Reads(q, page)
    BY <1>2, <2>1 DEF Reads
  <2>3. Reads(q, page)' => ~Writes(p, page)'
    BY DEF Keeps, Exclusive, Writes, Reads
  <2> QED BY <2>1, <2>2, <2>3
<1>4. /\ \A i, e : ChangedEntry(q, i, e)' <=> ChangedEntry(q, i, e)
      /\ \A k : ChangedRecord(q, k)' <=> ChangedRecord(q, k)
  BY <1>1 DEF ChangedEntry, ChangedRecord
<1>5. \A i \in Index, s \in SecKey, k \in Key : Reads(q, SecPage(i, s)) =>
        (<<s, k>> \in sec'[i] <=> <<s, k>> \in sec[i])
  BY <1>3 DEF Keeps
<1>6. \A k \in Key : Reads(q, PrimaryPage(k)) => primary'[k] = primary[k]
  BY <1>3 DEF Keeps
<1>7. \A page : Writes(q, page) => Reads(q, page)
  BY DEF Reads
<1>8. /\ ChangesLocked(q) /\ Knows(q) /\ Found(op[q])
      /\ ~Doomed(op[q]) => Consistent(q)
      /\ op[q].rc # "DB_SECONDARY_BAD"
  BY DEF Inv
<1>9. ChangesLocked(q)'
  BY <1>1, <1>3, <1>4, <1>8 DEF ChangesLocked
<1>10. ASSUME ~Doomed(op[q]) PROVE Consistent(q)'
  <2> SUFFICES ASSUME NEW k \in Key, NEW v \in Value \cup {Absent}, NEW i \in Index,
                      NEW s \in SecKey, SeesValue(q, k, v)'
               PROVE  /\ SeesIn(q, i, <<s, k>>)' => Expected(op'[q], k, v, i, s)
                      /\ SeesOut(q, i, <<s, k>>)' => ~Expected(op'[q], k, v, i, s)
    BY DEF Consistent
  <2>1. SeesValue(q, k, v)
    BY <1>4, <1>6, <1>7, <1>8 DEF SeesValue, ChangesLocked, Keeps
  <2>2. ChangedEntry(q, i, <<s, k>>) => (<<s, k>> \in sec'[i] <=> <<s, k>> \in sec[i])
    BY <1>5, <1>7, <1>8 DEF ChangesLocked
  <2>3. /\ SeesIn(q, i, <<s, k>>)' => SeesIn(q, i, <<s, k>>)
        /\ SeesOut(q, i, <<s, k>>)' => SeesOut(q, i, <<s, k>>)
    BY <1>4, <2>2 DEF SeesIn, SeesOut, Keeps
  <2> QED BY <1>1, <1>8, <1>10, <2>1, <2>3 DEF Consistent
<1>11. Knows(q)'
  <2>1. ASSUME op[q].at \in {"new", "get"}, NEW i \in Index, HasNew(op[q], i),
               NEW s, s = Extract[i][op[q].val], s # DoNotIndex
        PROVE  Writes(q, SecPage(i, s))' /\ <<s, op[q].key>> \in sec'[i]
    <3>1. Writes(q, SecPage(i, s)) /\ <<s, op[q].key>> \in sec[i]
      BY <1>8, <2>1 DEF Knows, NewIsIn
    <3>2. op[q].key \in Key /\ op[q].val \in Value
      BY <1>8, <2>1 DEF Knows, Steps1
    <3>3. s \in SecKey
      BY <2>1, <3>2, IndexAssumption
    <3> QED BY <1>3, <1>5, <1>7, <3>1, <3>2, <3>3
  <2>2. NewIsIn(q)'
    BY <1>1, <2>1 DEF NewIsIn
  <2> QED BY <1>1, <1>3, <1>5, <1>6, <1>7, <1>8, <2>2 DEF Knows, Operation
<1> QED BY <1>1, <1>8, <1>9, <1>10, <1>11

\* What is committed does not change before a transaction ends.
LEMMA KeepsCommitted ==
  ASSUME Inv, NEW p \in Proc, Keeps(p)
  PROVE  CommittedConsistent'
BY DEF Inv, Keeps, CommittedConsistent

\* So it is enough to look at p itself.
LEMMA KeepsInv ==
  ASSUME Inv, NEW p \in Proc, Keeps(p), ChangesLocked(p)',
         (~Doomed(op[p]) => Consistent(p))', Knows(p)', Found(op[p])',
         (op[p].rc # "DB_SECONDARY_BAD")'
  PROVE  Inv'
<1>1. Types' /\ Exclusive' /\ CommittedConsistent'
  BY KeepsCommitted DEF Keeps
<1>2. \A q \in Proc : /\ ChangesLocked(q)'
                      /\ (~Doomed(op[q]) => Consistent(q))'
                      /\ Knows(q)'
                      /\ Found(op[q])'
                      /\ (op[q].rc # "DB_SECONDARY_BAD")'
  BY KeepsOther
<1> QED BY <1>1, <1>2 DEF Inv

-----------------------------------------------------------------------------
(* The steps of an operation: none of them, or one, changes the database. *)

\* A step of p that moves its operation on and may have locked pages for it.
Moved(p) ==
    /\ op' \in [Proc -> Operation]
    /\ \A q \in Proc \ {p} : op'[q] = op[q]
    /\ held \subseteq held' /\ \A l \in held' \ held : l[1] = p
    /\ held' \subseteq Proc \X {"r", "w"} \X (({0} \cup Index) \X (Key \cup SecKey))
    /\ Exclusive'

\* A step that changes no data.
LEMMA QuietKeeps ==
  ASSUME Inv, NEW p \in Proc, Moved(p), UNCHANGED <<primary, sec, undo>>
  PROVE  /\ Keeps(p)
         /\ \A i, e : /\ SeesIn(p, i, e)' <=> SeesIn(p, i, e)
                      /\ SeesOut(p, i, e)' <=> SeesOut(p, i, e)
                      /\ ChangedEntry(p, i, e)' <=> ChangedEntry(p, i, e)
         /\ \A k : ChangedRecord(p, k)' <=> ChangedRecord(p, k)
         /\ \A k, v : SeesValue(p, k, v)' <=> SeesValue(p, k, v)
<1>1. /\ \A q, i, e : ChangedEntry(q, i, e)' <=> ChangedEntry(q, i, e)
      /\ \A q, k : ChangedRecord(q, k)' <=> ChangedRecord(q, k)
      /\ \A q, n, i, e : FirstOfEntry(q, n, i, e)' <=> FirstOfEntry(q, n, i, e)
      /\ \A q, n, k : FirstOfRecord(q, n, k)' <=> FirstOfRecord(q, n, k)
  BY DEF ChangedEntry, ChangedRecord, FirstOfEntry, FirstOfRecord
<1>2. /\ \A i, e : WasIn(i, e)' <=> WasIn(i, e)
      /\ \A i, e : WasOut(i, e)' <=> WasOut(i, e)
      /\ \A k, v : WasValue(k, v)' <=> WasValue(k, v)
  BY <1>1 DEF WasIn, WasOut, WasValue
<1>3. Keeps(p)
  BY <1>2 DEF Keeps, Moved, Inv, Types
<1> QED BY <1>1, <1>2, <1>3 DEF SeesIn, SeesOut, SeesValue

\* A step that adds or removes an index entry.
LEMMA EntryKeeps ==
  ASSUME Inv, NEW p \in Proc, Moved(p),
         NEW i0 \in Index, NEW s0 \in SecKey, NEW k0 \in Key, NEW what \in {"added", "removed"},
         (what = "added") <=> <<s0, k0>> \notin sec[i0],
         sec' = [sec EXCEPT ![i0] = IF what = "added" THEN @ \cup {<<s0, k0>>}
                                                      ELSE @ \ {<<s0, k0>>}],
         undo' = [undo EXCEPT ![p] = Append(@, [what |-> what, i |-> i0, e |-> <<s0, k0>>])],
         primary' = primary, Writes(p, SecPage(i0, s0))'
  PROVE  /\ Keeps(p)
         /\ \A i \in Index, s \in SecKey, k \in Key :
              ~(i = i0 /\ s = s0 /\ k = k0) =>
                 /\ SeesIn(p, i, <<s, k>>)' => SeesIn(p, i, <<s, k>>)
                 /\ SeesOut(p, i, <<s, k>>)' => SeesOut(p, i, <<s, k>>)
                 /\ ChangedEntry(p, i, <<s, k>>)' => ChangedEntry(p, i, <<s, k>>)
         /\ SeesIn(p, i0, <<s0, k0>>)' <=> what = "added"
         /\ SeesOut(p, i0, <<s0, k0>>)' <=> what = "removed"
         /\ \A k : ChangedRecord(p, k)' <=> ChangedRecord(p, k)
         /\ \A k, v : SeesValue(p, k, v)' => SeesValue(p, k, v)
<1> DEFINE c == [what |-> what, i |-> i0, e |-> <<s0, k0>>]
<1>1. c \in Change /\ c.what = what
  BY DEF Change
<1>2. /\ \A i, e : IsEntry(c, i, e) <=> i = i0 /\ e = <<s0, k0>>
      /\ \A k : ~IsRecord(c, k)
  BY DEF IsEntry, IsRecord
<1>3. Types /\ undo' = [undo EXCEPT ![p] = Append(@, c)]
  BY DEF Inv
<1> HIDE DEF c
<1>4. /\ undo' \in [Proc -> Seq(Change)]
      /\ \A q \in Proc : \A i, e :
           ChangedEntry(q, i, e)' <=> ChangedEntry(q, i, e) \/ (q = p /\ IsEntry(c, i, e))
      /\ \A q \in Proc : \A k :
           ChangedRecord(q, k)' <=> ChangedRecord(q, k) \/ (q = p /\ IsRecord(c, k))
      /\ \A q \in Proc : \A n, i, e : FirstOfEntry(q, n, i, e)' =>
           \/ FirstOfEntry(q, n, i, e) /\ undo'[q][n] = undo[q][n]
           \/ q = p /\ undo'[q][n] = c /\ IsEntry(c, i, e) /\ ~ChangedEntry(p, i, e)
      /\ \A q \in Proc : \A n, k : FirstOfRecord(q, n, k)' =>
           \/ FirstOfRecord(q, n, k) /\ undo'[q][n] = undo[q][n]
           \/ q = p /\ undo'[q][n] = c /\ IsRecord(c, k) /\ ~ChangedRecord(p, k)
  BY <1>1, <1>3, PushFacts
<1>5. \A q \in Proc : q # p => ~ChangedEntry(q, i0, <<s0, k0>>)
  <2>1. \A q \in Proc : q # p => ~Writes(q, SecPage(i0, s0))
    BY DEF Moved, Exclusive, Writes
  <2> QED BY <2>1 DEF Inv, ChangesLocked
<1>6. /\ \A i \in Index : \A e : ~(i = i0 /\ e = <<s0, k0>>) => (e \in sec'[i] <=> e \in sec[i])
      /\ <<s0, k0>> \in sec'[i0] <=> what = "added"
      /\ sec' \in [Index -> SUBSET (SecKey \X Key)]
  BY <1>3 DEF Types
<1>7. /\ \A i, e : WasIn(i, e)' => WasIn(i, e)
      /\ \A i, e : WasOut(i, e)' => WasOut(i, e)
  <2> SUFFICES ASSUME NEW i, NEW e
               PROVE  /\ WasIn(i, e)' => WasIn(i, e)
                      /\ WasOut(i, e)' => WasOut(i, e)
    OBVIOUS
  <2>1. CASE i = i0 /\ e = <<s0, k0>>
    <3>1. \E q \in Proc : ChangedEntry(q, i, e)'
      BY <1>2, <1>4, <2>1
    <3>2. \A q \in Proc : \A n : FirstOfEntry(q, n, i, e)' /\ ~FirstOfEntry(q, n, i, e) =>
             /\ q = p /\ undo'[q][n].what = what /\ ~ChangedEntry(p, i, e)
      BY <1>1, <1>4
    <3>3. \A q \in Proc : \A n : FirstOfEntry(q, n, i, e) /\ FirstOfEntry(q, n, i, e)'
             => undo'[q][n] = undo[q][n] /\ n \in DOMAIN undo[q]
      <4> SUFFICES ASSUME NEW q \in Proc, NEW n, FirstOfEntry(q, n, i, e), FirstOfEntry(q, n, i, e)'
                   PROVE  undo'[q][n] = undo[q][n] /\ n \in DOMAIN undo[q]
        OBVIOUS
      <4>1. n \in DOMAIN undo[q] /\ ChangedEntry(q, i, e)
        BY DEF FirstOfEntry, ChangedEntry
      <4> QED BY <1>4, <4>1
    <3>4. (\A q \in Proc : ~ChangedEntry(q, i, e)) \/ ChangedEntry(p, i, e)
      BY <1>5, <2>1
    <3> QED BY <2>1, <3>1, <3>2, <3>3, <3>4 DEF WasIn, WasOut
  <2>2. CASE ~(i = i0 /\ e = <<s0, k0>>)
    <3> ~IsEntry(c, i, e)
      BY <1>2, <2>2
    <3>1. /\ \A q \in Proc : ChangedEntry(q, i, e)' <=> ChangedEntry(q, i, e)
          /\ \A q \in Proc : \A n : FirstOfEntry(q, n, i, e)' =>
                FirstOfEntry(q, n, i, e) /\ undo'[q][n] = undo[q][n]
      BY <1>4
    <3>2. e \in sec'[i] <=> e \in sec[i]
      BY <1>3, <1>6, <2>2 DEF Types
    <3>3. \A q \in Proc : \A n : FirstOfEntry(q, n, i, e) => n \in DOMAIN undo[q]
      BY DEF FirstOfEntry
    <3> QED BY <3>1, <3>2, <3>3 DEF WasIn, WasOut
  <2> QED BY <2>1, <2>2
<1>8. \A k, v : WasValue(k, v)' => WasValue(k, v)
  <2>1. \A q \in Proc : \A k : ChangedRecord(q, k)' <=> ChangedRecord(q, k)
    BY <1>2, <1>4
  <2>2. \A q \in Proc : \A n, k : FirstOfRecord(q, n, k)' =>
           FirstOfRecord(q, n, k) /\ undo'[q][n] = undo[q][n] /\ n \in DOMAIN undo[q]
    BY <1>2, <1>4 DEF FirstOfRecord
  <2> QED BY <2>1, <2>2 DEF WasValue
<1>9. Keeps(p)
  <2>1. \A q \in Proc \ {p} : undo'[q] = undo[q]
    BY <1>3 DEF Types
  <2>2. Types'
    BY <1>3, <1>4, <1>6 DEF Types, Moved
  <2>3. \A i \in Index, s \in SecKey, k \in Key :
          ~(<<s, k>> \in sec'[i] <=> <<s, k>> \in sec[i]) => Writes(p, SecPage(i, s))'
    BY <1>6
  <2> QED BY <1>7, <1>8, <2>1, <2>2, <2>3 DEF Keeps, Moved
<1>10. ASSUME NEW i \in Index, NEW s \in SecKey, NEW k \in Key, ~(i = i0 /\ s = s0 /\ k = k0)
       PROVE  /\ SeesIn(p, i, <<s, k>>)' => SeesIn(p, i, <<s, k>>)
              /\ SeesOut(p, i, <<s, k>>)' => SeesOut(p, i, <<s, k>>)
              /\ ChangedEntry(p, i, <<s, k>>)' => ChangedEntry(p, i, <<s, k>>)
  <2>1. ~(i = i0 /\ <<s, k>> = <<s0, k0>>)
    BY <1>10
  <2>2. ChangedEntry(p, i, <<s, k>>)' <=> ChangedEntry(p, i, <<s, k>>)
    BY <1>2, <1>4, <2>1
  <2>3. <<s, k>> \in sec'[i] <=> <<s, k>> \in sec[i]
    BY <1>6, <2>1
  <2> QED BY <1>7, <2>2, <2>3 DEF SeesIn, SeesOut
<1>11. ChangedEntry(p, i0, <<s0, k0>>)'
  BY <1>2, <1>4
<1>12. \A k : ChangedRecord(p, k)' <=> ChangedRecord(p, k)
  BY <1>2, <1>4
<1>13. \A k, v : SeesValue(p, k, v)' => SeesValue(p, k, v)
  BY <1>8, <1>12 DEF SeesValue
<1> QED BY <1>6, <1>9, <1>10, <1>11, <1>12, <1>13 DEF SeesIn, SeesOut

\* A step that sets or deletes a record.
LEMMA RecordKeeps ==
  ASSUME Inv, NEW p \in Proc, Moved(p),
         NEW k0 \in Key, NEW v0 \in Value \cup {Absent},
         primary' = [primary EXCEPT ![k0] = v0],
         undo' = [undo EXCEPT ![p] = Append(@, [what |-> "set", key |-> k0, old |-> primary[k0]])],
         sec' = sec, Writes(p, PrimaryPage(k0))'
  PROVE  /\ Keeps(p)
         /\ \A i, e : /\ SeesIn(p, i, e)' => SeesIn(p, i, e)
                      /\ SeesOut(p, i, e)' => SeesOut(p, i, e)
                      /\ ChangedEntry(p, i, e)' <=> ChangedEntry(p, i, e)
         /\ \A k, v : /\ k # k0 /\ SeesValue(p, k, v)' => SeesValue(p, k, v)
                      /\ k = k0 /\ SeesValue(p, k, v)' => v = v0
                      /\ ChangedRecord(p, k)' => ChangedRecord(p, k) \/ k = k0
<1> DEFINE c == [what |-> "set", key |-> k0, old |-> primary[k0]]
<1>1. Types /\ undo' = [undo EXCEPT ![p] = Append(@, c)]
  BY DEF Inv
<1>2. c \in Change /\ c.old = primary[k0]
  BY <1>1 DEF Change, Types
<1>3. /\ \A i, e : ~IsEntry(c, i, e)
      /\ \A k : IsRecord(c, k) <=> k = k0
  BY DEF IsEntry, IsRecord
<1> HIDE DEF c
<1>4. /\ undo' \in [Proc -> Seq(Change)]
      /\ \A q \in Proc : \A i, e :
           ChangedEntry(q, i, e)' <=> ChangedEntry(q, i, e) \/ (q = p /\ IsEntry(c, i, e))
      /\ \A q \in Proc : \A k :
           ChangedRecord(q, k)' <=> ChangedRecord(q, k) \/ (q = p /\ IsRecord(c, k))
      /\ \A q \in Proc : \A n, i, e : FirstOfEntry(q, n, i, e)' =>
           \/ FirstOfEntry(q, n, i, e) /\ undo'[q][n] = undo[q][n]
           \/ q = p /\ undo'[q][n] = c /\ IsEntry(c, i, e) /\ ~ChangedEntry(p, i, e)
      /\ \A q \in Proc : \A n, k : FirstOfRecord(q, n, k)' =>
           \/ FirstOfRecord(q, n, k) /\ undo'[q][n] = undo[q][n]
           \/ q = p /\ undo'[q][n] = c /\ IsRecord(c, k) /\ ~ChangedRecord(p, k)
  BY <1>1, <1>2, PushFacts
<1>5. \A q \in Proc : q # p => ~ChangedRecord(q, k0)
  <2>1. \A q \in Proc : q # p => ~Writes(q, PrimaryPage(k0))
    BY DEF Moved, Exclusive, Writes
  <2> QED BY <2>1 DEF Inv, ChangesLocked
<1>6. /\ \A k \in Key : k # k0 => primary'[k] = primary[k]
      /\ primary'[k0] = v0
      /\ primary' \in [Key -> Value \cup {Absent}]
  BY <1>1 DEF Types
<1>7. \A k, v : WasValue(k, v)' => WasValue(k, v)
  <2> SUFFICES ASSUME NEW k, NEW v, WasValue(k, v)' PROVE WasValue(k, v)
    OBVIOUS
  <2>1. CASE k = k0
    <3>1. \E q \in Proc : ChangedRecord(q, k)'
      BY <1>3, <1>4, <2>1
    <3>2. PICK q \in Proc : \E n : FirstOfRecord(q, n, k)' /\ undo'[q][n].old = v
      BY <3>1 DEF WasValue
    <3>5. PICK n : FirstOfRecord(q, n, k)' /\ undo'[q][n].old = v
      BY <3>2
    <3>3. CASE FirstOfRecord(q, n, k) /\ undo'[q][n] = undo[q][n]
      BY <3>3, <3>5 DEF WasValue, FirstOfRecord
    <3>4. CASE q = p /\ undo'[q][n] = c /\ ~ChangedRecord(p, k)
      BY <1>2, <1>5, <2>1, <3>4, <3>5 DEF WasValue
    <3> QED BY <1>4, <3>3, <3>4, <3>5
  <2>2. CASE k # k0
    <3> ~IsRecord(c, k)
      BY <1>3, <2>2
    <3>1. /\ \A q \in Proc : ChangedRecord(q, k)' <=> ChangedRecord(q, k)
          /\ \A q \in Proc : \A n : FirstOfRecord(q, n, k)' =>
                FirstOfRecord(q, n, k) /\ undo'[q][n] = undo[q][n]
      BY <1>4
    <3>2. primary'[k] = primary[k]
      BY <1>1, <1>6, <2>2 DEF Types
    <3>3. \A q \in Proc : \A n : FirstOfRecord(q, n, k) => n \in DOMAIN undo[q]
      BY DEF FirstOfRecord
    <3> QED BY <3>1, <3>2, <3>3 DEF WasValue
  <2> QED BY <2>1, <2>2
<1>8. \A q \in Proc : \A i, e : ChangedEntry(q, i, e)' <=> ChangedEntry(q, i, e)
  BY <1>3, <1>4
<1>9. /\ \A i, e : WasIn(i, e)' => WasIn(i, e)
      /\ \A i, e : WasOut(i, e)' => WasOut(i, e)
  <2>1. \A q \in Proc : \A n, i, e : FirstOfEntry(q, n, i, e)' =>
           FirstOfEntry(q, n, i, e) /\ undo'[q][n] = undo[q][n]
    BY <1>3, <1>4
  <2>2. \A q, n, i, e : FirstOfEntry(q, n, i, e) => n \in DOMAIN undo[q]
    BY DEF FirstOfEntry
  <2> QED BY <1>8, <2>1, <2>2 DEF WasIn, WasOut
<1>10. Keeps(p)
  <2>1. \A q \in Proc \ {p} : undo'[q] = undo[q]
    BY <1>1 DEF Types
  <2>2. Types'
    BY <1>1, <1>4, <1>6 DEF Types, Moved
  <2> QED BY <1>6, <1>7, <1>9, <2>1, <2>2 DEF Keeps, Moved
<1>11. \A i, e : /\ SeesIn(p, i, e)' => SeesIn(p, i, e)
                 /\ SeesOut(p, i, e)' => SeesOut(p, i, e)
  BY <1>8, <1>9 DEF SeesIn, SeesOut
<1>12. ASSUME NEW k, NEW v
       PROVE  /\ k # k0 /\ SeesValue(p, k, v)' => SeesValue(p, k, v)
              /\ k = k0 /\ SeesValue(p, k, v)' => v = v0
              /\ ChangedRecord(p, k)' => ChangedRecord(p, k) \/ k = k0
  <2>1. ChangedRecord(p, k)' <=> ChangedRecord(p, k) \/ k = k0
    BY <1>3, <1>4
  <2>2. k # k0 => primary'[k] = primary[k]
    BY <1>1 DEF Types
  <2> QED BY <1>6, <1>7, <2>1, <2>2 DEF SeesValue
<1> QED BY <1>8, <1>10, <1>11, <1>12

\* A step of an abort.
LEMMA UndoKeeps ==
  ASSUME Inv, NEW p \in Proc, UndoOne(p)
  PROVE  Keeps(p)
<1> DEFINE c == Last(undo[p])
<1>0. /\ undo[p] # <<>> /\ undo' = [undo EXCEPT ![p] = Front(@)]
      /\ sec' = SecBack(c) /\ primary' = PrimaryBack(c) /\ held' = held /\ op' = op
  BY DEF UndoOne
<1>1. Types
  BY DEF Inv
<1>2. c = Last(undo[p])
  OBVIOUS
<1> HIDE DEF c
<1>3. /\ undo' \in [Proc -> Seq(Change)]
      /\ c \in Change
      /\ \A q \in Proc : q # p => undo'[q] = undo[q]
      /\ \A q \in Proc : \A i, e : ChangedEntry(q, i, e)' => ChangedEntry(q, i, e)
      /\ \A q \in Proc : \A i, e :
           ChangedEntry(q, i, e) => ChangedEntry(q, i, e)' \/ (q = p /\ IsEntry(c, i, e))
      /\ \A q \in Proc : \A k : ChangedRecord(q, k)' => ChangedRecord(q, k)
      /\ \A q \in Proc : \A k :
           ChangedRecord(q, k) => ChangedRecord(q, k)' \/ (q = p /\ IsRecord(c, k))
      /\ \A q \in Proc : \A n, i, e : FirstOfEntry(q, n, i, e)' =>
           n \in DOMAIN undo[q] /\ FirstOfEntry(q, n, i, e) /\ undo'[q][n] = undo[q][n]
      /\ \A q \in Proc : \A n, k : FirstOfRecord(q, n, k)' =>
           n \in DOMAIN undo[q] /\ FirstOfRecord(q, n, k) /\ undo'[q][n] = undo[q][n]
      /\ \A i, e : IsEntry(c, i, e) => ChangedEntry(p, i, e) /\
           (ChangedEntry(p, i, e)' \/ FirstOfEntry(p, Len(undo[p]), i, e))
      /\ \A k : IsRecord(c, k) => ChangedRecord(p, k) /\
           (ChangedRecord(p, k)' \/ FirstOfRecord(p, Len(undo[p]), k))
      /\ Len(undo[p]) \in DOMAIN undo[p] /\ undo[p][Len(undo[p])] = c
  BY <1>0, <1>1, <1>2, PopFacts
<1>4. /\ sec' \in [Index -> SUBSET (SecKey \X Key)]
      /\ \A i \in Index : \A e : IsEntry(c, i, e) => (e \in sec'[i] <=> c.what = "removed")
      /\ \A i \in Index : \A e : ~IsEntry(c, i, e) => (e \in sec'[i] <=> e \in sec[i])
  BY <1>0, <1>1, <1>2, <1>3 DEF SecBack, IsEntry, Types, Change
<1>5. /\ primary' \in [Key -> Value \cup {Absent}]
      /\ \A k \in Key : IsRecord(c, k) => primary'[k] = c.old
      /\ \A k \in Key : ~IsRecord(c, k) => primary'[k] = primary[k]
  BY <1>0, <1>1, <1>2, <1>3 DEF PrimaryBack, IsRecord, Types, Change
<1>6. \A i, e : IsEntry(c, i, e) => i \in Index /\ c.what \in {"added", "removed"}
  BY <1>3 DEF Change, IsEntry
<1>7. \A k : IsRecord(c, k) => k \in Key
  BY <1>3 DEF Change, IsRecord
<1>8. /\ \A i \in Index : \A e : WasIn(i, e)' => WasIn(i, e)
      /\ \A i \in Index : \A e : WasOut(i, e)' => WasOut(i, e)
  <2> SUFFICES ASSUME NEW i \in Index, NEW e
               PROVE  /\ WasIn(i, e)' => WasIn(i, e)
                      /\ WasOut(i, e)' => WasOut(i, e)
    OBVIOUS
  <2>1. CASE \E q \in Proc : ChangedEntry(q, i, e)'
    BY <1>3, <2>1 DEF WasIn, WasOut
  <2>2. CASE (\A q \in Proc : ~ChangedEntry(q, i, e)') /\ IsEntry(c, i, e)
    <3>1. FirstOfEntry(p, Len(undo[p]), i, e) /\ c.what \in {"added", "removed"}
      BY <1>3, <1>6, <2>2
    <3>2. \A q \in Proc : \A n : ~FirstOfEntry(q, n, i, e)'
      BY <2>2 DEF FirstOfEntry, ChangedEntry
    <3>3. e \in sec'[i] <=> c.what = "removed"
      BY <1>4, <2>2
    <3> QED BY <1>3, <3>1, <3>2, <3>3 DEF WasIn, WasOut
  <2>3. CASE (\A q \in Proc : ~ChangedEntry(q, i, e)') /\ ~IsEntry(c, i, e)
    <3>1. \A q \in Proc : ~ChangedEntry(q, i, e)
      BY <1>3, <2>3
    <3>2. \A q \in Proc : \A n : ~FirstOfEntry(q, n, i, e)'
      BY <2>3 DEF FirstOfEntry, ChangedEntry
    <3>3. e \in sec'[i] <=> e \in sec[i]
      BY <1>4, <2>3
    <3> QED BY <3>1, <3>2, <3>3 DEF WasIn, WasOut
  <2> QED BY <2>1, <2>2, <2>3
<1>9. \A k \in Key : \A v : WasValue(k, v)' => WasValue(k, v)
  <2> SUFFICES ASSUME NEW k \in Key, NEW v, WasValue(k, v)' PROVE WasValue(k, v)
    OBVIOUS
  <2>1. CASE \E q \in Proc : ChangedRecord(q, k)'
    BY <1>3, <2>1 DEF WasValue
  <2>2. CASE (\A q \in Proc : ~ChangedRecord(q, k)') /\ IsRecord(c, k)
    <3>1. FirstOfRecord(p, Len(undo[p]), k)
      BY <1>3, <2>2
    <3>2. \A q \in Proc : \A n : ~FirstOfRecord(q, n, k)'
      BY <2>2 DEF FirstOfRecord, ChangedRecord
    <3>3. v = c.old
      BY <1>5, <2>2, <3>2 DEF WasValue
    <3> QED BY <1>3, <3>1, <3>3 DEF WasValue
  <2>3. CASE (\A q \in Proc : ~ChangedRecord(q, k)') /\ ~IsRecord(c, k)
    <3>1. \A q \in Proc : ~ChangedRecord(q, k)
      BY <1>3, <2>3
    <3>2. \A q \in Proc : \A n : ~FirstOfRecord(q, n, k)'
      BY <2>3 DEF FirstOfRecord, ChangedRecord
    <3>3. primary'[k] = primary[k]
      BY <1>5, <2>3
    <3> QED BY <3>1, <3>2, <3>3 DEF WasValue
  <2> QED BY <2>1, <2>2, <2>3
<1>10. Types'
  BY <1>0, <1>1, <1>3, <1>4, <1>5 DEF Types
<1>11. \A i \in Index, s \in SecKey, k \in Key :
         ~(<<s, k>> \in sec'[i] <=> <<s, k>> \in sec[i]) => Writes(p, SecPage(i, s))'
  <2>1. \A i \in Index, s \in SecKey, k \in Key :
          ~(<<s, k>> \in sec'[i] <=> <<s, k>> \in sec[i]) => ChangedEntry(p, i, <<s, k>>)
    BY <1>3, <1>4
  <2> QED BY <1>0, <2>1 DEF Inv, ChangesLocked, Writes
<1>12. \A k \in Key : primary'[k] # primary[k] => Writes(p, PrimaryPage(k))'
  <2>1. \A k \in Key : primary'[k] # primary[k] => ChangedRecord(p, k)
    BY <1>3, <1>5
  <2> QED BY <1>0, <2>1 DEF Inv, ChangesLocked, Writes
<1>13. Exclusive'
  BY <1>0 DEF Inv, Exclusive
<1> QED BY <1>0, <1>3, <1>8, <1>9, <1>10, <1>11, <1>12, <1>13 DEF Keeps

-----------------------------------------------------------------------------
(* Locks, and what they show. *)

\* The pages each step needs.
LEMMA NeedFacts ==
  ASSUME NEW p \in Proc
  PROVE  /\ op[p].at \in {"get", "getcur", "getdel"} =>
              Need(p) = {<<"w", PrimaryPage(op[p].key)>>}
         /\ op[p].at \in {"position", "data"} =>
              Need(p) = {<<"r", PrimaryPage(op[p].key)>>}
         /\ op[p].at \in {"new", "curput"} =>
              Need(p) = IF NewKey(p) # DoNotIndex THEN {<<"w", SecPage(op[p].i, NewKey(p))>>}
                        ELSE {}
         /\ op[p].at = "old" => Need(p) =
              IF Replaces(p, FALSE) THEN {<<"w", SecPage(op[p].i, OldKey(p))>>} ELSE {}
         /\ op[p].at = "cur" => Need(p) =
              IF Replaces(p, TRUE) THEN {<<"w", SecPage(op[p].i, OldKey(p))>>} ELSE {}
         /\ op[p].at = "del" => Need(p) =
              IF OldKey(p) # DoNotIndex THEN {<<"w", SecPage(op[p].i, OldKey(p))>>} ELSE {}
         /\ op[p].at = "pget" => Need(p) = {<<"r", SecPage(op[p].i, op[p].skey)>>}
         /\ op[p].at = "secdel" => Need(p) = {<<"w", SecPage(op[p].i, op[p].skey)>>}
<1>1. ASSUME op[p].at \in {"get", "getcur", "getdel"}
      PROVE  Need(p) = {<<"w", PrimaryPage(op[p].key)>>}
  BY <1>1 DEF Need, NeedOfPrimary, NeedOfIndex
<1>2. ASSUME op[p].at \in {"position", "data"}
      PROVE  Need(p) = {<<"r", PrimaryPage(op[p].key)>>}
  BY <1>2 DEF Need, NeedOfPrimary, NeedOfIndex
<1>3. ASSUME op[p].at \in {"new", "curput"}
      PROVE  Need(p) = IF NewKey(p) # DoNotIndex THEN {<<"w", SecPage(op[p].i, NewKey(p))>>}
                       ELSE {}
  BY <1>3 DEF Need, NeedOfPrimary, NeedOfIndex
<1>4. ASSUME op[p].at = "old"
      PROVE  Need(p) = IF Replaces(p, FALSE) THEN {<<"w", SecPage(op[p].i, OldKey(p))>>} ELSE {}
  BY <1>4 DEF Need, NeedOfPrimary, NeedOfIndex
<1>5. ASSUME op[p].at = "cur"
      PROVE  Need(p) = IF Replaces(p, TRUE) THEN {<<"w", SecPage(op[p].i, OldKey(p))>>} ELSE {}
  BY <1>5 DEF Need, NeedOfPrimary, NeedOfIndex
<1>6. ASSUME op[p].at = "del"
      PROVE  Need(p) = IF OldKey(p) # DoNotIndex THEN {<<"w", SecPage(op[p].i, OldKey(p))>>}
                       ELSE {}
  BY <1>6 DEF Need, NeedOfPrimary, NeedOfIndex
<1>7. ASSUME op[p].at = "pget" PROVE Need(p) = {<<"r", SecPage(op[p].i, op[p].skey)>>}
  BY <1>7 DEF Need, NeedOfPrimary, NeedOfIndex
<1>8. ASSUME op[p].at = "secdel" PROVE Need(p) = {<<"w", SecPage(op[p].i, op[p].skey)>>}
  BY <1>8 DEF Need, NeedOfPrimary, NeedOfIndex
<1> QED BY <1>1, <1>2, <1>3, <1>4, <1>5, <1>6, <1>7, <1>8

\* A lock that is granted conflicts with nobody's.
LEMMA LockFacts ==
  ASSUME Inv, NEW p \in Proc, Lock(p),
         Need(p) \subseteq {"r", "w"} \X (({0} \cup Index) \X (Key \cup SecKey))
  PROVE  /\ held \subseteq held' /\ \A l \in held' \ held : l[1] = p
         /\ held' \subseteq Proc \X {"r", "w"} \X (({0} \cup Index) \X (Key \cup SecKey))
         /\ Exclusive'
         /\ \A page : <<"w", page>> \in Need(p) => Writes(p, page)'
         /\ \A page : <<"r", page>> \in Need(p) => Reads(p, page)'
         /\ \A q \in Proc \ {p} : \A n \in Need(p) : ~Writes(q, n[2])
<1>1. /\ held \subseteq Proc \X {"r", "w"} \X (({0} \cup Index) \X (Key \cup SecKey))
      /\ Exclusive
  BY DEF Inv, Types
<1>2. /\ held' = held \cup {<<p, n[1], n[2]>> : n \in Need(p)}
      /\ \A q \in Proc : ~Blocks(q, p)
  BY DEF Lock
<1>3. held \subseteq held' /\ \A l \in held' \ held : l[1] = p
  BY <1>2
<1>4. held' \subseteq Proc \X {"r", "w"} \X (({0} \cup Index) \X (Key \cup SecKey))
  BY <1>1, <1>2
<1>5. \A l \in held, n \in Need(p) : l[1] # p /\ l[3] = n[2] => l[2] = "r" /\ n[1] = "r"
  BY <1>1, <1>2 DEF Blocks
<1>6. Exclusive'
  <2> SUFFICES ASSUME NEW l \in held', NEW m \in held', l[3] = m[3], l[1] # m[1]
               PROVE  l[2] = "r" /\ m[2] = "r"
    BY DEF Exclusive
  <2>1. CASE l \in held /\ m \in held
    BY <1>1, <2>1 DEF Exclusive
  <2>2. CASE l \notin held
    <3>1. PICK n \in Need(p) : l = <<p, n[1], n[2]>>
      BY <1>2, <2>2
    <3>2. m \in held
      BY <1>2, <3>1
    <3> QED BY <1>5, <3>1, <3>2
  <2>3. CASE m \notin held
    <3>1. PICK n \in Need(p) : m = <<p, n[1], n[2]>>
      BY <1>2, <2>3
    <3>2. l \in held
      BY <1>2, <3>1
    <3> QED BY <1>5, <3>1, <3>2
  <2> QED BY <2>1, <2>2, <2>3
<1>7. /\ \A page : <<"w", page>> \in Need(p) => <<p, "w", page>> \in held'
      /\ \A page : <<"r", page>> \in Need(p) => <<p, "r", page>> \in held'
  BY <1>2
<1>8. \A q \in Proc \ {p} : \A n \in Need(p) : ~Writes(q, n[2])
  BY <1>5 DEF Writes
<1> QED BY <1>3, <1>4, <1>6, <1>7, <1>8 DEF Writes, Reads

\* What p sees of a page that nobody else writes is what is there.
LEMMA LockedEntry ==
  ASSUME Inv, NEW p \in Proc, NEW i \in Index, NEW s \in SecKey, NEW k \in Key,
         \A q \in Proc \ {p} : ~Writes(q, SecPage(i, s))
  PROVE  /\ SeesIn(p, i, <<s, k>>) <=> <<s, k>> \in sec[i]
         /\ SeesOut(p, i, <<s, k>>) <=> <<s, k>> \notin sec[i]
<1>1. \A q \in Proc : q # p => ~ChangedEntry(q, i, <<s, k>>)
  BY DEF Inv, ChangesLocked
<1>2. \A q \in Proc : \A n : FirstOfEntry(q, n, i, <<s, k>>) => ChangedEntry(q, i, <<s, k>>)
  BY DEF FirstOfEntry, ChangedEntry
<1> QED BY <1>1, <1>2 DEF SeesIn, SeesOut, WasIn, WasOut

LEMMA LockedRecord ==
  ASSUME Inv, NEW p \in Proc, NEW k \in Key,
         \A q \in Proc \ {p} : ~Writes(q, PrimaryPage(k))
  PROVE  \A v : SeesValue(p, k, v) <=> v = primary[k]
<1>1. \A q \in Proc : q # p => ~ChangedRecord(q, k)
  BY DEF Inv, ChangesLocked
<1>2. \A q \in Proc : \A n : FirstOfRecord(q, n, k) => ChangedRecord(q, k)
  BY DEF FirstOfRecord, ChangedRecord
<1> QED BY <1>1, <1>2 DEF SeesValue, WasValue

-----------------------------------------------------------------------------
(* The steps that read. *)

\* An operation that has not yet touched an index.
Fresh(o) == \A i \in Index : HasOld(o, i) /\ ~HasNew(o, i)

LEMMA FreshStep ==
  ASSUME Inv, NEW p \in Proc, Moved(p), UNCHANGED <<primary, sec, undo>>,
         ~Doomed(op[p]), Fresh(op[p]), Fresh(op'[p]),
         Knows(p)', Found(op'[p]), op'[p].rc # "DB_SECONDARY_BAD"
  PROVE  Inv'
<1>1. /\ Keeps(p)
      /\ \A i, e : /\ SeesIn(p, i, e)' <=> SeesIn(p, i, e)
                   /\ SeesOut(p, i, e)' <=> SeesOut(p, i, e)
                   /\ ChangedEntry(p, i, e)' <=> ChangedEntry(p, i, e)
      /\ \A k : ChangedRecord(p, k)' <=> ChangedRecord(p, k)
      /\ \A k, v : SeesValue(p, k, v)' <=> SeesValue(p, k, v)
  BY QuietKeeps
<1>2. \A k \in Key, v \in Value \cup {Absent}, i \in Index, s \in SecKey :
        Expected(op[p], k, v, i, s) <=> Expected(op'[p], k, v, i, s)
  BY DEF Expected, Fresh
<1>3. Consistent(p)'
  <2>1. Consistent(p)
    BY DEF Inv
  <2> QED BY <1>1, <1>2, <2>1 DEF Consistent
<1>4. \A page : Writes(p, page) => Writes(p, page)'
  BY DEF Moved, Writes
<1>5. ChangesLocked(p)'
  <2>1. ChangesLocked(p) /\ \A i \in Index : ~HasNew(op[p], i)
    BY DEF Inv, Fresh
  <2> QED BY <1>1, <1>4, <2>1 DEF ChangesLocked
<1> QED BY <1>1, <1>3, <1>5, KeepsInv

LEMMA StartStep ==
  ASSUME Inv, NEW p \in Proc, NEW o \in Operation, Start(p, o), ~Doomed(op[p]),
         o.at \in {"new", "position", "getdel", "secdel", "pget"}, o.rc = "none",
         o.at \in {"new", "position"} => o.i = 1 /\ o.key \in Key /\ o.val \in Value,
         o.at = "getdel" => o.key \in Key /\ o.skey = DoNotIndex,
         o.at \in {"secdel", "pget"} => o.skey \in SecKey
  PROVE  Inv'
<1>1. Types
  BY DEF Inv
<1> DEFINE o2 == [o EXCEPT !.n = op[p].n]
<1>2. /\ op' = [op EXCEPT ![p] = o2] /\ op[p].at = "idle"
      /\ UNCHANGED <<primary, sec, undo, held>>
  BY DEF Start
<1>3. /\ o2 \in Operation /\ o2.at = o.at /\ o2.i = o.i /\ o2.key = o.key /\ o2.val = o.val
      /\ o2.skey = o.skey /\ o2.rc = o.rc
  BY <1>1 DEF Types, Operation
<1> HIDE DEF o2
<1>4. op'[p] = o2
  BY <1>1, <1>2 DEF Types
<1>5. Moved(p)
  BY <1>1, <1>2, <1>3 DEF Types, Moved, Inv, Exclusive
<1>6. Fresh(op[p]) /\ Fresh(op'[p])
  BY <1>2, <1>3, <1>4, IndexAssumption DEF Fresh, HasNew, HasOld, Index
<1>7. NewIsIn(p)'
  BY <1>3, <1>4, IndexAssumption DEF NewIsIn, HasNew, Index
<1>8. Knows(p)'
  BY <1>3, <1>4, <1>7 DEF Knows, Steps1
<1>9. Found(op'[p]) /\ op'[p].rc # "DB_SECONDARY_BAD"
  BY <1>3, <1>4 DEF Found
<1> QED BY <1>2, <1>5, <1>6, <1>8, <1>9, FreshStep

\* What is known of the fields of an operation that is replaced.
LEMMA IdleTyped ==
  /\ Idle \in Operation /\ Idle.at = "idle" /\ Idle.rc = "none" /\ Idle.i = 1
  /\ Idle.skey = DoNotIndex
  /\ 1 \in Index
BY IndexAssumption DEF Idle, Operation, Index

LEMMA BeginsStep ==
  ASSUME Inv, NEW p \in Proc, Begins(p), ~Doomed(op[p])
  PROVE  Inv'
<1>1. ASSUME NEW k \in Key, NEW v \in Value, Set(p, k, v)
      PROVE  Inv'
  <2> DEFINE o == [Idle EXCEPT !.at = "new", !.key = k, !.val = v]
  <2>1. /\ o \in Operation /\ o.at = "new" /\ o.rc = "none" /\ o.i = 1
        /\ o.key = k /\ o.val = v
    BY IdleTyped DEF Idle, Operation, Steps1
  <2>2. Start(p, o)
    BY <1>1 DEF Set
  <2> HIDE DEF o
  <2> QED BY <2>1, <2>2, StartStep
<1>2. ASSUME NEW k \in Key, NEW v \in Value, SetValue(p, k, v)
      PROVE  Inv'
  <2> DEFINE o == [Idle EXCEPT !.at = "position", !.key = k, !.val = v]
  <2>1. /\ o \in Operation /\ o.at = "position" /\ o.rc = "none" /\ o.i = 1
        /\ o.key = k /\ o.val = v
    BY IdleTyped DEF Idle, Operation, Steps1
  <2>2. Start(p, o)
    BY <1>2 DEF SetValue
  <2> HIDE DEF o
  <2> QED BY <2>1, <2>2, StartStep
<1>3. ASSUME NEW k \in Key, Erase(p, k)
      PROVE  Inv'
  <2> DEFINE o == [Idle EXCEPT !.at = "getdel", !.key = k]
  <2>1. o \in Operation /\ o.at = "getdel" /\ o.rc = "none" /\ o.key = k /\ o.skey = DoNotIndex
    BY IdleTyped DEF Idle, Operation
  <2>2. Start(p, o)
    BY <1>3 DEF Erase
  <2> HIDE DEF o
  <2> QED BY <2>1, <2>2, StartStep
<1>4. ASSUME NEW i \in Index, NEW s \in SecKey, EraseBySecondary(p, i, s)
      PROVE  Inv'
  <2> DEFINE o == [Idle EXCEPT !.at = "secdel", !.i = i, !.from = i, !.skey = s]
  <2>1. o \in Operation /\ o.at = "secdel" /\ o.rc = "none" /\ o.skey = s
    BY IdleTyped DEF Idle, Operation
  <2>2. Start(p, o)
    BY <1>4 DEF EraseBySecondary
  <2> HIDE DEF o
  <2> QED BY <2>1, <2>2, StartStep
<1>5. ASSUME NEW i \in Index, NEW s \in SecKey, Pget(p, i, s)
      PROVE  Inv'
  <2> DEFINE o == [Idle EXCEPT !.at = "pget", !.i = i, !.skey = s]
  <2>1. o \in Operation /\ o.at = "pget" /\ o.rc = "none" /\ o.skey = s
    BY IdleTyped DEF Idle, Operation
  <2>2. Start(p, o)
    BY <1>5 DEF Pget
  <2> HIDE DEF o
  <2> QED BY <2>1, <2>2, StartStep
<1> QED BY <1>1, <1>2, <1>3, <1>4, <1>5 DEF Begins

LEMMA BeginsStarts ==
  ASSUME Inv, NEW p \in Proc, Begins(p)
  PROVE  op[p].at = "idle" /\ op'[p].at # "undo"
<1>1. PICK o : o \in Operation /\ o.at # "undo" /\ Start(p, o)
  BY IdleTyped DEF Begins, Set, SetValue, Erase, EraseBySecondary, Pget, Operation, Steps1
<1>2. op \in [Proc -> Operation]
  BY DEF Inv, Types
<1> QED BY <1>1, <1>2 DEF Start, Operation

\* The fields of an operation.
LEMMA FieldFacts ==
  ASSUME Inv, NEW p \in Proc
  PROVE  /\ op[p] \in Operation
         /\ op[p].at \in Steps1 => op[p].key \in Key /\ op[p].val \in Value
         /\ op[p].at \in {"getdel", "del", "erase", "data"} => op[p].key \in Key
         /\ op[p].at \in {"secdel", "pget", "data"} => op[p].skey \in SecKey
         /\ op[p].skey # DoNotIndex => op[p].skey \in SecKey
         /\ op[p].i \in Index /\ op[p].from \in Index
BY DEF Inv, Types, Knows, Operation

\* A step that has moved the operation on to o, and that has a lock to wait for.
LEMMA LockMoves ==
  ASSUME Inv, NEW p \in Proc, NEW o \in Operation, op' = [op EXCEPT ![p] = o], Lock(p),
         Need(p) \subseteq {"r", "w"} \X (({0} \cup Index) \X (Key \cup SecKey))
  PROVE  Moved(p) /\ op'[p] = o
<1>1. op \in [Proc -> Operation]
  BY DEF Inv, Types
<1> QED BY <1>1, LockFacts DEF Moved

LEMMA FinishedIs ==
  ASSUME NEW p \in Proc, op[p].n \in Nat,
         NEW rc \in {"ok", "DB_NOTFOUND", "DB_SECONDARY_BAD", "timed_out", "half_done"}
  PROVE  /\ Finished(p, rc) \in Operation /\ Finished(p, rc).at = "idle"
         /\ Finished(p, rc).rc = rc /\ Finished(p, rc).skey = DoNotIndex
<1>1. op[p].n \in Nat
  OBVIOUS
<1>2. Idle \in Operation /\ Idle.at = "idle" /\ Idle.skey = DoNotIndex
  BY IdleTyped
<1>3. Finished(p, rc) = [Idle EXCEPT !.n = op[p].n + 1, !.rc = rc]
  BY DEF Finished
<1>4. PICK o : o = Idle
  OBVIOUS
<1>5. PICK n \in Nat : n = op[p].n + 1
  BY <1>1
<1>6. Finished(p, rc) = [o EXCEPT !.n = n, !.rc = rc]
  BY <1>3, <1>4, <1>5
<1>7. /\ [o EXCEPT !.n = n, !.rc = rc] \in Operation
      /\ [o EXCEPT !.n = n, !.rc = rc].at = "idle"
      /\ [o EXCEPT !.n = n, !.rc = rc].rc = rc
      /\ [o EXCEPT !.n = n, !.rc = rc].skey = DoNotIndex
  BY <1>2, <1>4 DEF Operation
<1> QED BY <1>6, <1>7

LEMMA FinishedFacts ==
  ASSUME Inv, NEW p \in Proc,
         NEW rc \in {"ok", "DB_NOTFOUND", "DB_SECONDARY_BAD", "timed_out", "half_done"}
  PROVE  /\ Finished(p, rc) \in Operation /\ Finished(p, rc).at = "idle"
         /\ Finished(p, rc).rc = rc /\ Finished(p, rc).skey = DoNotIndex
<1>1. op[p].n \in Nat
  BY FieldFacts DEF Operation
<1> QED BY <1>1, FinishedIs

LEMMA PositionStep ==
  ASSUME Inv, NEW p \in Proc, Position(p)
  PROVE  Inv'
<1>0. PICK o : o = op[p]
  OBVIOUS
<1>1. /\ o.at = "position" /\ Lock(p) /\ UNCHANGED <<primary, sec, undo>>
      /\ op' = [op EXCEPT ![p] = IF primary[o.key] = Absent
                  THEN Finished(p, "DB_NOTFOUND") ELSE [o EXCEPT !.at = "getcur"]]
  BY <1>0 DEF Position, Finish, Goto
<1>2. o \in Operation /\ o.key \in Key /\ o.val \in Value /\ o.i = 1 /\ Knows(p)
  BY <1>0, <1>1, FieldFacts DEF Steps1, Inv, Knows
<1>3. PICK o2 \in Operation :
        /\ op' = [op EXCEPT ![p] = o2]
        /\ o2.at \in {"idle", "getcur"} /\ o2.rc # "DB_SECONDARY_BAD"
        /\ o2.at = "idle" => o2.rc = "DB_NOTFOUND"
        /\ o2.at = "getcur" => o2.i = 1 /\ o2.key = o.key /\ o2.val = o.val
                               /\ primary[o.key] # Absent
  <2>1. CASE primary[o.key] = Absent
    BY <1>1, <2>1, FinishedFacts
  <2>2. CASE primary[o.key] # Absent
    <3>1. [o EXCEPT !.at = "getcur"] \in Operation
      BY <1>2 DEF Operation, Steps1
    <3> QED BY <1>0, <1>1, <1>2, <2>2, <3>1 DEF Operation, Inv
  <2> QED BY <2>1, <2>2
<1>4. Need(p) = {<<"r", PrimaryPage(o.key)>>}
  BY <1>0, <1>1, NeedFacts
<1>5. Need(p) \subseteq {"r", "w"} \X (({0} \cup Index) \X (Key \cup SecKey))
  BY <1>2, <1>4 DEF PrimaryPage
<1>6. Moved(p) /\ op'[p] = o2
  BY <1>1, <1>3, <1>5, LockMoves
<1>7. Reads(p, PrimaryPage(o.key))'
  BY <1>1, <1>4, <1>5, LockFacts
<1>8. Fresh(op[p]) /\ Fresh(op'[p])
  BY <1>0, <1>1, <1>3, <1>6 DEF Fresh, HasOld, HasNew
<1>9. Knows(p)'
  BY <1>0, <1>1, <1>2, <1>3, <1>6, <1>7 DEF Knows, NewIsIn, Steps1, PrimaryPage
<1>10. Found(op'[p])
  BY <1>3, <1>6 DEF Found
<1> QED BY <1>0, <1>1, <1>3, <1>6, <1>8, <1>9, <1>10, FreshStep DEF Doomed

LEMMA GetCurrentStep ==
  ASSUME Inv, NEW p \in Proc, GetCurrent(p)
  PROVE  Inv'
<1>0. PICK o : o = op[p]
  OBVIOUS
<1>1. /\ o.at = "getcur" /\ Lock(p) /\ UNCHANGED <<primary, sec, undo>>
      /\ op' = [op EXCEPT ![p].old = primary[o.key], ![p].at = "cur"]
  BY <1>0 DEF GetCurrent
<1>2. /\ o \in Operation /\ o.key \in Key /\ o.val \in Value /\ o.i = 1 /\ Knows(p)
      /\ primary[o.key] \in Value /\ o.rc # "DB_SECONDARY_BAD"
      /\ op \in [Proc -> Operation]
  BY <1>0, <1>1, FieldFacts DEF Steps1, Inv, Knows, Types
<1>3. PICK o2 \in Operation :
        /\ op' = [op EXCEPT ![p] = o2]
        /\ o2.at = "cur" /\ o2.i = 1 /\ o2.key = o.key /\ o2.val = o.val /\ o2.rc = o.rc
        /\ o2.old = primary[o.key]
  <2>1. [o EXCEPT !.old = primary[o.key], !.at = "cur"] \in Operation
    BY <1>2 DEF Operation, Steps1
  <2>2. op' = [op EXCEPT ![p] = [o EXCEPT !.old = primary[o.key], !.at = "cur"]]
    BY <1>0, <1>1, <1>2
  <2> QED BY <1>2, <2>1, <2>2 DEF Operation
<1>4. Need(p) = {<<"w", PrimaryPage(o.key)>>}
  BY <1>0, <1>1, NeedFacts
<1>5. Need(p) \subseteq {"r", "w"} \X (({0} \cup Index) \X (Key \cup SecKey))
  BY <1>2, <1>4 DEF PrimaryPage
<1>6. Moved(p) /\ op'[p] = o2
  BY <1>1, <1>3, <1>5, LockMoves
<1>7. Writes(p, PrimaryPage(o.key))'
  BY <1>1, <1>4, <1>5, LockFacts
<1>8. Fresh(op[p]) /\ Fresh(op'[p])
  <2>1. Fresh(op[p])
    BY <1>0, <1>1 DEF Fresh, HasOld, HasNew
  <2>2. Fresh(op'[p])
    BY <1>3, <1>6, IndexAssumption DEF Fresh, HasOld, HasNew, Index
  <2> QED BY <2>1, <2>2
<1>9. Knows(p)'
  BY <1>0, <1>1, <1>2, <1>3, <1>6, <1>7 DEF Knows, NewIsIn, Steps1, PrimaryPage
<1>10. Found(op'[p])
  BY <1>3, <1>6 DEF Found
<1> QED BY <1>0, <1>1, <1>2, <1>3, <1>6, <1>8, <1>9, <1>10, FreshStep DEF Doomed

\* The key an index entry is read for.
LEMMA MinFacts ==
  ASSUME NEW keys, keys \subseteq Key, keys # {}
  PROVE  Min(keys) \in keys
<1>1. keys \subseteq Nat
  BY IndexAssumption
<1>2. \E x \in keys : \A y \in keys : x =< y
  BY <1>1, LeastNat
<1> QED BY <1>2 DEF Min

LEMMA NextToEraseStep ==
  ASSUME Inv, NEW p \in Proc, NextToErase(p)
  PROVE  Inv'
<1>0. PICK o, keys : o = op[p] /\ keys = {k \in Key : <<op[p].skey, k>> \in sec[op[p].i]}
  OBVIOUS
<1>1. /\ o.at = "secdel" /\ Lock(p) /\ UNCHANGED <<primary, sec, undo>>
      /\ IF keys # {}
         THEN op' = [op EXCEPT ![p].at = "getdel", ![p].key = Min(keys), ![p].old = Absent]
         ELSE op' = [op EXCEPT ![p] = Finished(p, IF o.key = Absent THEN "DB_NOTFOUND" ELSE "ok")]
  BY <1>0 DEF NextToErase, Finish
<1>2. /\ o \in Operation /\ o.skey \in SecKey /\ o.i \in Index
      /\ o.rc # "DB_SECONDARY_BAD" /\ op \in [Proc -> Operation]
  BY <1>0, <1>1, FieldFacts DEF Inv, Types
<1>3. PICK o2 \in Operation :
        /\ op' = [op EXCEPT ![p] = o2]
        /\ o2.at \in {"idle", "getdel"} /\ o2.rc # "DB_SECONDARY_BAD"
        /\ o2.at = "idle" => o2.skey = DoNotIndex
        /\ o2.at = "getdel" => o2.i = o.i /\ o2.skey = o.skey /\ o2.key \in keys
  <2>1. CASE keys = {}
    <3>1. PICK rc \in {"ok", "DB_NOTFOUND"} : op' = [op EXCEPT ![p] = Finished(p, rc)]
      BY <1>1, <2>1
    <3> QED BY <3>1, FinishedFacts
  <2>2. CASE keys # {}
    <3>1. Min(keys) \in keys /\ Min(keys) \in Key
      BY <1>0, <2>2, MinFacts
    <3>2. PICK m \in keys : m = Min(keys) /\ m \in Key
      BY <3>1
    <3>3. [o EXCEPT !.at = "getdel", !.key = m, !.old = Absent] \in Operation
      BY <1>2, <3>2 DEF Operation, Steps1
    <3>4. op' = [op EXCEPT ![p] = [o EXCEPT !.at = "getdel", !.key = m, !.old = Absent]]
      BY <1>0, <1>1, <1>2, <2>2, <3>2
    <3>5. PICK o2 : o2 = [o EXCEPT !.at = "getdel", !.key = m, !.old = Absent]
      OBVIOUS
    <3>6. o2.at = "getdel" /\ o2.key = m /\ o2.rc = o.rc /\ o2.i = o.i /\ o2.skey = o.skey
      BY <1>2, <3>5 DEF Operation
    <3> QED BY <1>2, <3>2, <3>3, <3>4, <3>5, <3>6
  <2> QED BY <2>1, <2>2
<1>4. Need(p) = {<<"w", SecPage(o.i, o.skey)>>}
  BY <1>0, <1>1, NeedFacts
<1>5. Need(p) \subseteq {"r", "w"} \X (({0} \cup Index) \X (Key \cup SecKey))
  BY <1>2, <1>4 DEF SecPage
<1>6. Moved(p) /\ op'[p] = o2
  BY <1>1, <1>3, <1>5, LockMoves
<1>7. Writes(p, SecPage(o.i, o.skey))'
  BY <1>1, <1>4, <1>5, LockFacts
<1>8. Fresh(op[p]) /\ Fresh(op'[p])
  BY <1>0, <1>1, <1>3, <1>6 DEF Fresh, HasOld, HasNew
<1>9. Knows(p)'
  BY <1>0, <1>1, <1>2, <1>3, <1>6, <1>7 DEF Knows, NewIsIn, Steps1, SecPage
<1>10. Found(op'[p])
  BY <1>3, <1>6 DEF Found
<1> QED BY <1>0, <1>1, <1>3, <1>6, <1>8, <1>9, <1>10, FreshStep DEF Doomed

\* An entry that p has locked calls for the record, which p has locked now.
LEMMA EntryHasRecord ==
  ASSUME Inv, NEW p \in Proc, ~Doomed(op[p]), Fresh(op[p]),
         NEW i \in Index, NEW s \in SecKey, NEW k \in Key, <<s, k>> \in sec[i],
         Reads(p, SecPage(i, s)), \A q \in Proc \ {p} : ~Writes(q, PrimaryPage(k))
  PROVE  primary[k] \in Value /\ Extract[i][primary[k]] = s
<1>1. \A q \in Proc \ {p} : ~Writes(q, SecPage(i, s))
  BY OneWriter DEF Inv
<1>2. SeesIn(p, i, <<s, k>>)
  BY <1>1, LockedEntry
<1>3. SeesValue(p, k, primary[k]) /\ primary[k] \in Value \cup {Absent}
  BY LockedRecord DEF Inv, Types
<1>4. Expected(op[p], k, primary[k], i, s)
  BY <1>2, <1>3 DEF Inv, Consistent
<1> QED BY <1>3, <1>4 DEF Expected, Fresh

LEMMA GetToEraseStep ==
  ASSUME Inv, NEW p \in Proc, GetToErase(p)
  PROVE  Inv'
<1>0. PICK o, old : o = op[p] /\ old = primary[op[p].key]
  OBVIOUS
<1>1. /\ o.at = "getdel" /\ Lock(p) /\ UNCHANGED <<primary, sec, undo>>
      /\ IF old # Absent
         THEN op' = [op EXCEPT ![p].at = "del", ![p].old = old, ![p].i = 1]
         ELSE op' = [op EXCEPT ![p] =
                 Finished(p, IF o.skey = DoNotIndex THEN "DB_NOTFOUND" ELSE "DB_SECONDARY_BAD")]
  BY <1>0 DEF GetToErase, Finish
<1>2. /\ o \in Operation /\ o.key \in Key /\ o.i \in Index /\ old \in Value \cup {Absent}
      /\ o.rc # "DB_SECONDARY_BAD" /\ op \in [Proc -> Operation] /\ Knows(p)
      /\ o.skey # DoNotIndex => o.skey \in SecKey
  BY <1>0, <1>1, FieldFacts DEF Inv, Types
<1>4. Need(p) = {<<"w", PrimaryPage(o.key)>>}
  BY <1>0, <1>1, NeedFacts
<1>5. Need(p) \subseteq {"r", "w"} \X (({0} \cup Index) \X (Key \cup SecKey))
  BY <1>2, <1>4 DEF PrimaryPage
<1>6. \A q \in Proc \ {p} : ~Writes(q, PrimaryPage(o.key))
  <2>1. <<"w", PrimaryPage(o.key)>> \in Need(p) /\ <<"w", PrimaryPage(o.key)>>[2] = PrimaryPage(o.key)
    BY <1>4
  <2> QED BY <1>1, <1>5, <2>1, LockFacts
<1>7. Fresh(op[p])
  BY <1>0, <1>1 DEF Fresh, HasOld, HasNew
<1>8. o.skey # DoNotIndex => old # Absent
  <2> SUFFICES ASSUME o.skey # DoNotIndex PROVE old \in Value
    BY IndexAssumption
  <2>1. <<o.skey, o.key>> \in sec[o.i] /\ Reads(p, SecPage(o.i, o.skey))
    BY <1>0, <1>1, <1>2 DEF Knows, Reads
  <2> QED BY <1>0, <1>1, <1>2, <1>6, <1>7, <2>1, EntryHasRecord DEF Doomed
<1>3. PICK o2 \in Operation :
        /\ op' = [op EXCEPT ![p] = o2]
        /\ o2.at \in {"idle", "del"} /\ o2.rc # "DB_SECONDARY_BAD"
        /\ o2.at = "idle" => o2.skey = DoNotIndex
        /\ o2.at = "del" => o2.i = 1 /\ o2.key = o.key /\ o2.old = old /\ old \in Value
  <2>1. CASE old = Absent
    BY <1>1, <1>8, <2>1, FinishedFacts
  <2>2. CASE old # Absent
    <3>1. [o EXCEPT !.at = "del", !.old = old, !.i = 1] \in Operation
      BY <1>2, IdleTyped DEF Operation, Steps1
    <3>2. op' = [op EXCEPT ![p] = [o EXCEPT !.at = "del", !.old = old, !.i = 1]]
      BY <1>0, <1>1, <1>2, <2>2
    <3>3. PICK x : x = [o EXCEPT !.at = "del", !.old = old, !.i = 1]
      OBVIOUS
    <3>4. /\ x.at = "del" /\ x.rc = o.rc /\ x.i = 1 /\ x.key = o.key
          /\ x.old = old /\ x.skey = o.skey
      BY <1>2, <3>3 DEF Operation
    <3> QED BY <1>2, <2>2, <3>1, <3>2, <3>3, <3>4
  <2> QED BY <2>1, <2>2
<1>9. Moved(p) /\ op'[p] = o2
  BY <1>1, <1>3, <1>5, LockMoves
<1>10. Writes(p, PrimaryPage(o.key))'
  BY <1>1, <1>4, <1>5, LockFacts
<1>11. Fresh(op'[p])
  BY <1>3, <1>9, IndexAssumption DEF Fresh, HasOld, HasNew, Index
<1>12. Knows(p)'
  BY <1>0, <1>1, <1>2, <1>3, <1>9, <1>10 DEF Knows, NewIsIn, Steps1, PrimaryPage
<1>13. Found(op'[p])
  BY <1>3, <1>9 DEF Found
<1> QED BY <1>0, <1>1, <1>3, <1>7, <1>9, <1>11, <1>12, <1>13, FreshStep DEF Doomed

LEMMA PgetKeyStep ==
  ASSUME Inv, NEW p \in Proc, PgetKey(p)
  PROVE  Inv'
<1>0. PICK o, keys : o = op[p] /\ keys = {k \in Key : <<op[p].skey, k>> \in sec[op[p].i]}
  OBVIOUS
<1>1. /\ o.at = "pget" /\ Lock(p) /\ UNCHANGED <<primary, sec, undo>>
      /\ IF keys = {} THEN op' = [op EXCEPT ![p] = Finished(p, "DB_NOTFOUND")]
         ELSE op' = [op EXCEPT ![p].at = "data", ![p].key = Min(keys)]
  BY <1>0 DEF PgetKey, Finish
<1>2. /\ o \in Operation /\ o.skey \in SecKey /\ o.i \in Index
      /\ o.rc # "DB_SECONDARY_BAD" /\ op \in [Proc -> Operation]
  BY <1>0, <1>1, FieldFacts DEF Inv, Types
<1>3. PICK o2 \in Operation :
        /\ op' = [op EXCEPT ![p] = o2]
        /\ o2.at \in {"idle", "data"} /\ o2.rc # "DB_SECONDARY_BAD"
        /\ o2.at = "idle" => o2.skey = DoNotIndex
        /\ o2.at = "data" => o2.i = o.i /\ o2.skey = o.skey /\ o2.key \in keys
  <2>1. CASE keys = {}
    BY <1>1, <2>1, FinishedFacts
  <2>2. CASE keys # {}
    <3>1. Min(keys) \in keys /\ Min(keys) \in Key
      BY <1>0, <2>2, MinFacts
    <3>2. PICK m \in keys : m = Min(keys) /\ m \in Key
      BY <3>1
    <3>3. [o EXCEPT !.at = "data", !.key = m] \in Operation
      BY <1>2, <3>2 DEF Operation, Steps1
    <3>4. op' = [op EXCEPT ![p] = [o EXCEPT !.at = "data", !.key = m]]
      BY <1>0, <1>1, <1>2, <2>2, <3>2
    <3>5. PICK x : x = [o EXCEPT !.at = "data", !.key = m]
      OBVIOUS
    <3>6. x.at = "data" /\ x.rc = o.rc /\ x.i = o.i /\ x.skey = o.skey /\ x.key = m
      BY <1>2, <3>5 DEF Operation
    <3> QED BY <1>2, <3>3, <3>4, <3>5, <3>6
  <2> QED BY <2>1, <2>2
<1>4. Need(p) = {<<"r", SecPage(o.i, o.skey)>>}
  BY <1>0, <1>1, NeedFacts
<1>5. Need(p) \subseteq {"r", "w"} \X (({0} \cup Index) \X (Key \cup SecKey))
  BY <1>2, <1>4 DEF SecPage
<1>6. Moved(p) /\ op'[p] = o2
  BY <1>1, <1>3, <1>5, LockMoves
<1>7. Reads(p, SecPage(o.i, o.skey))'
  BY <1>1, <1>4, <1>5, LockFacts
<1>8. Fresh(op[p]) /\ Fresh(op'[p])
  BY <1>0, <1>1, <1>3, <1>6 DEF Fresh, HasOld, HasNew
<1>9. Knows(p)'
  BY <1>0, <1>1, <1>2, <1>3, <1>6, <1>7 DEF Knows, NewIsIn, Steps1, SecPage
<1>10. Found(op'[p])
  BY <1>3, <1>6 DEF Found
<1> QED BY <1>0, <1>1, <1>3, <1>6, <1>8, <1>9, <1>10, FreshStep DEF Doomed

LEMMA PgetDataStep ==
  ASSUME Inv, NEW p \in Proc, PgetData(p)
  PROVE  Inv'
<1>0. PICK o, v : o = op[p] /\ v = primary[op[p].key]
  OBVIOUS
<1>1. /\ o.at = "data" /\ Lock(p) /\ UNCHANGED <<primary, sec, undo>>
      /\ IF v = Absent THEN op' = [op EXCEPT ![p] = Finished(p, "DB_SECONDARY_BAD")]
         ELSE op' = [op EXCEPT ![p] = [Finished(p, "ok") EXCEPT !.i = o.i, !.skey = o.skey, !.val = v]]
  BY <1>0 DEF PgetData, Finish
<1>2. /\ o \in Operation /\ o.key \in Key /\ o.i \in Index /\ o.skey \in SecKey /\ Knows(p)
  BY <1>0, <1>1, FieldFacts DEF Inv
<1>4. Need(p) = {<<"r", PrimaryPage(o.key)>>}
  BY <1>0, <1>1, NeedFacts
<1>5. Need(p) \subseteq {"r", "w"} \X (({0} \cup Index) \X (Key \cup SecKey))
  BY <1>2, <1>4 DEF PrimaryPage
<1>6. \A q \in Proc \ {p} : ~Writes(q, PrimaryPage(o.key))
  <2>1. <<"r", PrimaryPage(o.key)>> \in Need(p) /\ <<"r", PrimaryPage(o.key)>>[2] = PrimaryPage(o.key)
    BY <1>4
  <2> QED BY <1>1, <1>5, <2>1, LockFacts
<1>7. Fresh(op[p])
  BY <1>0, <1>1 DEF Fresh, HasOld, HasNew
<1>8. v \in Value /\ Extract[o.i][v] = o.skey /\ v # Absent
  <2>1. <<o.skey, o.key>> \in sec[o.i] /\ Reads(p, SecPage(o.i, o.skey))
    BY <1>0, <1>1, <1>2 DEF Knows
  <2>2. v \in Value /\ Extract[o.i][v] = o.skey
    <3>1. ~Doomed(op[p])
      BY <1>0, <1>1 DEF Doomed
    <3> QED BY <1>0, <1>1, <1>2, <1>6, <1>7, <2>1, <3>1, EntryHasRecord
  <2> QED BY <2>2, IndexAssumption
<1>3. PICK o2 \in Operation :
        /\ op' = [op EXCEPT ![p] = o2]
        /\ o2.at = "idle" /\ o2.rc = "ok" /\ o2.i = o.i /\ o2.skey = o.skey /\ o2.val = v
  <2>1. PICK f \in Operation : f = Finished(p, "ok") /\ f.at = "idle" /\ f.rc = "ok"
    BY FinishedFacts
  <2>2. [f EXCEPT !.i = o.i, !.skey = o.skey, !.val = v] \in Operation
    BY <1>2, <1>8, <2>1 DEF Operation
  <2> QED BY <1>1, <1>8, <2>1, <2>2 DEF Operation
<1>9. Moved(p) /\ op'[p] = o2
  BY <1>1, <1>3, <1>5, LockMoves
<1>11. Fresh(op'[p])
  BY <1>3, <1>9 DEF Fresh, HasOld, HasNew
<1>12. Knows(p)'
  BY <1>3, <1>9 DEF Knows, NewIsIn, Steps1
<1>13. Found(op'[p])
  BY <1>3, <1>8, <1>9 DEF Found
<1> QED BY <1>0, <1>1, <1>3, <1>7, <1>9, <1>11, <1>12, <1>13, FreshStep DEF Doomed

-----------------------------------------------------------------------------
(* The steps of a put or an erase. *)

LEMMA OwnRecord ==
  ASSUME Inv, NEW p \in Proc, NEW k \in Key, Writes(p, PrimaryPage(k))
  PROVE  \A v : SeesValue(p, k, v) <=> v = primary[k]
<1>1. \A q \in Proc \ {p} : ~Writes(q, PrimaryPage(k))
  BY OneWriter DEF Inv, Reads
<1> QED BY <1>1, LockedRecord

\* The operation is of the same record, and whoever had not locked it has its
\* new entries locked, or has locked the record now.
SameRecord(p, o, o2) ==
    /\ ~Doomed(o) /\ o2.at # "idle" /\ o2.rc # "DB_SECONDARY_BAD"
    /\ o2.key = o.key /\ o2.val = o.val /\ o.key \in Key
    /\ \/ Writes(p, PrimaryPage(o.key))
       \/ Writes(p, PrimaryPage(o.key))'
       \/ /\ o2.at \in {"new", "get"}
          /\ \A i \in Index : HasNew(o, i) => HasNew(o2, i)

\* A step that leaves the database as it is, and does not change what is
\* expected of the indexes.
LEMMA QuietStep ==
  ASSUME Inv, NEW p \in Proc, NEW o, NEW o2, o = op[p], o2 = op'[p],
         Moved(p), UNCHANGED <<primary, sec, undo>>, SameRecord(p, o, o2),
         \A v \in Value \cup {Absent}, i \in Index, s \in SecKey :
            SeesValue(p, o.key, v) =>
              (Expected(o2, o.key, v, i, s) <=> Expected(o, o.key, v, i, s)),
         Knows(p)'
  PROVE  Inv'
<1>1. /\ Keeps(p)
      /\ \A i, e : /\ SeesIn(p, i, e)' <=> SeesIn(p, i, e)
                   /\ SeesOut(p, i, e)' <=> SeesOut(p, i, e)
                   /\ ChangedEntry(p, i, e)' <=> ChangedEntry(p, i, e)
      /\ \A k : ChangedRecord(p, k)' <=> ChangedRecord(p, k)
      /\ \A k, v : SeesValue(p, k, v)' <=> SeesValue(p, k, v)
  BY QuietKeeps
<1>2. \A k \in Key, v \in Value \cup {Absent}, i \in Index, s \in SecKey :
        SeesValue(p, k, v) => (Expected(o2, k, v, i, s) <=> Expected(o, k, v, i, s))
  BY DEF Expected, SameRecord
<1>3. Consistent(p)'
  <2>1. Consistent(p)
    BY DEF Inv, SameRecord
  <2> QED BY <1>1, <1>2, <2>1 DEF Consistent
<1>4. \A page : Writes(p, page) => Writes(p, page)'
  BY DEF Moved, Writes
<1>5. ChangesLocked(p)'
  <2>1. ChangesLocked(p)
    BY DEF Inv
  <2>2. \A k \in Key : ChangedRecord(p, k)' => Writes(p, PrimaryPage(k))'
    BY <1>1, <1>4, <2>1 DEF ChangesLocked
  <2>3. ASSUME NEW i \in Index, NEW s \in SecKey, NEW k \in Key, ChangedEntry(p, i, <<s, k>>)'
        PROVE  /\ Writes(p, SecPage(i, s))'
               /\ \/ Writes(p, PrimaryPage(k))'
                  \/ /\ o2.at \in {"new", "get"} /\ k = o2.key
                     /\ HasNew(o2, i) /\ Extract[i][o2.val] = s
    BY <1>1, <1>4, <2>1, <2>3 DEF ChangesLocked, SameRecord
  <2> QED BY <2>2, <2>3 DEF ChangesLocked
<1>6. Found(op'[p]) /\ op'[p].rc # "DB_SECONDARY_BAD"
  BY DEF Found, SameRecord
<1> QED BY <1>1, <1>3, <1>5, <1>6, KeepsInv

\* One entry is added or removed, under the lock of its page.
EntryChange(p, what, i0, s0, k0) ==
    /\ what \in {"added", "removed"} /\ i0 \in Index /\ s0 \in SecKey /\ k0 \in Key
    /\ (what = "added") <=> <<s0, k0>> \notin sec[i0]
    /\ sec' = [sec EXCEPT ![i0] = IF what = "added" THEN @ \cup {<<s0, k0>>}
                                                    ELSE @ \ {<<s0, k0>>}]
    /\ undo' = [undo EXCEPT ![p] = Append(@, [what |-> what, i |-> i0, e |-> <<s0, k0>>])]
    /\ primary' = primary
    /\ Writes(p, SecPage(i0, s0))'

\* That entry is expected to be there, or not to be there, after it.
ChangeExpected(p, o, o2, what, i0, s0) ==
    \A v \in Value \cup {Absent}, i \in Index, s \in SecKey :
       SeesValue(p, o.key, v) =>
         IF i = i0 /\ s = s0 THEN Expected(o2, o.key, v, i, s) <=> what = "added"
         ELSE Expected(o2, o.key, v, i, s) <=> Expected(o, o.key, v, i, s)

\* A step that adds or removes one entry of the record.
LEMMA EntryStep ==
  ASSUME Inv, NEW p \in Proc, NEW o, NEW o2, o = op[p], o2 = op'[p],
         Moved(p), SameRecord(p, o, o2), NEW what, NEW i0, NEW s0,
         EntryChange(p, what, i0, s0, o.key),
         \/ Writes(p, PrimaryPage(o.key))
         \/ o2.at \in {"new", "get"} /\ HasNew(o2, i0) /\ Extract[i0][o2.val] = s0,
         ChangeExpected(p, o, o2, what, i0, s0), Knows(p)'
  PROVE  Inv'
<1>0. PICK k0 \in Key : k0 = o.key
  BY DEF SameRecord
<1>1. /\ Keeps(p)
      /\ \A i \in Index, s \in SecKey, k \in Key :
           ~(i = i0 /\ s = s0 /\ k = k0) =>
              /\ SeesIn(p, i, <<s, k>>)' => SeesIn(p, i, <<s, k>>)
              /\ SeesOut(p, i, <<s, k>>)' => SeesOut(p, i, <<s, k>>)
              /\ ChangedEntry(p, i, <<s, k>>)' => ChangedEntry(p, i, <<s, k>>)
      /\ SeesIn(p, i0, <<s0, k0>>)' <=> what = "added"
      /\ SeesOut(p, i0, <<s0, k0>>)' <=> what = "removed"
      /\ \A k : ChangedRecord(p, k)' <=> ChangedRecord(p, k)
      /\ \A k, v : SeesValue(p, k, v)' => SeesValue(p, k, v)
  <2>1. /\ what \in {"added", "removed"} /\ i0 \in Index /\ s0 \in SecKey
        /\ (what = "added") <=> <<s0, k0>> \notin sec[i0]
        /\ sec' = [sec EXCEPT ![i0] = IF what = "added" THEN @ \cup {<<s0, k0>>}
                                                         ELSE @ \ {<<s0, k0>>}]
        /\ undo' = [undo EXCEPT ![p] = Append(@, [what |-> what, i |-> i0, e |-> <<s0, k0>>])]
        /\ primary' = primary /\ Writes(p, SecPage(i0, s0))'
    BY <1>0, Zenon DEF EntryChange
  <2> QED BY <2>1, EntryKeeps
<1>2. Consistent(p)'
  <2>1. Consistent(p)
    BY DEF Inv, SameRecord
  <2> SUFFICES ASSUME NEW k \in Key, NEW v \in Value \cup {Absent}, NEW i \in Index,
                      NEW s \in SecKey, SeesValue(p, k, v)'
               PROVE  /\ SeesIn(p, i, <<s, k>>)' => Expected(o2, k, v, i, s)
                      /\ SeesOut(p, i, <<s, k>>)' => ~Expected(o2, k, v, i, s)
    BY DEF Consistent
  <2>2. SeesValue(p, k, v)
    BY <1>1
  <2>3. CASE i = i0 /\ s = s0 /\ k = k0
    BY <1>0, <1>1, <2>2, <2>3 DEF EntryChange, ChangeExpected
  <2>4. CASE ~(i = i0 /\ s = s0 /\ k = k0)
    <3>1. /\ SeesIn(p, i, <<s, k>>)' => Expected(o, k, v, i, s)
          /\ SeesOut(p, i, <<s, k>>)' => ~Expected(o, k, v, i, s)
      BY <1>1, <2>1, <2>2, <2>4 DEF Consistent
    <3>2. Expected(o2, k, v, i, s) <=> Expected(o, k, v, i, s)
      <4>1. CASE k = k0
        BY <1>0, <2>2, <2>4, <4>1 DEF ChangeExpected
      <4>2. CASE k # k0
        BY <1>0, <4>2 DEF Expected, SameRecord
      <4> QED BY <4>1, <4>2
    <3> QED BY <3>1, <3>2
  <2> QED BY <2>3, <2>4
<1>4. \A page : Writes(p, page) => Writes(p, page)'
  BY DEF Moved, Writes
<1>5. ChangesLocked(p)'
  <2>1. ChangesLocked(p)
    BY DEF Inv
  <2>2. \A k \in Key : ChangedRecord(p, k)' => Writes(p, PrimaryPage(k))'
    BY <1>1, <1>4, <2>1 DEF ChangesLocked
  <2>3. ASSUME NEW i \in Index, NEW s \in SecKey, NEW k \in Key, ChangedEntry(p, i, <<s, k>>)'
        PROVE  /\ Writes(p, SecPage(i, s))'
               /\ \/ Writes(p, PrimaryPage(k))'
                  \/ /\ o2.at \in {"new", "get"} /\ k = o2.key
                     /\ HasNew(o2, i) /\ Extract[i][o2.val] = s
    <3>1. CASE i = i0 /\ s = s0 /\ k = k0
      BY <1>0, <1>4, <3>1 DEF SameRecord, EntryChange
    <3>2. CASE ~(i = i0 /\ s = s0 /\ k = k0)
      BY <1>1, <1>4, <2>1, <2>3, <3>2 DEF ChangesLocked, SameRecord
    <3> QED BY <3>1, <3>2
  <2> QED BY <2>2, <2>3 DEF ChangesLocked
<1>6. Found(op'[p]) /\ op'[p].rc # "DB_SECONDARY_BAD"
  BY DEF Found, SameRecord
<1> QED BY <1>1, <1>2, <1>5, <1>6, KeepsInv

\* On to the next index.
LEMMA NextIndexGoesOn ==
  ASSUME op \in [Proc -> Operation], NEW p \in Proc, NEW at \in Steps1 \cup {"del", "erase"},
         NEW after \in Steps1 \cup {"del", "erase"}, NextIndex(p, at, after)
  PROVE  \E o2 \in Operation :
           /\ op' = [op EXCEPT ![p] = o2]
           /\ o2.key = op[p].key /\ o2.val = op[p].val /\ o2.old = op[p].old
           /\ o2.skey = op[p].skey /\ o2.rc = op[p].rc
           /\ o2.from = op[p].from /\ o2.n = op[p].n
           /\ \/ op[p].i + 1 \in Index /\ o2.i = op[p].i + 1 /\ o2.at = at
              \/ op[p].i = Indexes /\ o2.i = 1 /\ o2.at = after
<1>1. op[p] \in Operation /\ op \in [Proc -> Operation] /\ op[p].i \in 1..Indexes
  BY DEF Operation, Index
<1>2. PICK o : o = op[p]
  OBVIOUS
<1>3. CASE o.i < Indexes
  <2>1. op' = [op EXCEPT ![p] = [o EXCEPT !.i = o.i + 1, !.at = at]]
    BY <1>1, <1>2, <1>3 DEF NextIndex
  <2>2. o.i + 1 \in Index
    BY <1>1, <1>2, <1>3, IndexAssumption DEF Index
  <2>3. PICK o2 : o2 = [o EXCEPT !.i = o.i + 1, !.at = at]
    OBVIOUS
  <2>4. /\ o2 \in Operation /\ o2.i = o.i + 1 /\ o2.at = at
        /\ o2.key = o.key /\ o2.val = o.val /\ o2.old = o.old /\ o2.skey = o.skey
        /\ o2.rc = o.rc /\ o2.from = o.from /\ o2.n = o.n
    BY <1>1, <1>2, <2>2, <2>3, IdleTyped DEF Operation
  <2> QED BY <1>2, <2>1, <2>2, <2>3, <2>4
<1>4. CASE ~(o.i < Indexes)
  <2>1. op' = [op EXCEPT ![p] = [o EXCEPT !.i = 1, !.at = after]]
    BY <1>1, <1>2, <1>4 DEF NextIndex
  <2>2. o.i = Indexes
    BY <1>1, <1>2, <1>4, IndexAssumption
  <2>3. PICK o2 : o2 = [o EXCEPT !.i = 1, !.at = after]
    OBVIOUS
  <2>4. /\ o2 \in Operation /\ o2.i = 1 /\ o2.at = after
        /\ o2.key = o.key /\ o2.val = o.val /\ o2.old = o.old /\ o2.skey = o.skey
        /\ o2.rc = o.rc /\ o2.from = o.from /\ o2.n = o.n
    BY <1>1, <1>2, <2>2, <2>3, IdleTyped DEF Operation
  <2> QED BY <1>2, <2>1, <2>2, <2>3, <2>4
<1> QED BY <1>3, <1>4

LEMMA NextIndexFacts ==
  ASSUME Inv, NEW p \in Proc, NEW at \in Steps1 \cup {"del", "erase"},
         NEW after \in Steps1 \cup {"del", "erase"}, NextIndex(p, at, after)
  PROVE  \E o2 \in Operation :
           /\ op' = [op EXCEPT ![p] = o2]
           /\ o2.key = op[p].key /\ o2.val = op[p].val /\ o2.old = op[p].old
           /\ o2.skey = op[p].skey /\ o2.rc = op[p].rc
           /\ o2.from = op[p].from /\ o2.n = op[p].n
           /\ \/ op[p].i + 1 \in Index /\ o2.i = op[p].i + 1 /\ o2.at = at
              \/ op[p].i = Indexes /\ o2.i = 1 /\ o2.at = after
<1>1. op \in [Proc -> Operation]
  BY DEF Inv, Types
<1>2. PICK o2 \in Operation :
        /\ op' = [op EXCEPT ![p] = o2]
        /\ o2.key = op[p].key /\ o2.val = op[p].val /\ o2.old = op[p].old
        /\ o2.skey = op[p].skey /\ o2.rc = op[p].rc
        /\ o2.from = op[p].from /\ o2.n = op[p].n
        /\ \/ op[p].i + 1 \in Index /\ o2.i = op[p].i + 1 /\ o2.at = at
           \/ op[p].i = Indexes /\ o2.i = 1 /\ o2.at = after
  BY ONLY <1>1, NextIndexGoesOn, NextIndex(p, at, after), p \in Proc,
     at \in Steps1 \cup {"del", "erase"}, after \in Steps1 \cup {"del", "erase"}
<1> QED BY <1>2

\* What p sees it expects, when it has the page.
LEMMA EntryExpected ==
  ASSUME Inv, NEW p \in Proc, ~Doomed(op[p]),
         NEW i \in Index, NEW s \in SecKey, NEW k \in Key, NEW v \in Value \cup {Absent},
         \A q \in Proc \ {p} : ~Writes(q, SecPage(i, s)), SeesValue(p, k, v)
  PROVE  <<s, k>> \in sec[i] <=> Expected(op[p], k, v, i, s)
<1>1. Consistent(p)
  BY DEF Inv
<1> QED BY <1>1, LockedEntry DEF Consistent

LEMMA PutNewEntryStep ==
  ASSUME Inv, NEW p \in Proc, PutNewEntry(p)
  PROVE  Inv'
<1>0. PICK o, new : o = op[p] /\ new = NewKey(p) /\ new = Extract[o.i][o.val]
  BY DEF NewKey
<1>1. /\ o.at = "new" /\ Lock(p) /\ primary' = primary /\ NextIndex(p, "new", "get")
      /\ IF new = DoNotIndex THEN UNCHANGED <<sec, undo>>
         ELSE AddEntry(p, o.i, <<new, o.key>>)
  BY <1>0 DEF PutNewEntry
<1>2. /\ o \in Operation /\ o.key \in Key /\ o.val \in Value /\ o.i \in Index
      /\ o.rc # "DB_SECONDARY_BAD" /\ NewIsIn(p) /\ Types
  BY <1>0, <1>1, FieldFacts DEF Steps1, Inv, Knows
<1>3. PICK o2 \in Operation :
        /\ op' = [op EXCEPT ![p] = o2]
        /\ o2.key = o.key /\ o2.val = o.val /\ o2.rc = o.rc
        /\ \/ o2.at = "new" /\ o2.i = o.i + 1
           \/ o2.at = "get" /\ o.i = Indexes /\ o2.i = 1
  <2>1. "new" \in Steps1 /\ "get" \in Steps1
    BY DEF Steps1
  <2> QED BY <1>0, <1>1, <2>1, NextIndexFacts
<1>4. \A i \in Index : /\ HasNew(o2, i) <=> HasNew(o, i) \/ i = o.i
                       /\ HasOld(o, i) /\ HasOld(o2, i)
  BY <1>1, <1>2, <1>3, IndexAssumption DEF HasNew, HasOld, Index
<1>5. \A v, i, s : i \in Index => (Expected(o2, o.key, v, i, s) <=>
         Expected(o, o.key, v, i, s) \/ (i = o.i /\ new = s))
  BY <1>0, <1>3, <1>4 DEF Expected
<1>6. Need(p) = IF new = DoNotIndex THEN {} ELSE {<<"w", SecPage(o.i, new)>>}
  BY <1>0, <1>1, NeedFacts
<1>7. new \in SecKey \cup {DoNotIndex}
  BY <1>0, <1>2, IndexAssumption
<1>8. Need(p) \subseteq {"r", "w"} \X (({0} \cup Index) \X (Key \cup SecKey))
  BY <1>2, <1>6, <1>7 DEF SecPage
<1>9. Moved(p) /\ op'[p] = o2
  BY <1>1, <1>3, <1>8, LockMoves
<1>10. SameRecord(p, o, o2)
  BY <1>1, <1>2, <1>3, <1>4 DEF SameRecord, Doomed
<1>11. \A page : Writes(p, page) => Writes(p, page)'
  BY <1>9 DEF Moved, Writes
<1>12. ASSUME NEW i \in Index, HasNew(o, i), NEW s, s = Extract[i][o.val], s # DoNotIndex
       PROVE  Writes(p, SecPage(i, s))' /\ <<s, o.key>> \in sec[i]
  BY <1>0, <1>1, <1>2, <1>11, <1>12 DEF NewIsIn
<1>13. CASE new = DoNotIndex
  <2>1. UNCHANGED <<sec, undo>>
    BY <1>1, <1>13
  <2>2. \A v \in Value \cup {Absent}, i \in Index, s \in SecKey :
          Expected(o2, o.key, v, i, s) <=> Expected(o, o.key, v, i, s)
    BY <1>5, <1>13, IndexAssumption
  <2>3. NewIsIn(p)'
    BY <1>0, <1>3, <1>4, <1>9, <1>12, <1>13, <2>1 DEF NewIsIn
  <2>4. Knows(p)'
    BY <1>2, <1>3, <1>9, <2>3 DEF Knows, Steps1
  <2> QED BY <1>0, <1>1, <1>9, <1>10, <2>1, <2>2, <2>4, QuietStep
<1>14. CASE new # DoNotIndex
  <2>1. new \in SecKey
    BY <1>7, <1>14
  <2>2. /\ Writes(p, SecPage(o.i, new))'
        /\ \A q \in Proc \ {p} : ~Writes(q, SecPage(o.i, new))
    <3>1. <<"w", SecPage(o.i, new)>> \in Need(p) /\ <<"w", SecPage(o.i, new)>>[2] = SecPage(o.i, new)
      BY <1>6, <1>14
    <3> QED BY <1>1, <1>8, <3>1, LockFacts
  <2>3. CASE <<new, o.key>> \in sec[o.i]
    <3>1. UNCHANGED <<sec, undo>>
      BY <1>1, <1>14, <2>3 DEF AddEntry
    <3>2. ASSUME NEW v \in Value \cup {Absent}, SeesValue(p, o.key, v)
          PROVE  Expected(o, o.key, v, o.i, new)
      BY <1>0, <1>1, <1>2, <2>1, <2>2, <2>3, <3>2, EntryExpected DEF Doomed
    <3>3. \A v \in Value \cup {Absent}, i \in Index, s \in SecKey : SeesValue(p, o.key, v) =>
            (Expected(o2, o.key, v, i, s) <=> Expected(o, o.key, v, i, s))
      BY <1>5, <3>2
    <3>4. NewIsIn(p)'
      BY <1>0, <1>3, <1>4, <1>9, <1>12, <2>2, <2>3, <3>1 DEF NewIsIn
    <3>5. Knows(p)'
      BY <1>2, <1>3, <1>9, <3>4 DEF Knows, Steps1
    <3> QED BY <1>0, <1>1, <1>9, <1>10, <3>1, <3>3, <3>5, QuietStep
  <2>4. CASE <<new, o.key>> \notin sec[o.i]
    <3>1. /\ sec' = [sec EXCEPT ![o.i] = @ \cup {<<new, o.key>>}]
          /\ undo' = [undo EXCEPT ![p] =
                        Append(@, [what |-> "added", i |-> o.i, e |-> <<new, o.key>>])]
      BY <1>1, <1>14, <2>4 DEF AddEntry, Remember
    <3>2. EntryChange(p, "added", o.i, new, o.key)
      BY <1>1, <1>2, <2>1, <2>2, <2>4, <3>1 DEF EntryChange
    <3>3. ChangeExpected(p, o, o2, "added", o.i, new)
      BY <1>5 DEF ChangeExpected
    <3>4. /\ \A i \in Index : \A e : e \in sec[i] => e \in sec'[i]
          /\ <<new, o.key>> \in sec'[o.i]
      BY <1>2, <3>1 DEF Types
    <3>5. NewIsIn(p)'
      BY <1>0, <1>3, <1>4, <1>9, <1>12, <2>2, <3>4 DEF NewIsIn
    <3>6. Knows(p)'
      BY <1>2, <1>3, <1>9, <3>5 DEF Knows, Steps1
    <3>7. o2.at \in {"new", "get"} /\ HasNew(o2, o.i) /\ Extract[o.i][o2.val] = new
      BY <1>0, <1>2, <1>3, <1>4
    <3> QED BY <1>0, <1>9, <1>10, <3>2, <3>3, <3>6, <3>7, EntryStep
  <2> QED BY <2>3, <2>4
<1> QED BY <1>13, <1>14

LEMMA GetOldRecordStep ==
  ASSUME Inv, NEW p \in Proc, GetOldRecord(p)
  PROVE  Inv'
<1>0. PICK o, old : o = op[p] /\ old = primary[op[p].key]
  OBVIOUS
<1>1. /\ o.at = "get" /\ Lock(p) /\ UNCHANGED <<primary, sec, undo>>
      /\ op' = [op EXCEPT ![p].old = old, ![p].at = IF old = Absent THEN "put" ELSE "old"]
  BY <1>0 DEF GetOldRecord
<1>2. /\ o \in Operation /\ o.key \in Key /\ o.val \in Value /\ o.i = 1
      /\ o.rc # "DB_SECONDARY_BAD" /\ Types /\ old \in Value \cup {Absent}
  BY <1>0, <1>1, FieldFacts DEF Steps1, Inv, Knows, Types
<1>3. PICK o2 \in Operation :
        /\ op' = [op EXCEPT ![p] = o2]
        /\ o2.key = o.key /\ o2.val = o.val /\ o2.rc = o.rc /\ o2.i = 1 /\ o2.old = old
        /\ o2.at = IF old = Absent THEN "put" ELSE "old"
  <2>1. PICK at \in {"put", "old"} : at = IF old = Absent THEN "put" ELSE "old"
    OBVIOUS
  <2>2. PICK o2 : o2 = [o EXCEPT !.old = old, !.at = at]
    OBVIOUS
  <2>3. /\ o2 \in Operation /\ o2.key = o.key /\ o2.val = o.val /\ o2.rc = o.rc /\ o2.i = o.i
        /\ o2.old = old /\ o2.at = at
    BY <1>2, <2>2 DEF Operation, Steps1
  <2>4. op' = [op EXCEPT ![p] = o2]
    BY <1>0, <1>1, <1>2, <2>1, <2>2 DEF Types
  <2> QED BY <1>2, <2>1, <2>3, <2>4
<1>4. Need(p) = {<<"w", PrimaryPage(o.key)>>}
  BY <1>0, <1>1, NeedFacts
<1>5. Need(p) \subseteq {"r", "w"} \X (({0} \cup Index) \X (Key \cup SecKey))
  BY <1>2, <1>4 DEF PrimaryPage
<1>6. Moved(p) /\ op'[p] = o2
  BY <1>1, <1>3, <1>5, LockMoves
<1>7. /\ Writes(p, PrimaryPage(o.key))'
      /\ \A q \in Proc \ {p} : ~Writes(q, PrimaryPage(o.key))
  <2>1. <<"w", PrimaryPage(o.key)>> \in Need(p) /\ <<"w", PrimaryPage(o.key)>>[2] = PrimaryPage(o.key)
    BY <1>4
  <2> QED BY <1>1, <1>5, <2>1, LockFacts
<1>8. \A v : SeesValue(p, o.key, v) => v = old
  BY <1>0, <1>2, <1>7, LockedRecord
<1>9. SameRecord(p, o, o2)
  BY <1>1, <1>2, <1>3, <1>7 DEF SameRecord, PrimaryPage, Doomed
<1>10. \A v, i, s : i \in Index /\ v = old =>
         (Expected(o2, o.key, v, i, s) <=> Expected(o, o.key, v, i, s))
  <2>1. \A i \in Index : HasNew(o, i) /\ HasOld(o, i) /\ HasNew(o2, i)
    BY <1>1, <1>3 DEF HasNew, HasOld
  <2>2. \A i \in Index : old # Absent => HasOld(o2, i)
    BY <1>3 DEF HasOld, Index
  <2> QED BY <1>3, <2>1, <2>2 DEF Expected
<1>11. Knows(p)'
  BY <1>0, <1>1, <1>2, <1>3, <1>6, <1>7 DEF Knows, NewIsIn, Steps1, PrimaryPage
<1> QED BY <1>0, <1>1, <1>6, <1>8, <1>9, <1>10, <1>11, QuietStep

LEMMA DeleteOldEntryStep ==
  ASSUME Inv, NEW p \in Proc, DeleteOldEntry(p)
  PROVE  Inv'
<1>0. PICK o, new, old : /\ o = op[p]
                         /\ new = NewKey(p) /\ new = Extract[o.i][o.val]
                         /\ old = OldKey(p) /\ old = Extract[o.i][o.old]
  BY DEF NewKey, OldKey
<1>1. /\ o.at = "old" /\ Lock(p) /\ primary' = primary
      /\ IF Replaces(p, FALSE) THEN RemoveOrBad(p, o.i, <<old, o.key>>, "old", "put")
         ELSE NextIndex(p, "old", "put") /\ UNCHANGED <<sec, undo>>
  BY <1>0 DEF DeleteOldEntry
<1>2. /\ o \in Operation /\ o.key \in Key /\ o.val \in Value /\ o.i \in Index
      /\ o.old \in Value /\ o.old = primary[o.key] /\ Writes(p, PrimaryPage(o.key))
      /\ o.rc # "DB_SECONDARY_BAD" /\ Types
  BY <1>0, <1>1, FieldFacts DEF Steps1, Inv, Knows
<1>3. new \in SecKey \cup {DoNotIndex} /\ old \in SecKey \cup {DoNotIndex}
  BY <1>0, <1>2, IndexAssumption
<1>4. Replaces(p, FALSE) <=> old \notin {DoNotIndex, new}
  BY <1>0 DEF Replaces
<1>5. \A v : SeesValue(p, o.key, v) => v = o.old
  BY <1>0, <1>2, OwnRecord
<1>6. ASSUME NextIndex(p, "old", "put")
      PROVE  \E o2 \in Operation :
               /\ op' = [op EXCEPT ![p] = o2]
               /\ SameRecord(p, o, o2) /\ o2.old = o.old
               /\ o2.at \in {"old", "put"}
               /\ \A s : \A i \in Index :
                    Expected(o2, o.key, o.old, i, s) <=>
                      IF i = o.i THEN s = new ELSE Expected(o, o.key, o.old, i, s)
  <2>1. "old" \in Steps1 /\ "put" \in Steps1
    BY DEF Steps1
  <2>2. PICK o2 \in Operation :
          /\ op' = [op EXCEPT ![p] = o2]
          /\ o2.key = o.key /\ o2.val = o.val /\ o2.old = o.old /\ o2.rc = o.rc
          /\ \/ o2.at = "old" /\ o2.i = o.i + 1
             \/ o2.at = "put" /\ o.i = Indexes /\ o2.i = 1
    BY <1>0, <1>6, <2>1, NextIndexFacts
  <2>3. \A i \in Index : /\ HasNew(o, i) /\ HasNew(o2, i)
                         /\ HasOld(o, i) <=> i >= o.i
                         /\ HasOld(o2, i) <=> i > o.i
    BY <1>1, <1>2, <2>2, IndexAssumption DEF HasNew, HasOld, Index
  <2>4. \A s : \A i \in Index :
          Expected(o2, o.key, o.old, i, s) <=>
            IF i = o.i THEN s = new ELSE Expected(o, o.key, o.old, i, s)
    <3>1. \A i \in Index : i = o.i \/ (HasOld(o, i) <=> HasOld(o2, i))
      BY <1>2, <2>3 DEF Index
    <3>2. ~HasOld(o2, o.i)
      BY <1>2, <2>3 DEF Index
    <3> QED BY <1>0, <1>2, <2>2, <2>3, <3>1, <3>2 DEF Expected
  <2>5. SameRecord(p, o, o2)
    BY <1>1, <1>2, <2>2 DEF SameRecord, Doomed
  <2> QED BY <2>2, <2>4, <2>5
<1>7. ASSUME NEW s \in SecKey
      PROVE  Expected(o, o.key, o.old, o.i, s) <=> s = old \/ s = new
  <2>1. HasNew(o, o.i) /\ HasOld(o, o.i)
    BY <1>1, <1>2 DEF HasNew, HasOld, Index
  <2> QED BY <1>0, <1>2, <2>1, IndexAssumption DEF Expected
<1>8. CASE ~Replaces(p, FALSE)
  <2>1. NextIndex(p, "old", "put") /\ UNCHANGED <<primary, sec, undo>>
    BY <1>1, <1>8
  <2>2. PICK o2 \in Operation :
               /\ op' = [op EXCEPT ![p] = o2]
               /\ SameRecord(p, o, o2) /\ o2.old = o.old
               /\ o2.at \in {"old", "put"}
               /\ \A s : \A i \in Index :
                    Expected(o2, o.key, o.old, i, s) <=>
                      IF i = o.i THEN s = new ELSE Expected(o, o.key, o.old, i, s)
    BY <1>6, <2>1
  <2>3. Need(p) = {}
    BY <1>0, <1>1, <1>8, NeedFacts
  <2>4. Moved(p) /\ op'[p] = o2
    BY <1>1, <2>2, <2>3, LockMoves
  <2>5. \A v \in Value \cup {Absent}, i \in Index, s \in SecKey : SeesValue(p, o.key, v) =>
          (Expected(o2, o.key, v, i, s) <=> Expected(o, o.key, v, i, s))
    <3>1. \A s \in SecKey : s = old => s = new
      BY <1>4, <1>8, IndexAssumption
    <3>2. \A i \in Index, s \in SecKey :
            Expected(o2, o.key, o.old, i, s) <=> Expected(o, o.key, o.old, i, s)
      BY <1>7, <2>2, <3>1
    <3> QED BY <1>5, <3>2
  <2>6. Knows(p)'
    BY <1>1, <1>2, <2>1, <2>2, <2>4
       DEF Knows, NewIsIn, Steps1, SameRecord, Moved, Writes, PrimaryPage
  <2> QED BY <1>0, <2>1, <2>2, <2>4, <2>5, <2>6, QuietStep
<1>9. CASE Replaces(p, FALSE)
  <2>1. old \in SecKey /\ old # new
    BY <1>3, <1>4, <1>9
  <2>2. Need(p) = {<<"w", SecPage(o.i, old)>>}
    BY <1>0, <1>1, <1>9, NeedFacts
  <2>3. Need(p) \subseteq {"r", "w"} \X (({0} \cup Index) \X (Key \cup SecKey))
    BY <1>2, <2>1, <2>2 DEF SecPage
  <2>4. /\ Writes(p, SecPage(o.i, old))'
        /\ \A q \in Proc \ {p} : ~Writes(q, SecPage(o.i, old))
    <3>1. <<"w", SecPage(o.i, old)>> \in Need(p) /\ <<"w", SecPage(o.i, old)>>[2] = SecPage(o.i, old)
      BY <2>2
    <3> QED BY <1>1, <2>3, <3>1, LockFacts
  <2>5. <<old, o.key>> \in sec[o.i]
    <3>1. SeesValue(p, o.key, o.old)
      BY <1>0, <1>2, OwnRecord
    <3>2. Expected(o, o.key, o.old, o.i, old)
      BY <1>7, <2>1
    <3> QED BY <1>0, <1>1, <1>2, <2>1, <2>4, <3>1, <3>2, EntryExpected DEF Doomed
  <2>6. RemoveEntry(p, o.i, <<old, o.key>>) /\ NextIndex(p, "old", "put")
    BY <1>1, <1>9, <2>5 DEF RemoveOrBad
  <2>7. PICK o2 \in Operation :
               /\ op' = [op EXCEPT ![p] = o2]
               /\ SameRecord(p, o, o2) /\ o2.old = o.old
               /\ o2.at \in {"old", "put"}
               /\ \A s : \A i \in Index :
                    Expected(o2, o.key, o.old, i, s) <=>
                      IF i = o.i THEN s = new ELSE Expected(o, o.key, o.old, i, s)
    BY <1>6, <2>6
  <2>8. Moved(p) /\ op'[p] = o2
    BY <1>1, <2>3, <2>7, LockMoves
  <2>9. EntryChange(p, "removed", o.i, old, o.key)
    BY <1>1, <1>2, <2>1, <2>4, <2>5, <2>6 DEF EntryChange, RemoveEntry, Remember
  <2>10. ChangeExpected(p, o, o2, "removed", o.i, old)
    BY <1>5, <1>7, <2>1, <2>7 DEF ChangeExpected
  <2>11. Knows(p)'
    BY <1>1, <1>2, <2>7, <2>8
       DEF Knows, NewIsIn, Steps1, SameRecord, Moved, Writes, PrimaryPage
  <2> QED BY <1>0, <1>2, <2>7, <2>8, <2>9, <2>10, <2>11, EntryStep
<1> QED BY <1>8, <1>9

\* The record itself is set, or deleted, when the indexes are ready for it.
RecordChange(p, k0, v0) ==
    /\ primary' = [primary EXCEPT ![k0] = v0]
    /\ undo' = [undo EXCEPT ![p] = Append(@, [what |-> "set", key |-> k0, old |-> primary[k0]])]
    /\ UNCHANGED <<sec, held>>

LEMMA RecordStep ==
  ASSUME Inv, NEW p \in Proc, NEW o, NEW o2, o = op[p], o2 = op'[p], Moved(p),
         o.key \in Key, NEW v0 \in Value \cup {Absent}, RecordChange(p, o.key, v0),
         Writes(p, PrimaryPage(o.key)), o.at \in {"put", "erase"}, Fresh(o2),
         \A i \in Index, s \in SecKey :
            Expected(o, o.key, primary[o.key], i, s) <=> v0 # Absent /\ Extract[i][v0] = s,
         Knows(p)', Found(o2), o2.rc # "DB_SECONDARY_BAD"
  PROVE  Inv'
<1>0. PICK k0 \in Key : k0 = o.key
  OBVIOUS
<1>1. \A page : Writes(p, page)' <=> Writes(p, page)
  BY DEF RecordChange, Writes
<1>2. /\ Keeps(p)
      /\ \A i, e : /\ SeesIn(p, i, e)' => SeesIn(p, i, e)
                   /\ SeesOut(p, i, e)' => SeesOut(p, i, e)
                   /\ ChangedEntry(p, i, e)' <=> ChangedEntry(p, i, e)
      /\ \A k, v : /\ k # k0 /\ SeesValue(p, k, v)' => SeesValue(p, k, v)
                   /\ k = k0 /\ SeesValue(p, k, v)' => v = v0
                   /\ ChangedRecord(p, k)' => ChangedRecord(p, k) \/ k = k0
  <2>1. Writes(p, PrimaryPage(k0))'
    BY <1>0, <1>1
  <2> QED BY <1>0, <2>1, RecordKeeps DEF RecordChange
<1>3. Consistent(p)'
  <2>1. Consistent(p)
    BY DEF Inv, Doomed
  <2> SUFFICES ASSUME NEW k \in Key, NEW v \in Value \cup {Absent}, NEW i \in Index,
                      NEW s \in SecKey, SeesValue(p, k, v)'
               PROVE  /\ SeesIn(p, i, <<s, k>>)' => Expected(o2, k, v, i, s)
                      /\ SeesOut(p, i, <<s, k>>)' => ~Expected(o2, k, v, i, s)
    BY DEF Consistent
  <2>2. Expected(o2, k, v, i, s) <=> v # Absent /\ Extract[i][v] = s
    BY DEF Expected, Fresh
  <2>3. CASE k = k0
    <3>1. v = v0
      BY <1>2, <2>3
    <3>2. SeesValue(p, k0, primary[k0]) /\ primary[k0] \in Value \cup {Absent}
      BY <1>0, OwnRecord DEF Inv, Types
    <3>3. /\ SeesIn(p, i, <<s, k0>>) => Expected(o, k0, primary[k0], i, s)
          /\ SeesOut(p, i, <<s, k0>>) => ~Expected(o, k0, primary[k0], i, s)
      BY <2>1, <3>2 DEF Consistent
    <3> QED BY <1>0, <1>2, <2>2, <2>3, <3>1, <3>3
  <2>4. CASE k # k0
    <3>1. SeesValue(p, k, v)
      BY <1>2, <2>4
    <3>2. Expected(o, k, v, i, s) <=> v # Absent /\ Extract[i][v] = s
      BY <1>0, <2>4 DEF Expected
    <3> QED BY <1>2, <2>1, <2>2, <3>1, <3>2 DEF Consistent
  <2> QED BY <2>3, <2>4
<1>4. ChangesLocked(p)'
  <2>1. ChangesLocked(p)
    BY DEF Inv
  <2>2. \A k \in Key : ChangedRecord(p, k)' => Writes(p, PrimaryPage(k))'
    BY <1>0, <1>1, <1>2, <2>1 DEF ChangesLocked
  <2>3. \A i \in Index, s \in SecKey, k \in Key : ChangedEntry(p, i, <<s, k>>)' =>
          Writes(p, SecPage(i, s))' /\ Writes(p, PrimaryPage(k))'
    <3>1. ~Doomed(op[p])
      BY DEF Doomed
    <3> QED BY <1>1, <1>2, <2>1, <3>1 DEF ChangesLocked
  <2> QED BY <2>2, <2>3 DEF ChangesLocked
<1> QED BY <1>2, <1>3, <1>4, KeepsInv

LEMMA PutRecordStep ==
  ASSUME Inv, NEW p \in Proc, PutRecord(p)
  PROVE  Inv'
<1>0. PICK o : o = op[p]
  OBVIOUS
<1>1. o.at = "put" /\ op' = [op EXCEPT ![p] = Finished(p, "ok")] /\ RecordChange(p, o.key, o.val)
  BY <1>0 DEF PutRecord, SetPrimary, Finish, Remember, RecordChange
<1>2. /\ o \in Operation /\ o.key \in Key /\ o.val \in Value /\ Types /\ Exclusive
      /\ Writes(p, PrimaryPage(o.key))
  BY <1>0, <1>1, FieldFacts DEF Steps1, Inv, Knows
<1>3. PICK o2 \in Operation : /\ op' = [op EXCEPT ![p] = o2] /\ o2.at = "idle"
                              /\ o2.skey = DoNotIndex /\ o2.rc = "ok"
  BY <1>1, FinishedFacts
<1>4. Moved(p) /\ op'[p] = o2
  BY <1>1, <1>2, <1>3 DEF Moved, Types, RecordChange, Exclusive
<1>5. Fresh(o2) /\ Found(o2) /\ o2.rc # "DB_SECONDARY_BAD"
  BY <1>3 DEF Fresh, Found, HasOld, HasNew
<1>6. \A i \in Index, s \in SecKey :
        Expected(o, o.key, primary[o.key], i, s) <=> o.val # Absent /\ Extract[i][o.val] = s
  BY <1>1, <1>2, IndexAssumption DEF Expected, HasOld, HasNew
<1>7. Knows(p)'
  BY <1>3, <1>4 DEF Knows, NewIsIn, Steps1
<1> QED BY <1>0, <1>1, <1>2, <1>4, <1>5, <1>6, <1>7, RecordStep

LEMMA EraseRecordStep ==
  ASSUME Inv, NEW p \in Proc, EraseRecord(p)
  PROVE  Inv'
<1>0. PICK o : o = op[p]
  OBVIOUS
<1>1. /\ o.at = "erase" /\ RecordChange(p, o.key, Absent)
      /\ IF o.skey = DoNotIndex THEN op' = [op EXCEPT ![p] = Finished(p, "ok")]
         ELSE op' = [op EXCEPT ![p].at = "secdel", ![p].i = o.from]
  BY <1>0 DEF EraseRecord, SetPrimary, Finish, Remember, RecordChange
<1>2. /\ o \in Operation /\ o.key \in Key /\ o.from \in Index /\ Types /\ Exclusive
      /\ Writes(p, PrimaryPage(o.key)) /\ o.rc # "DB_SECONDARY_BAD"
      /\ o.skey # DoNotIndex => o.skey \in SecKey
  BY <1>0, <1>1, FieldFacts DEF Inv, Knows
<1>3. PICK o2 \in Operation : /\ op' = [op EXCEPT ![p] = o2] /\ o2.at \in {"idle", "secdel"}
                              /\ o2.at = "idle" => o2.skey = DoNotIndex
                              /\ o2.at = "secdel" => o2.skey \in SecKey
                              /\ o2.rc # "DB_SECONDARY_BAD"
  <2>1. CASE o.skey = DoNotIndex
    BY <1>1, <2>1, FinishedFacts
  <2>2. CASE o.skey # DoNotIndex
    <3>1. PICK o2 : o2 = [o EXCEPT !.at = "secdel", !.i = o.from]
      OBVIOUS
    <3>2. o2 \in Operation /\ o2.at = "secdel" /\ o2.skey = o.skey /\ o2.rc = o.rc
      BY <1>2, <3>1 DEF Operation
    <3>3. op' = [op EXCEPT ![p] = o2]
      BY <1>0, <1>1, <1>2, <2>2, <3>1 DEF Types
    <3> QED BY <1>2, <2>2, <3>2, <3>3
  <2> QED BY <2>1, <2>2
<1>4. Moved(p) /\ op'[p] = o2
  BY <1>1, <1>2, <1>3 DEF Moved, Types, RecordChange, Exclusive
<1>5. Fresh(o2) /\ Found(o2) /\ o2.rc # "DB_SECONDARY_BAD"
  BY <1>3 DEF Fresh, Found, HasOld, HasNew
<1>6. \A i \in Index, s \in SecKey :
        Expected(o, o.key, primary[o.key], i, s) <=> Absent # Absent /\ Extract[i][Absent] = s
  BY <1>1, <1>2 DEF Expected, HasOld, HasNew
<1>7. Knows(p)'
  BY <1>3, <1>4 DEF Knows, NewIsIn, Steps1
<1> QED BY <1>0, <1>1, <1>2, <1>4, <1>5, <1>6, <1>7, RecordStep

LEMMA DeleteEntryStep ==
  ASSUME Inv, NEW p \in Proc, DeleteEntry(p)
  PROVE  Inv'
<1>0. PICK o, old : o = op[p] /\ old = OldKey(p) /\ old = Extract[o.i][o.old]
  BY DEF OldKey
<1>1. /\ o.at = "del" /\ Lock(p) /\ primary' = primary
      /\ IF old = DoNotIndex THEN NextIndex(p, "del", "erase") /\ UNCHANGED <<sec, undo>>
         ELSE RemoveOrBad(p, o.i, <<old, o.key>>, "del", "erase")
  BY <1>0 DEF DeleteEntry
<1>2. /\ o \in Operation /\ o.key \in Key /\ o.i \in Index
      /\ o.old \in Value /\ o.old = primary[o.key] /\ Writes(p, PrimaryPage(o.key))
      /\ o.rc # "DB_SECONDARY_BAD" /\ Types
  BY <1>0, <1>1, FieldFacts DEF Inv, Knows
<1>3. old \in SecKey \cup {DoNotIndex}
  BY <1>0, <1>2, IndexAssumption
<1>5. \A v : SeesValue(p, o.key, v) => v = o.old
  BY <1>0, <1>2, OwnRecord
<1>6. ASSUME NextIndex(p, "del", "erase")
      PROVE  \E o2 \in Operation :
               /\ op' = [op EXCEPT ![p] = o2]
               /\ SameRecord(p, o, o2) /\ o2.old = o.old
               /\ o2.at \in {"del", "erase"}
               /\ \A s : \A i \in Index :
                    Expected(o2, o.key, o.old, i, s) <=>
                      i # o.i /\ Expected(o, o.key, o.old, i, s)
  <2>2. PICK o2 \in Operation :
          /\ op' = [op EXCEPT ![p] = o2]
          /\ o2.key = o.key /\ o2.val = o.val /\ o2.old = o.old /\ o2.rc = o.rc
          /\ \/ o2.at = "del" /\ o2.i = o.i + 1
             \/ o2.at = "erase" /\ o.i = Indexes /\ o2.i = 1
    BY <1>0, <1>6, NextIndexFacts
  <2>3. \A i \in Index : /\ ~HasNew(o, i) /\ ~HasNew(o2, i)
                         /\ HasOld(o, i) <=> i >= o.i
                         /\ HasOld(o2, i) <=> i > o.i
    BY <1>1, <1>2, <2>2, IndexAssumption DEF HasNew, HasOld, Index
  <2>4. \A s : \A i \in Index :
          Expected(o2, o.key, o.old, i, s) <=> i # o.i /\ Expected(o, o.key, o.old, i, s)
    <3>1. \A i \in Index : i = o.i \/ (HasOld(o, i) <=> HasOld(o2, i))
      BY <1>2, <2>3 DEF Index
    <3>2. ~HasOld(o2, o.i)
      BY <1>2, <2>3 DEF Index
    <3> QED BY <1>0, <1>2, <2>2, <2>3, <3>1, <3>2 DEF Expected
  <2>5. SameRecord(p, o, o2)
    BY <1>1, <1>2, <2>2 DEF SameRecord, Doomed
  <2> QED BY <2>2, <2>4, <2>5
<1>7. ASSUME NEW s \in SecKey
      PROVE  Expected(o, o.key, o.old, o.i, s) <=> s = old
  <2>1. ~HasNew(o, o.i) /\ HasOld(o, o.i)
    BY <1>1, <1>2 DEF HasNew, HasOld, Index
  <2> QED BY <1>0, <1>2, <2>1, IndexAssumption DEF Expected
<1>8. CASE old = DoNotIndex
  <2>1. NextIndex(p, "del", "erase") /\ UNCHANGED <<primary, sec, undo>>
    BY <1>1, <1>8
  <2>2. PICK o2 \in Operation :
               /\ op' = [op EXCEPT ![p] = o2]
               /\ SameRecord(p, o, o2) /\ o2.old = o.old
               /\ o2.at \in {"del", "erase"}
               /\ \A s : \A i \in Index :
                    Expected(o2, o.key, o.old, i, s) <=>
                      i # o.i /\ Expected(o, o.key, o.old, i, s)
    BY <1>6, <2>1
  <2>3. Need(p) = {}
    BY <1>0, <1>1, <1>8, NeedFacts
  <2>4. Moved(p) /\ op'[p] = o2
    BY <1>1, <2>2, <2>3, LockMoves
  <2>5. \A v \in Value \cup {Absent}, i \in Index, s \in SecKey : SeesValue(p, o.key, v) =>
          (Expected(o2, o.key, v, i, s) <=> Expected(o, o.key, v, i, s))
    <3>1. \A i \in Index, s \in SecKey :
            Expected(o2, o.key, o.old, i, s) <=> Expected(o, o.key, o.old, i, s)
      BY <1>7, <1>8, <2>2, IndexAssumption
    <3> QED BY <1>5, <3>1
  <2>6. Knows(p)'
    BY <1>1, <1>2, <2>1, <2>2, <2>4
       DEF Knows, NewIsIn, Steps1, SameRecord, Moved, Writes, PrimaryPage
  <2> QED BY <1>0, <2>1, <2>2, <2>4, <2>5, <2>6, QuietStep
<1>9. CASE old # DoNotIndex
  <2>1. old \in SecKey
    BY <1>3, <1>9
  <2>2. Need(p) = {<<"w", SecPage(o.i, old)>>}
    BY <1>0, <1>1, <1>9, NeedFacts
  <2>3. Need(p) \subseteq {"r", "w"} \X (({0} \cup Index) \X (Key \cup SecKey))
    BY <1>2, <2>1, <2>2 DEF SecPage
  <2>4. /\ Writes(p, SecPage(o.i, old))'
        /\ \A q \in Proc \ {p} : ~Writes(q, SecPage(o.i, old))
    <3>1. <<"w", SecPage(o.i, old)>> \in Need(p) /\ <<"w", SecPage(o.i, old)>>[2] = SecPage(o.i, old)
      BY <2>2
    <3> QED BY <1>1, <2>3, <3>1, LockFacts
  <2>5. <<old, o.key>> \in sec[o.i]
    <3>1. SeesValue(p, o.key, o.old)
      BY <1>0, <1>2, OwnRecord
    <3>2. Expected(o, o.key, o.old, o.i, old)
      BY <1>7, <2>1
    <3> QED BY <1>0, <1>1, <1>2, <2>1, <2>4, <3>1, <3>2, EntryExpected DEF Doomed
  <2>6. RemoveEntry(p, o.i, <<old, o.key>>) /\ NextIndex(p, "del", "erase")
    BY <1>1, <1>9, <2>5 DEF RemoveOrBad
  <2>7. PICK o2 \in Operation :
               /\ op' = [op EXCEPT ![p] = o2]
               /\ SameRecord(p, o, o2) /\ o2.old = o.old
               /\ o2.at \in {"del", "erase"}
               /\ \A s : \A i \in Index :
                    Expected(o2, o.key, o.old, i, s) <=>
                      i # o.i /\ Expected(o, o.key, o.old, i, s)
    BY <1>6, <2>6
  <2>8. Moved(p) /\ op'[p] = o2
    BY <1>1, <2>3, <2>7, LockMoves
  <2>9. EntryChange(p, "removed", o.i, old, o.key)
    BY <1>1, <1>2, <2>1, <2>4, <2>5, <2>6 DEF EntryChange, RemoveEntry, Remember
  <2>10. ChangeExpected(p, o, o2, "removed", o.i, old)
    BY <1>5, <1>7, <2>1, <2>7 DEF ChangeExpected
  <2>11. Knows(p)'
    BY <1>1, <1>2, <2>7, <2>8
       DEF Knows, NewIsIn, Steps1, SameRecord, Moved, Writes, PrimaryPage
  <2> QED BY <1>0, <1>2, <2>7, <2>8, <2>9, <2>10, <2>11, EntryStep
<1> QED BY <1>8, <1>9

\* An iterator's put is done with an index.
LEMMA CurrentNext ==
  ASSUME Inv, NEW p \in Proc, NEW o, NEW new, o = op[p], new = Extract[o.i][o.val],
         o.at \in {"cur", "curput"}, NextIndex(p, "cur", "put")
  PROVE  \E o2 \in Operation :
           /\ op' = [op EXCEPT ![p] = o2]
           /\ SameRecord(p, o, o2) /\ o2.old = o.old
           /\ o2.at \in {"cur", "put"}
           /\ \A s : \A i \in Index :
                Expected(o2, o.key, o.old, i, s) <=>
                  IF i = o.i THEN s = new ELSE Expected(o, o.key, o.old, i, s)
<1>1. /\ o \in Operation /\ o.key \in Key /\ o.i \in Index
      /\ Writes(p, PrimaryPage(o.key)) /\ o.rc # "DB_SECONDARY_BAD"
  BY FieldFacts DEF Steps1, Inv, Knows
<1>2. "cur" \in Steps1 /\ "put" \in Steps1
  BY DEF Steps1
<1>3. PICK o2 \in Operation :
        /\ op' = [op EXCEPT ![p] = o2]
        /\ o2.key = o.key /\ o2.val = o.val /\ o2.old = o.old /\ o2.rc = o.rc
        /\ \/ o2.at = "cur" /\ o2.i = o.i + 1
           \/ o2.at = "put" /\ o.i = Indexes /\ o2.i = 1
  BY <1>2, NextIndexFacts
<1>4. \A i \in Index : /\ HasNew(o, i) <=> i < o.i
                       /\ HasNew(o2, i) <=> i < o.i \/ i = o.i
                       /\ i # o.i => (HasOld(o, i) <=> HasOld(o2, i))
                       /\ ~HasOld(o2, o.i)
  BY <1>1, <1>3, IndexAssumption DEF HasNew, HasOld, Index
<1>5. \A s : \A i \in Index :
        Expected(o2, o.key, o.old, i, s) <=>
          IF i = o.i THEN s = new ELSE Expected(o, o.key, o.old, i, s)
  <2>1. \A i \in Index : i # o.i => (HasNew(o, i) <=> HasNew(o2, i))
    BY <1>4
  <2>2. HasNew(o2, o.i)
    BY <1>1, <1>4
  <2> QED BY <1>1, <1>3, <1>4, <2>1, <2>2 DEF Expected
<1>6. SameRecord(p, o, o2)
  BY <1>1, <1>3 DEF SameRecord, Doomed
<1> QED BY <1>3, <1>5, <1>6

\* Unless it leaves a stale entry behind.
LEMMA DeleteCurrentEntryStep ==
  ASSUME Inv, NEW p \in Proc, DeleteCurrentEntry(p),
         ~(NewKey(p) = DoNotIndex /\ OldKey(p) # DoNotIndex)
  PROVE  Inv'
<1>0. PICK o, new, old : /\ o = op[p]
                         /\ new = NewKey(p) /\ new = Extract[o.i][o.val]
                         /\ old = OldKey(p) /\ old = Extract[o.i][o.old]
  BY DEF NewKey, OldKey
<1>1. o.at = "cur" /\ Lock(p) /\ primary' = primary
  BY <1>0 DEF DeleteCurrentEntry
<1>2. /\ o \in Operation /\ o.key \in Key /\ o.val \in Value /\ o.i \in Index
      /\ o.old \in Value /\ o.old = primary[o.key] /\ Writes(p, PrimaryPage(o.key))
      /\ o.rc # "DB_SECONDARY_BAD" /\ Types
      /\ new = DoNotIndex => old = DoNotIndex
  BY <1>0, <1>1, FieldFacts DEF Steps1, Inv, Knows
<1>3. old \in SecKey \cup {DoNotIndex}
  BY <1>0, <1>2, IndexAssumption
<1>4. Replaces(p, TRUE) <=> old \notin {DoNotIndex, new}
  BY <1>0, <1>2 DEF Replaces
<1>5. \A v : SeesValue(p, o.key, v) => v = o.old
  BY <1>0, <1>2, OwnRecord
<1>7. ASSUME NEW s \in SecKey
      PROVE  Expected(o, o.key, o.old, o.i, s) <=> s = old
  <2>1. ~HasNew(o, o.i) /\ HasOld(o, o.i)
    BY <1>1, <1>2 DEF HasNew, HasOld, Index
  <2> QED BY <1>0, <1>2, <2>1, IndexAssumption DEF Expected
<1>8. CASE new = old
  <2>1. NextIndex(p, "cur", "put") /\ UNCHANGED <<primary, sec, undo>>
    <3>1. NewKey(p) \in {DoNotIndex, OldKey(p)}
      BY <1>0, <1>8
    <3>2. ~Replaces(p, TRUE)
      BY <1>4, <1>8
    <3>3. NextIndex(p, "cur", "put") /\ UNCHANGED <<sec, undo>>
      BY <3>1, <3>2 DEF DeleteCurrentEntry
    <3> QED BY <1>1, <3>3
  <2>2. PICK o2 \in Operation :
               /\ op' = [op EXCEPT ![p] = o2]
               /\ SameRecord(p, o, o2) /\ o2.old = o.old
               /\ o2.at \in {"cur", "put"}
               /\ \A s : \A i \in Index :
                    Expected(o2, o.key, o.old, i, s) <=>
                      IF i = o.i THEN s = new ELSE Expected(o, o.key, o.old, i, s)
    BY <1>0, <1>1, <2>1, CurrentNext
  <2>3. Need(p) = {}
    BY <1>0, <1>1, <1>4, <1>8, NeedFacts
  <2>4. Moved(p) /\ op'[p] = o2
    BY <1>1, <2>2, <2>3, LockMoves
  <2>5. \A v \in Value \cup {Absent}, i \in Index, s \in SecKey : SeesValue(p, o.key, v) =>
          (Expected(o2, o.key, v, i, s) <=> Expected(o, o.key, v, i, s))
    <3>1. \A i \in Index, s \in SecKey :
            Expected(o2, o.key, o.old, i, s) <=> Expected(o, o.key, o.old, i, s)
      BY <1>7, <1>8, <2>2
    <3> QED BY <1>5, <3>1
  <2>6. Knows(p)'
    BY <1>1, <1>2, <2>1, <2>2, <2>4
       DEF Knows, NewIsIn, Steps1, SameRecord, Moved, Writes, PrimaryPage
  <2> QED BY <1>0, <2>1, <2>2, <2>4, <2>5, <2>6, QuietStep
<1>9. CASE new # old
  <2>0. Extract[o.i][o.val] # DoNotIndex
    BY <1>0, <1>2, <1>9
  <2>1. \/ /\ op' = [op EXCEPT ![p].at = "curput"]
           /\ IF Replaces(p, TRUE) THEN RemoveEntry(p, o.i, <<old, o.key>>)
                                   ELSE UNCHANGED <<sec, undo>>
        \/ Replaces(p, TRUE) /\ <<old, o.key>> \notin sec[o.i]
    <3>1. NewKey(p) \notin {DoNotIndex, OldKey(p)}
      BY <1>0, <1>2, <1>9
    <3>2. CASE Replaces(p, TRUE)
      BY <1>0, <3>1, <3>2 DEF DeleteCurrentEntry, Goto
    <3>3. CASE ~Replaces(p, TRUE)
      BY <1>0, <3>1, <3>3 DEF DeleteCurrentEntry, Goto
    <3> QED BY <3>2, <3>3
  <2>2. PICK o2 : o2 = [o EXCEPT !.at = "curput"]
    OBVIOUS
  <2>3. /\ o2 \in Operation /\ o2.at = "curput" /\ o2.i = o.i /\ o2.key = o.key
        /\ o2.val = o.val /\ o2.old = o.old /\ o2.rc = o.rc
    BY <1>2, <2>2 DEF Operation, Steps1
  <2>4. SameRecord(p, o, o2)
    BY <1>1, <1>2, <2>3 DEF SameRecord, Doomed
  <2>5. \A i \in Index, s \in SecKey : Expected(o2, o.key, o.old, i, s) <=>
          i # o.i /\ Expected(o, o.key, o.old, i, s)
    <3>1. \A i \in Index : /\ HasNew(o, i) <=> i < o.i
                           /\ HasNew(o2, i) <=> i < o.i
                           /\ i # o.i => (HasOld(o, i) <=> HasOld(o2, i))
                           /\ ~HasOld(o2, o.i)
      BY <1>1, <1>2, <2>3, IndexAssumption DEF HasNew, HasOld, Index
    <3>2. ~HasNew(o2, o.i) /\ \A i \in Index : HasNew(o, i) <=> HasNew(o2, i)
      BY <1>2, <3>1 DEF Index
    <3> QED BY <2>3, <3>1, <3>2 DEF Expected
  <2>6. CASE ~Replaces(p, TRUE)
    <3>1. op' = [op EXCEPT ![p].at = "curput"] /\ UNCHANGED <<primary, sec, undo>>
      BY <1>1, <2>1, <2>6
    <3>2. op' = [op EXCEPT ![p] = o2]
      BY <1>0, <1>2, <2>2, <3>1 DEF Types
    <3>3. Need(p) = {}
      BY <1>0, <1>1, <2>6, NeedFacts
    <3>4. Moved(p) /\ op'[p] = o2
      BY <1>1, <2>3, <3>2, <3>3, LockMoves
    <3>5. \A v \in Value \cup {Absent}, i \in Index, s \in SecKey : SeesValue(p, o.key, v) =>
            (Expected(o2, o.key, v, i, s) <=> Expected(o, o.key, v, i, s))
      <4>1. old = DoNotIndex
        BY <1>4, <1>9, <2>6
      <4>2. \A i \in Index, s \in SecKey :
              Expected(o2, o.key, o.old, i, s) <=> Expected(o, o.key, o.old, i, s)
        BY <1>7, <2>5, <4>1, IndexAssumption
      <4> QED BY <1>5, <4>2
    <3>6. Knows(p)'
      BY <1>1, <1>2, <2>0, <2>3, <3>1, <3>4 DEF Knows, NewIsIn, Steps1, Moved, Writes, PrimaryPage
    <3> QED BY <1>0, <2>4, <3>1, <3>4, <3>5, <3>6, QuietStep
  <2>7. CASE Replaces(p, TRUE)
    <3>1. old \in SecKey
      BY <1>3, <1>4, <2>7
    <3>2. Need(p) = {<<"w", SecPage(o.i, old)>>}
      BY <1>0, <1>1, <2>7, NeedFacts
    <3>3. Need(p) \subseteq {"r", "w"} \X (({0} \cup Index) \X (Key \cup SecKey))
      BY <1>2, <3>1, <3>2 DEF SecPage
    <3>4. /\ Writes(p, SecPage(o.i, old))'
          /\ \A q \in Proc \ {p} : ~Writes(q, SecPage(o.i, old))
      <4>1. <<"w", SecPage(o.i, old)>> \in Need(p) /\ <<"w", SecPage(o.i, old)>>[2] = SecPage(o.i, old)
        BY <3>2
      <4> QED BY <1>1, <3>3, <4>1, LockFacts
    <3>5. <<old, o.key>> \in sec[o.i]
      <4>1. SeesValue(p, o.key, o.old)
        BY <1>0, <1>2, OwnRecord
      <4>2. Expected(o, o.key, o.old, o.i, old)
        BY <1>7, <3>1
      <4> QED BY <1>0, <1>1, <1>2, <3>1, <3>4, <4>1, <4>2, EntryExpected DEF Doomed
    <3>6. op' = [op EXCEPT ![p].at = "curput"] /\ RemoveEntry(p, o.i, <<old, o.key>>)
      BY <2>1, <2>7, <3>5
    <3>7. op' = [op EXCEPT ![p] = o2]
      BY <1>0, <1>2, <2>2, <3>6 DEF Types
    <3>8. Moved(p) /\ op'[p] = o2
      BY <1>1, <2>3, <3>3, <3>7, LockMoves
    <3>9. EntryChange(p, "removed", o.i, old, o.key)
      BY <1>1, <1>2, <3>1, <3>4, <3>5, <3>6 DEF EntryChange, RemoveEntry, Remember
    <3>10. ChangeExpected(p, o, o2, "removed", o.i, old)
      BY <1>5, <1>7, <2>5 DEF ChangeExpected
    <3>11. Knows(p)'
      BY <1>1, <1>2, <2>0, <2>3, <3>8 DEF Knows, NewIsIn, Steps1, Moved, Writes, PrimaryPage
    <3> QED BY <1>0, <1>2, <2>4, <3>8, <3>9, <3>10, <3>11, EntryStep
  <2> QED BY <2>6, <2>7
<1> QED BY <1>8, <1>9

LEMMA PutCurrentEntryStep ==
  ASSUME Inv, NEW p \in Proc, PutCurrentEntry(p)
  PROVE  Inv'
<1>0. PICK o, new : o = op[p] /\ new = NewKey(p) /\ new = Extract[o.i][o.val]
  BY DEF NewKey
<1>1. /\ o.at = "curput" /\ Lock(p) /\ primary' = primary
      /\ NextIndex(p, "cur", "put") /\ AddEntry(p, o.i, <<new, o.key>>)
  BY <1>0 DEF PutCurrentEntry
<1>2. /\ o \in Operation /\ o.key \in Key /\ o.val \in Value /\ o.i \in Index
      /\ o.old \in Value /\ o.old = primary[o.key] /\ Writes(p, PrimaryPage(o.key))
      /\ o.rc # "DB_SECONDARY_BAD" /\ Types /\ new # DoNotIndex
  BY <1>0, <1>1, FieldFacts DEF Steps1, Inv, Knows
<1>3. new \in SecKey
  BY <1>0, <1>2, IndexAssumption
<1>5. \A v : SeesValue(p, o.key, v) => v = o.old
  BY <1>0, <1>2, OwnRecord
<1>6. PICK o2 \in Operation :
        /\ op' = [op EXCEPT ![p] = o2]
        /\ SameRecord(p, o, o2) /\ o2.old = o.old
        /\ o2.at \in {"cur", "put"}
        /\ \A s : \A i \in Index :
             Expected(o2, o.key, o.old, i, s) <=>
               IF i = o.i THEN s = new ELSE Expected(o, o.key, o.old, i, s)
  BY <1>0, <1>1, CurrentNext
<1>7. \A s : ~Expected(o, o.key, o.old, o.i, s)
  <2>1. ~HasNew(o, o.i) /\ ~HasOld(o, o.i)
    BY <1>1, <1>2 DEF HasNew, HasOld, Index
  <2> QED BY <2>1 DEF Expected
<1>8. Need(p) = {<<"w", SecPage(o.i, new)>>}
  BY <1>0, <1>1, <1>2, NeedFacts
<1>9. Need(p) \subseteq {"r", "w"} \X (({0} \cup Index) \X (Key \cup SecKey))
  BY <1>2, <1>3, <1>8 DEF SecPage
<1>10. /\ Writes(p, SecPage(o.i, new))'
       /\ \A q \in Proc \ {p} : ~Writes(q, SecPage(o.i, new))
  <2>1. <<"w", SecPage(o.i, new)>> \in Need(p) /\ <<"w", SecPage(o.i, new)>>[2] = SecPage(o.i, new)
    BY <1>8
  <2> QED BY <1>1, <1>9, <2>1, LockFacts
<1>11. <<new, o.key>> \notin sec[o.i]
  <2>1. SeesValue(p, o.key, o.old)
    BY <1>0, <1>2, OwnRecord
  <2> QED BY <1>0, <1>1, <1>2, <1>3, <1>7, <1>10, <2>1, EntryExpected DEF Doomed
<1>12. Moved(p) /\ op'[p] = o2
  BY <1>1, <1>6, <1>9, LockMoves
<1>13. EntryChange(p, "added", o.i, new, o.key)
  BY <1>1, <1>2, <1>3, <1>10, <1>11 DEF EntryChange, AddEntry, Remember
<1>14. ChangeExpected(p, o, o2, "added", o.i, new)
  BY <1>5, <1>6, <1>7 DEF ChangeExpected
<1>15. Knows(p)'
  BY <1>1, <1>2, <1>6, <1>12
     DEF Knows, NewIsIn, Steps1, SameRecord, Moved, Writes, PrimaryPage
<1> QED BY <1>0, <1>2, <1>6, <1>12, <1>13, <1>14, <1>15, EntryStep

-----------------------------------------------------------------------------
(* The end of a transaction. *)

LEMMA TurnBackStep ==
  ASSUME Inv, NEW p \in Proc, TurnBack(p)
  PROVE  Inv'
<1>1. PICK o2 : o2 = [Idle EXCEPT !.at = "undo"]
  OBVIOUS
<1>2. o2 \in Operation /\ o2.at = "undo" /\ o2.rc = "none"
  BY <1>1, IdleTyped DEF Operation
<1>3. op' = [op EXCEPT ![p] = o2] /\ UNCHANGED <<primary, sec, held, undo>>
  BY <1>1 DEF TurnBack
<1>4. Moved(p) /\ op'[p] = o2
  BY <1>2, <1>3 DEF Moved, Inv, Types, Exclusive
<1>5. /\ Keeps(p)
      /\ \A i, e : ChangedEntry(p, i, e)' <=> ChangedEntry(p, i, e)
      /\ \A k : ChangedRecord(p, k)' <=> ChangedRecord(p, k)
  BY <1>3, <1>4, QuietKeeps
<1>6. ChangesLocked(p)'
  BY <1>2, <1>3, <1>4, <1>5 DEF ChangesLocked, Inv, Writes, Doomed
<1>7. Knows(p)' /\ Found(op'[p]) /\ op'[p].rc # "DB_SECONDARY_BAD"
  BY <1>2, <1>4 DEF Knows, NewIsIn, Steps1, Found
<1> QED BY <1>2, <1>4, <1>5, <1>6, <1>7, KeepsInv DEF Doomed

\* An operation that has run out of time leaves everything as it is.
LEMMA TimesOutStep ==
  ASSUME Inv, NEW p \in Proc, TimesOut(p)
  PROVE  Inv'
<1>1. PICK rc \in {"timed_out", "half_done"} :
        /\ rc = "timed_out" => Whole(op[p])
        /\ op' = [op EXCEPT ![p] = Finished(p, rc)]
        /\ UNCHANGED <<primary, sec, held, undo>>
  BY DEF TimesOut, Finish
<1>2. PICK o2 \in Operation : o2 = Finished(p, rc) /\ o2.at = "idle" /\ o2.rc = rc
  BY FinishedFacts
<1>3. Moved(p) /\ op'[p] = o2
  BY <1>1, <1>2 DEF Moved, Inv, Types, Exclusive
<1>4. Knows(p)' /\ Found(op'[p]) /\ op'[p].rc # "DB_SECONDARY_BAD"
  BY <1>2, <1>3 DEF Knows, NewIsIn, Steps1, Found
<1>5. CASE rc = "timed_out"
  <2>1. ~Doomed(op[p]) /\ Fresh(op[p])
    <3>1. op[p].i \in Index
      BY FieldFacts
    <3>2. Whole(op[p])
      BY <1>1, <1>5
    <3> QED BY <3>1, <3>2, IndexAssumption DEF Whole, Doomed, Fresh, HasOld, HasNew, Index
  <2>2. Fresh(op'[p])
    BY <1>2, <1>3 DEF Fresh, HasOld, HasNew
  <2> QED BY <1>1, <1>3, <1>4, <2>1, <2>2, FreshStep
<1>6. CASE rc = "half_done"
  <2>1. /\ Keeps(p)
        /\ \A i, e : ChangedEntry(p, i, e)' <=> ChangedEntry(p, i, e)
        /\ \A k : ChangedRecord(p, k)' <=> ChangedRecord(p, k)
    BY <1>1, <1>3, QuietKeeps
  <2>2. Doomed(op'[p])
    BY <1>2, <1>3, <1>6 DEF Doomed
  <2>3. ChangesLocked(p)'
    BY <1>1, <2>1, <2>2 DEF ChangesLocked, Inv, Writes
  <2> QED BY <1>3, <1>4, <2>1, <2>2, <2>3, KeepsInv
<1> QED BY <1>5, <1>6

LEMMA UndoOneStep ==
  ASSUME Inv, NEW p \in Proc, UndoOne(p)
  PROVE  Inv'
<1>1. Keeps(p) /\ op[p].at = "undo" /\ op' = op /\ held' = held
  BY UndoKeeps DEF UndoOne
<1>2. /\ \A i, e : ChangedEntry(p, i, e)' => ChangedEntry(p, i, e)
      /\ \A k : ChangedRecord(p, k)' => ChangedRecord(p, k)
  <2>1. /\ undo[p] # <<>> /\ undo' = [undo EXCEPT ![p] = Front(@)]
        /\ \E c : c = Last(undo[p])
    BY DEF UndoOne
  <2> QED BY <2>1, PopFacts DEF Inv
<1>3. ChangesLocked(p)'
  BY <1>1, <1>2 DEF ChangesLocked, Inv, Writes
<1>4. Knows(p)' /\ Found(op'[p]) /\ op'[p].rc # "DB_SECONDARY_BAD"
  BY <1>1 DEF Knows, NewIsIn, Steps1, Found, Inv
<1> QED BY <1>1, <1>3, <1>4, KeepsInv DEF Doomed

\* A transaction is done: what it sees is what is committed, and its locks are
\* free.  An aborted one has nothing left to undo.
LEMMA CloseStep ==
  ASSUME Inv, NEW p \in Proc, Close(p), UNCHANGED <<primary, sec>>,
         (op[p].at = "idle" /\ ~Doomed(op[p])) \/ (op[p].at = "undo" /\ undo[p] = <<>>)
  PROVE  Inv'
<1>1. /\ Types /\ Exclusive /\ CommittedConsistent
      /\ \A q \in Proc : /\ ChangesLocked(q) /\ Knows(q) /\ Found(op[q])
                         /\ ~Doomed(op[q]) => Consistent(q)
                         /\ op[q].rc # "DB_SECONDARY_BAD"
  BY DEF Inv
<1>2. /\ op' = [op EXCEPT ![p] = Idle] /\ undo' = [undo EXCEPT ![p] = <<>>]
      /\ held' = {l \in held : l[1] # p}
  BY DEF Close, Release
<1>3. Idle \in Operation /\ Idle.at = "idle" /\ Idle.rc = "none"
  BY IdleTyped
<1>4. /\ op'[p] = Idle /\ undo'[p] = <<>>
      /\ \A q \in Proc : q # p => op'[q] = op[q] /\ undo'[q] = undo[q]
  BY <1>1, <1>2 DEF Types
<1>5. Types'
  <2>1. <<>> \in Seq(Change)
    BY EmptySeq
  <2> QED BY <1>1, <1>2, <1>3, <2>1 DEF Types
<1>6. Exclusive'
  BY <1>1, <1>2 DEF Exclusive
<1>7. \A q \in Proc : q # p => \A page : /\ Writes(q, page)' <=> Writes(q, page)
                                         /\ Reads(q, page)' <=> Reads(q, page)
  <2>1. \A q \in Proc : q # p => \A page, mode :
          <<q, mode, page>> \in held' <=> <<q, mode, page>> \in held
    BY <1>2
  <2> QED BY <2>1 DEF Writes, Reads
<1>8. /\ \A q \in Proc : q # p => \A i, e : ChangedEntry(q, i, e)' <=> ChangedEntry(q, i, e)
      /\ \A q \in Proc : q # p => \A k : ChangedRecord(q, k)' <=> ChangedRecord(q, k)
      /\ \A i, e : ~ChangedEntry(p, i, e)'
      /\ \A k : ~ChangedRecord(p, k)'
  <2>1. \A n \in DOMAIN undo'[p] : FALSE
    BY <1>4
  <2> QED BY <1>4, <2>1 DEF ChangedEntry, ChangedRecord
<1>9. /\ \A q \in Proc : \A n, i, e : FirstOfEntry(q, n, i, e)' =>
           q # p /\ FirstOfEntry(q, n, i, e) /\ undo'[q][n] = undo[q][n]
      /\ \A q \in Proc : \A n, k : FirstOfRecord(q, n, k)' =>
           q # p /\ FirstOfRecord(q, n, k) /\ undo'[q][n] = undo[q][n]
  <2>1. \A n \in DOMAIN undo'[p] : FALSE
    BY <1>4
  <2> QED BY <1>4, <2>1 DEF FirstOfEntry, FirstOfRecord
<1>10. /\ \A q \in Proc : \A n, i, e : FirstOfEntry(q, n, i, e) =>
            ChangedEntry(q, i, e) /\ n \in DOMAIN undo[q]
       /\ \A q \in Proc : \A n, k : FirstOfRecord(q, n, k) =>
            ChangedRecord(q, k) /\ n \in DOMAIN undo[q]
  BY DEF FirstOfEntry, FirstOfRecord, ChangedEntry, ChangedRecord
<1>11. \A q \in Proc \ {p} :
         /\ \A i \in Index, s \in SecKey, k \in Key :
              ChangedEntry(q, i, <<s, k>>) => ~ChangedEntry(p, i, <<s, k>>)
         /\ \A k \in Key : ChangedRecord(q, k) => ~ChangedRecord(p, k)
  <2> TAKE q \in Proc \ {p}
  <2>1. \A page : Writes(q, page) => ~Writes(p, page)
    BY <1>1, OneWriter DEF Reads
  <2> QED BY <1>1, <2>1 DEF ChangesLocked
<1>12. /\ \A i \in Index, s \in SecKey, k \in Key :
            /\ WasIn(i, <<s, k>>)' => SeesIn(p, i, <<s, k>>)
            /\ WasOut(i, <<s, k>>)' => SeesOut(p, i, <<s, k>>)
       /\ \A k \in Key : \A v : WasValue(k, v)' => SeesValue(p, k, v)
  <2>1. ASSUME NEW i \in Index, NEW s \in SecKey, NEW k \in Key
        PROVE  /\ WasIn(i, <<s, k>>)' => SeesIn(p, i, <<s, k>>)
               /\ WasOut(i, <<s, k>>)' => SeesOut(p, i, <<s, k>>)
    <3>1. CASE \E q \in Proc \ {p} : ChangedEntry(q, i, <<s, k>>)
      <4>1. ~ChangedEntry(p, i, <<s, k>>)
        BY <1>11, <3>1
      <4>2. \E q \in Proc : ChangedEntry(q, i, <<s, k>>)'
        BY <1>8, <3>1
      <4> QED BY <1>9, <1>10, <4>1, <4>2 DEF WasIn, WasOut, SeesIn, SeesOut
    <3>2. CASE ~\E q \in Proc \ {p} : ChangedEntry(q, i, <<s, k>>)
      <4>1. \A q \in Proc : \A n : ~FirstOfEntry(q, n, i, <<s, k>>)'
        BY <1>9, <1>10, <3>2
      <4> QED BY <3>2, <4>1 DEF WasIn, WasOut, SeesIn, SeesOut
    <3> QED BY <3>1, <3>2
  <2>2. ASSUME NEW k \in Key, NEW v, WasValue(k, v)'
        PROVE  SeesValue(p, k, v)
    <3>1. CASE \E q \in Proc \ {p} : ChangedRecord(q, k)
      <4>1. ~ChangedRecord(p, k)
        BY <1>11, <3>1
      <4>2. \E q \in Proc : ChangedRecord(q, k)'
        BY <1>8, <3>1
      <4> QED BY <1>9, <1>10, <2>2, <4>1, <4>2 DEF WasValue, SeesValue
    <3>2. CASE ~\E q \in Proc \ {p} : ChangedRecord(q, k)
      <4>1. \A q \in Proc : \A n : ~FirstOfRecord(q, n, k)'
        BY <1>9, <1>10, <3>2
      <4> QED BY <2>2, <3>2, <4>1 DEF WasValue, SeesValue
    <3> QED BY <3>1, <3>2
  <2> QED BY <2>1, <2>2
\* What p has changed of a record, it has the record locked for.
<1>13. /\ \A i \in Index, s \in SecKey, k \in Key :
            ChangedEntry(p, i, <<s, k>>) => Writes(p, PrimaryPage(k))
       /\ \A k \in Key : ChangedRecord(p, k) => Writes(p, PrimaryPage(k))
  <2>1. CASE op[p].at = "idle"
    BY <1>1, <2>1 DEF ChangesLocked
  <2>2. CASE undo[p] = <<>>
    BY <2>2 DEF ChangedEntry, ChangedRecord
  <2> QED BY <2>1, <2>2
<1>14. CommittedConsistent'
  <2> SUFFICES ASSUME NEW k \in Key, NEW v \in Value \cup {Absent}, NEW i \in Index,
                      NEW s \in SecKey, WasValue(k, v)'
               PROVE  /\ WasIn(i, <<s, k>>)' => v # Absent /\ Extract[i][v] = s
                      /\ WasOut(i, <<s, k>>)' => ~(v # Absent /\ Extract[i][v] = s)
    BY DEF CommittedConsistent
  <2>1. /\ WasIn(i, <<s, k>>)' => SeesIn(p, i, <<s, k>>)
        /\ WasOut(i, <<s, k>>)' => SeesOut(p, i, <<s, k>>)
        /\ SeesValue(p, k, v)
    BY <1>12
  <2>2. CASE op[p].at = "idle"
    <3>1. Consistent(p) /\ Fresh(op[p])
      BY <1>1, <2>2 DEF Fresh, HasOld, HasNew
    <3> QED BY <2>1, <3>1 DEF Consistent, Expected, Fresh
  <2>3. CASE undo[p] = <<>>
    <3>1. ~ChangedEntry(p, i, <<s, k>>) /\ ~ChangedRecord(p, k)
      BY <2>3 DEF ChangedEntry, ChangedRecord
    <3> QED BY <1>1, <2>1, <3>1 DEF CommittedConsistent, SeesIn, SeesOut, SeesValue
  <2> QED BY <2>2, <2>3
<1>15. /\ ChangesLocked(p)' /\ Consistent(p)' /\ Knows(p)' /\ Found(op'[p])
       /\ op'[p].rc # "DB_SECONDARY_BAD"
  <2>1. ChangesLocked(p)'
    BY <1>8 DEF ChangesLocked
  <2>2. Consistent(p)'
    <3>1. Fresh(op'[p])
      BY <1>3, <1>4 DEF Fresh, HasOld, HasNew
    <3> QED BY <1>8, <1>14, <3>1
            DEF Consistent, CommittedConsistent, SeesIn, SeesOut, SeesValue, Expected, Fresh
  <2>3. Knows(p)' /\ Found(op'[p]) /\ op'[p].rc # "DB_SECONDARY_BAD"
    BY <1>3, <1>4 DEF Knows, NewIsIn, Found, Steps1
  <2> QED BY <2>1, <2>2, <2>3
<1>16. ASSUME NEW q \in Proc, q # p
       PROVE  /\ ChangesLocked(q)'
              /\ (~Doomed(op[q]) => Consistent(q))'
              /\ Knows(q)' /\ Found(op'[q]) /\ op'[q].rc # "DB_SECONDARY_BAD"
  <2>1. ChangesLocked(q)'
    BY <1>1, <1>4, <1>7, <1>8, <1>16 DEF ChangesLocked
  <2>2. Knows(q)'
    <3>1. \A page : /\ Writes(q, page)' <=> Writes(q, page)
                    /\ Reads(q, page)' <=> Reads(q, page)
      BY <1>7, <1>16
    <3>2. op'[q] = op[q] /\ Knows(q)
      BY <1>1, <1>4, <1>16
    <3>3. NewIsIn(q)'
      BY <3>1, <3>2 DEF Knows, NewIsIn, SecPage
    <3> QED BY <3>1, <3>2, <3>3 DEF Knows, SecPage, PrimaryPage
  <2>3. ASSUME ~Doomed(op[q]) PROVE Consistent(q)'
    <3> SUFFICES ASSUME NEW k \in Key, NEW v \in Value \cup {Absent}, NEW i \in Index,
                        NEW s \in SecKey, SeesValue(q, k, v)'
                 PROVE  /\ SeesIn(q, i, <<s, k>>)' => Expected(op[q], k, v, i, s)
                        /\ SeesOut(q, i, <<s, k>>)' => ~Expected(op[q], k, v, i, s)
      BY <1>4, <1>16 DEF Consistent
    <3>1. CASE Writes(q, PrimaryPage(k))
      <4>1. ~Writes(p, PrimaryPage(k))
        BY <1>1, <1>16, <3>1, OneWriter DEF Reads
      <4>2. ~ChangedRecord(p, k) /\ ~ChangedEntry(p, i, <<s, k>>)
        BY <1>13, <4>1
      <4>3. SeesValue(q, k, v)
        BY <1>8, <1>12, <1>16, <4>2 DEF SeesValue
      <4>4. /\ SeesIn(q, i, <<s, k>>)' => SeesIn(q, i, <<s, k>>)
            /\ SeesOut(q, i, <<s, k>>)' => SeesOut(q, i, <<s, k>>)
        BY <1>8, <1>12, <1>16, <4>2 DEF SeesIn, SeesOut
      <4> QED BY <1>1, <2>3, <4>3, <4>4 DEF Consistent
    <3>2. CASE ~Writes(q, PrimaryPage(k))
      <4>1. WasValue(k, v)'
        BY <1>1, <1>8, <1>16, <3>2 DEF SeesValue, ChangesLocked
      <4>2. k = op[q].key => /\ op[q].at \notin {"old", "put", "cur", "curput", "del", "erase"}
                             /\ HasOld(op[q], i)
        BY <1>1, <3>2 DEF Knows, HasOld
      <4>3. Expected(op[q], k, v, i, s) <=>
              \/ v # Absent /\ Extract[i][v] = s
              \/ k = op[q].key /\ HasNew(op[q], i) /\ Extract[i][op[q].val] = s
        BY <4>2 DEF Expected
      <4>4. k = op[q].key /\ HasNew(op[q], i) /\ Extract[i][op[q].val] = s =>
              Writes(q, SecPage(i, s)) /\ <<s, k>> \in sec[i]
        <5>1. s # DoNotIndex
          BY IndexAssumption
        <5>2. k = op[q].key /\ HasNew(op[q], i) => op[q].at \in {"new", "get"}
          BY <4>2 DEF HasNew
        <5>3. NewIsIn(q)
          BY <1>1 DEF Knows
        <5> QED BY <5>1, <5>2, <5>3 DEF NewIsIn
      <4>5. CASE ChangedEntry(q, i, <<s, k>>)
        <5>1. k = op[q].key /\ HasNew(op[q], i) /\ Extract[i][op[q].val] = s
          BY <1>1, <2>3, <3>2, <4>5 DEF ChangesLocked
        <5>2. ~SeesOut(q, i, <<s, k>>)'
          BY <1>8, <1>16, <4>4, <4>5, <5>1 DEF SeesOut
        <5> QED BY <4>3, <5>1, <5>2
      <4>6. CASE ~ChangedEntry(q, i, <<s, k>>)
        <5>1. /\ SeesIn(q, i, <<s, k>>)' => WasIn(i, <<s, k>>)'
              /\ SeesOut(q, i, <<s, k>>)' => WasOut(i, <<s, k>>)'
          BY <1>8, <1>16, <4>6 DEF SeesIn, SeesOut
        <5>2. /\ WasIn(i, <<s, k>>)' => v # Absent /\ Extract[i][v] = s
              /\ WasOut(i, <<s, k>>)' => ~(v # Absent /\ Extract[i][v] = s)
          BY <1>14, <4>1 DEF CommittedConsistent
        <5>3. k = op[q].key /\ HasNew(op[q], i) /\ Extract[i][op[q].val] = s =>
                ~WasOut(i, <<s, k>>)'
          <6> SUFFICES ASSUME Writes(q, SecPage(i, s)), <<s, k>> \in sec[i]
                       PROVE  ~WasOut(i, <<s, k>>)'
            BY <4>4
          <6>1. \A r \in Proc : r # q => ~ChangedEntry(r, i, <<s, k>>)
            BY <1>1, OneWriter DEF ChangesLocked, Reads
          <6>2. \A r \in Proc : \A n : ~FirstOfEntry(r, n, i, <<s, k>>)'
            BY <1>9, <1>10, <4>6, <6>1
          <6> QED BY <6>2 DEF WasOut
        <5> QED BY <4>3, <5>1, <5>2, <5>3
      <4> QED BY <4>5, <4>6
    <3> QED BY <3>1, <3>2
  <2> QED BY <1>1, <1>4, <1>16, <2>1, <2>2, <2>3
<1>17. \A q \in Proc : /\ ChangesLocked(q)'
                       /\ (~Doomed(op[q]) => Consistent(q))'
                       /\ Knows(q)' /\ Found(op'[q]) /\ op'[q].rc # "DB_SECONDARY_BAD"
  BY <1>15, <1>16
<1> QED BY <1>5, <1>6, <1>14, <1>17 DEF Inv

-----------------------------------------------------------------------------
(* The theorems. *)

LEMMA InitInv == Init => Inv
<1> SUFFICES ASSUME Init PROVE Inv
  OBVIOUS
<1>1. /\ primary = [k \in Key |-> Absent] /\ sec = [i \in Index |-> {}] /\ held = {}
      /\ op = [p \in Proc |-> Idle] /\ undo = [p \in Proc |-> <<>>]
  BY DEF Init
<1>2. Idle \in Operation /\ Idle.at = "idle" /\ Idle.rc = "none"
  BY IdleTyped
<1>3. Types /\ Exclusive
  <2>1. <<>> \in Seq(Change)
    BY EmptySeq
  <2> QED BY <1>1, <1>2, <2>1 DEF Types, Exclusive
<1>4. /\ \A p \in Proc : \A i, e : ~ChangedEntry(p, i, e)
      /\ \A p \in Proc : \A k : ~ChangedRecord(p, k)
      /\ \A p \in Proc : \A n, i, e : ~FirstOfEntry(p, n, i, e)
      /\ \A p \in Proc : \A n, k : ~FirstOfRecord(p, n, k)
  BY <1>1 DEF ChangedEntry, ChangedRecord, FirstOfEntry, FirstOfRecord
<1>5. /\ \A i \in Index : \A e : ~WasIn(i, e)
      /\ \A k \in Key : \A v : WasValue(k, v) => v = Absent
  BY <1>1, <1>4 DEF WasIn, WasValue
<1>6. CommittedConsistent
  BY <1>5 DEF CommittedConsistent
<1>7. ASSUME NEW p \in Proc
      PROVE  /\ ChangesLocked(p) /\ Consistent(p) /\ Knows(p) /\ Found(op[p])
             /\ op[p].rc # "DB_SECONDARY_BAD"
  <2>1. op[p] = Idle
    BY <1>1
  <2>2. Fresh(op[p])
    BY <1>2, <2>1 DEF Fresh, HasOld, HasNew
  <2>3. Consistent(p)
    BY <1>4, <1>6, <2>2
       DEF Consistent, CommittedConsistent, SeesIn, SeesOut, SeesValue, Expected, Fresh
  <2>4. ChangesLocked(p)
    BY <1>4 DEF ChangesLocked
  <2>5. Knows(p) /\ Found(op[p]) /\ op[p].rc # "DB_SECONDARY_BAD"
    BY <1>2, <2>1 DEF Knows, NewIsIn, Found, Steps1
  <2> QED BY <2>3, <2>4, <2>5
<1> QED BY <1>3, <1>6, <1>7 DEF Inv

LEMMA StutterInv ==
  ASSUME Inv, UNCHANGED vars
  PROVE  Inv'
<1>1. UNCHANGED <<primary, sec, held, op, undo>>
  BY DEF vars
<1>2. /\ \A q, i, e : ChangedEntry(q, i, e)' <=> ChangedEntry(q, i, e)
      /\ \A q, k : ChangedRecord(q, k)' <=> ChangedRecord(q, k)
      /\ \A q, n, i, e : FirstOfEntry(q, n, i, e)' <=> FirstOfEntry(q, n, i, e)
      /\ \A q, n, k : FirstOfRecord(q, n, k)' <=> FirstOfRecord(q, n, k)
      /\ \A q, page : Writes(q, page)' <=> Writes(q, page)
  BY <1>1 DEF ChangedEntry, ChangedRecord, FirstOfEntry, FirstOfRecord, Writes
<1>3. /\ \A i, e : WasIn(i, e)' <=> WasIn(i, e)
      /\ \A i, e : WasOut(i, e)' <=> WasOut(i, e)
      /\ \A k, v : WasValue(k, v)' <=> WasValue(k, v)
      /\ \A q, page : Reads(q, page)' <=> Reads(q, page)
  BY <1>1, <1>2 DEF WasIn, WasOut, WasValue, Reads
<1>4. /\ \A q, i, e : SeesIn(q, i, e)' <=> SeesIn(q, i, e)
      /\ \A q, i, e : SeesOut(q, i, e)' <=> SeesOut(q, i, e)
      /\ \A q, k, v : SeesValue(q, k, v)' <=> SeesValue(q, k, v)
  BY <1>1, <1>2, <1>3 DEF SeesIn, SeesOut, SeesValue
<1>5. Types' /\ Exclusive' /\ CommittedConsistent'
  BY <1>1, <1>3 DEF Inv, Types, Exclusive, CommittedConsistent
<1>6. ASSUME NEW q \in Proc
      PROVE  /\ ChangesLocked(q)'
             /\ (~Doomed(op[q]) => Consistent(q))'
             /\ Knows(q)' /\ Found(op'[q]) /\ op'[q].rc # "DB_SECONDARY_BAD"
  <2>1. ChangesLocked(q)'
    BY <1>1, <1>2 DEF Inv, ChangesLocked
  <2>2. (~Doomed(op[q]) => Consistent(q))'
    BY <1>1, <1>4 DEF Inv, Consistent
  <2>3. Knows(q)'
    BY <1>1, <1>2, <1>3 DEF Inv, Knows, NewIsIn, SecPage, PrimaryPage
  <2> QED BY <1>1, <2>1, <2>2, <2>3 DEF Inv
<1> QED BY <1>5, <1>6 DEF Inv

LEMMA NextInv ==
  ASSUME Inv, [Next]_vars, ~spoilt'
  PROVE  Inv'
<1>1. ASSUME NEW p \in Proc, Begins(p), ~Spoils(p) PROVE Inv'
  <2>1. op[p].at = "idle" /\ op'[p].at # "undo"
    BY <1>1, BeginsStarts
  <2>2. ~Doomed(op[p])
    BY <1>1, <2>1 DEF Spoils, Torn, Doomed
  <2> QED BY <1>1, <2>2, BeginsStep
<1>2. ASSUME NEW p \in Proc, Steps(p), ~Spoils(p) PROVE Inv'
  <2>1. DeleteCurrentEntry(p) => ~(NewKey(p) = DoNotIndex /\ OldKey(p) # DoNotIndex)
    BY <1>2 DEF DeleteCurrentEntry, Spoils
  <2> QED BY <1>2, <2>1, PutNewEntryStep, GetOldRecordStep, DeleteOldEntryStep, PutRecordStep,
             PositionStep, GetCurrentStep, DeleteCurrentEntryStep, PutCurrentEntryStep,
             NextToEraseStep, GetToEraseStep, DeleteEntryStep, EraseRecordStep, PgetKeyStep,
             PgetDataStep DEF Steps
<1>3. ASSUME NEW p \in Proc, Ends(p), ~Spoils(p) PROVE Inv'
  <2>1. ASSUME Commit(p) PROVE ~Doomed(op[p])
    <3>1. op[p].at = "idle" /\ op' = [op EXCEPT ![p] = Idle] /\ op \in [Proc -> Operation]
      BY <2>1 DEF Commit, Close, Inv, Types
    <3>2. op'[p].at # "undo"
      BY <3>1, IdleTyped
    <3> QED BY <1>3, <3>1, <3>2 DEF Spoils, Torn, Doomed
  <2> QED BY <1>3, <2>1, CloseStep, TurnBackStep, TimesOutStep, UndoOneStep
          DEF Ends, Commit, Abort, Refused, AbortEnds
<1>4. CASE UNCHANGED vars
  BY <1>4, StutterInv
<1>5. CASE Next
  <2>1. PICK p \in Proc : (Begins(p) \/ Steps(p) \/ Ends(p)) /\ spoilt' = (spoilt \/ Spoils(p))
    BY <1>5 DEF Next
  <2> QED BY <1>1, <1>2, <1>3, <2>1
<1> QED BY <1>4, <1>5

THEOREM Invariance == Spec => [](spoilt \/ Inv)
<1>1. Init => Inv
  BY InitInv
<1>2. (spoilt \/ Inv) /\ [Next]_vars => (spoilt \/ Inv)'
  <2> SUFFICES ASSUME spoilt \/ Inv, [Next]_vars, ~spoilt' PROVE Inv'
    OBVIOUS
  <2>1. ~spoilt
    <3>1. CASE UNCHANGED vars
      BY <3>1 DEF vars
    <3>2. CASE Next
      BY <3>2 DEF Next
    <3> QED BY <3>1, <3>2
  <2> QED BY <2>1, NextInv
<1> QED BY <1>1, <1>2, PTL DEF Spec

\* The application has not spoilt an index: no operation reports
\* DB_SECONDARY_BAD, an entry that is to be deleted is there, and the record an
\* entry names is there.
THEOREM NeverBadHolds == Spec => []NeverBad
<1>1. spoilt \/ Inv => NeverBad
  BY DEF Inv, NeverBad
<1> QED BY <1>1, Invariance, PTL

\* The application has not spoilt an index: Database::pget( s ) returns a record
\* with the secondary key s.
THEOREM PgetFindsTheKeyHolds == Spec => []PgetFindsTheKey
<1>1. spoilt \/ Inv => PgetFindsTheKey
  BY DEF Inv, PgetFindsTheKey, Found
<1> QED BY <1>1, Invariance, PTL

\* The application has not spoilt an index: every index has just the entry each
\* record calls for that no operation is at work on, in whatever order the
\* operations of the transactions interleave, fail and are taken back.
THEOREM IndexesMatchHolds == Spec => []IndexesMatch
<1>1. ASSUME Inv PROVE IndexesMatch
  <2> SUFFICES ASSUME NEW k \in Key, \A p \in Proc : Settled(p, k), NEW i \in Index, NEW s \in SecKey
               PROVE  <<s, k>> \in sec[i] <=> CalledFor(i, s, k)
    BY DEF IndexesMatch
  <2>1. /\ Types /\ Exclusive /\ CommittedConsistent
        /\ \A p \in Proc : ChangesLocked(p) /\ (~Doomed(op[p]) => Consistent(p))
    BY <1>1 DEF Inv
  <2>a. ASSUME NEW p \in Proc, ChangedRecord(p, k) \/ ChangedEntry(p, i, <<s, k>>)
        PROVE  ~Doomed(op[p]) /\ op[p].key # k
    <3>1. Settled(p, k)
      OBVIOUS
    <3>2. \E n \in DOMAIN undo[p] :
             IF undo[p][n].what = "set" THEN undo[p][n].key = k ELSE undo[p][n].e[2] = k
      BY <2>a DEF ChangedRecord, ChangedEntry, IsRecord, IsEntry
    <3> QED BY <3>1, <3>2 DEF Settled, Torn, Doomed
  <2>2. <<s, k>> \in sec[i] <=> primary[k] # Absent /\ Extract[i][primary[k]] = s
    <3>1. primary[k] \in Value \cup {Absent}
      BY <2>1 DEF Types
    <3>2. CASE \E p \in Proc : ChangedRecord(p, k) \/ ChangedEntry(p, i, <<s, k>>)
      <4>1. PICK p \in Proc : ChangedRecord(p, k) \/ ChangedEntry(p, i, <<s, k>>)
        BY <3>2
      <4>2. Writes(p, PrimaryPage(k)) /\ ~Doomed(op[p]) /\ op[p].key # k
        BY <2>1, <2>a, <4>1 DEF ChangesLocked
      <4>3. SeesValue(p, k, primary[k])
        BY <1>1, <4>2, OwnRecord
      <4>4. \A q \in Proc \ {p} : ~ChangedEntry(q, i, <<s, k>>)
        <5>1. \A q \in Proc \ {p} : ~Writes(q, PrimaryPage(k))
          BY <2>1, <4>2, OneWriter DEF Reads
        <5> QED BY <2>1, <2>a, <5>1 DEF ChangesLocked
      <4>5. /\ SeesIn(p, i, <<s, k>>) <=> <<s, k>> \in sec[i]
            /\ SeesOut(p, i, <<s, k>>) <=> <<s, k>> \notin sec[i]
        <5>1. \A q \in Proc : \A n :
                FirstOfEntry(q, n, i, <<s, k>>) => ChangedEntry(q, i, <<s, k>>)
          BY DEF FirstOfEntry, ChangedEntry
        <5> QED BY <4>4, <5>1 DEF SeesIn, SeesOut, WasIn, WasOut
      <4> QED BY <2>1, <3>1, <4>2, <4>3, <4>5 DEF Consistent, Expected
    <3>3. CASE ~\E p \in Proc : ChangedRecord(p, k) \/ ChangedEntry(p, i, <<s, k>>)
      <4>1. WasValue(k, primary[k])
        BY <3>3 DEF WasValue
      <4>2. /\ <<s, k>> \in sec[i] => WasIn(i, <<s, k>>)
            /\ <<s, k>> \notin sec[i] => WasOut(i, <<s, k>>)
        BY <3>3 DEF WasIn, WasOut
      <4> QED BY <2>1, <3>1, <4>1, <4>2 DEF CommittedConsistent
    <3> QED BY <3>2, <3>3
  <2> QED BY <2>2 DEF CalledFor
<1>2. spoilt \/ Inv => IndexesMatch
  BY <1>1 DEF IndexesMatch
<1> QED BY <1>2, Invariance, PTL

-----------------------------------------------------------------------------
(* Types, whatever the application does. *)

\* What the steps need of their arguments.
Arguments(o) ==
    /\ o.at \in Steps1 => o.key \in Key /\ o.val \in Value
    /\ o.at \in {"getdel", "del", "erase", "data"} => o.key \in Key
    /\ o.at = "curput" => Extract[o.i][o.val] # DoNotIndex

OpsTyped == op \in [Proc -> Operation] /\ \A p \in Proc : Arguments(op[p])

DataTyped ==
    /\ primary \in [Key -> Value \cup {Absent}]
    /\ sec \in [Index -> SUBSET (SecKey \X Key)]
    /\ undo \in [Proc -> Seq(Change)]

HeldTyped == Exclusive /\ \A l \in held : l[1] \in Proc /\ l[2] \in {"r", "w"}

Typed == OpsTyped /\ DataTyped /\ HeldTyped

LEMMA LockTyped ==
  ASSUME HeldTyped, NEW p \in Proc, Lock(p)
  PROVE  HeldTyped'
<1>1. /\ held' = held \cup {<<p, n[1], n[2]>> : n \in Need(p)}
      /\ \A q \in Proc : ~Blocks(q, p)
  BY DEF Lock
<1>2. \A n \in Need(p) : n[1] \in {"r", "w"}
  <2>1. \A n \in NeedOfPrimary(p) : n[1] \in {"r", "w"}
    BY DEF NeedOfPrimary
  <2>2. \A n \in NeedOfIndex(p) : n[1] \in {"r", "w"}
    <3>1. PICK o, s, t : /\ o = op[p]
                         /\ s = SecPage(op[p].i, NewKey(p)) /\ t = SecPage(op[p].i, OldKey(p))
      OBVIOUS
    <3>2. NeedOfIndex(p) \in {{<<"w", s>>}, {<<"w", t>>}, {<<"r", SecPage(o.i, o.skey)>>},
                              {<<"w", SecPage(o.i, o.skey)>>}, {}}
      <4>1. CASE o.at \in {"new", "curput"} /\ NewKey(p) # DoNotIndex
        BY <3>1, <4>1 DEF NeedOfIndex
      <4>2. CASE \/ o.at = "old" /\ Replaces(p, FALSE)
                 \/ o.at = "cur" /\ Replaces(p, TRUE)
                 \/ o.at = "del" /\ OldKey(p) # DoNotIndex
        BY <3>1, <4>2 DEF NeedOfIndex
      <4>3. CASE o.at \in {"pget", "secdel"}
        BY <3>1, <4>3 DEF NeedOfIndex
      <4>4. CASE /\ ~(o.at \in {"new", "curput"} /\ NewKey(p) # DoNotIndex)
                 /\ ~(\/ o.at = "old" /\ Replaces(p, FALSE)
                      \/ o.at = "cur" /\ Replaces(p, TRUE)
                      \/ o.at = "del" /\ OldKey(p) # DoNotIndex)
                 /\ o.at \notin {"pget", "secdel"}
        BY <3>1, <4>4 DEF NeedOfIndex
      <4> QED BY <4>1, <4>2, <4>3, <4>4
    <3> QED BY <3>2
  <2> QED BY <2>1, <2>2 DEF Need
<1>3. \A l \in held, n \in Need(p) : l[1] # p /\ l[3] = n[2] => l[2] = "r" /\ n[1] = "r"
  BY <1>1, <1>2 DEF HeldTyped, Blocks
<1>4. Exclusive'
  <2> SUFFICES ASSUME NEW l \in held', NEW m \in held', l[3] = m[3], l[1] # m[1]
               PROVE  l[2] = "r" /\ m[2] = "r"
    BY DEF Exclusive
  <2>1. CASE l \in held /\ m \in held
    BY <2>1 DEF HeldTyped, Exclusive
  <2>2. CASE l \notin held
    <3>1. PICK n \in Need(p) : l = <<p, n[1], n[2]>>
      BY <1>1, <2>2
    <3> QED BY <1>1, <1>3, <3>1
  <2>3. CASE m \notin held
    <3>1. PICK n \in Need(p) : m = <<p, n[1], n[2]>>
      BY <1>1, <2>3
    <3> QED BY <1>1, <1>3, <3>1
  <2> QED BY <2>1, <2>2, <2>3
<1> QED BY <1>1, <1>2, <1>4 DEF HeldTyped

\* The operation of p has moved on to o.
LEMMA MoveTyped ==
  ASSUME OpsTyped, NEW p \in Proc, NEW o \in Operation, Arguments(o), op' = [op EXCEPT ![p] = o]
  PROVE  OpsTyped'
BY DEF OpsTyped

LEMMA FinishTyped ==
  ASSUME OpsTyped, NEW p \in Proc,
         NEW rc \in {"ok", "DB_NOTFOUND", "DB_SECONDARY_BAD", "timed_out", "half_done"},
         Finish(p, rc)
  PROVE  OpsTyped'
<1>1. PICK o : o = Finished(p, rc)
  OBVIOUS
<1>2. op[p].n \in Nat
  BY DEF OpsTyped, Operation
<1>3. o \in Operation /\ o.at = "idle"
  BY <1>1, <1>2, FinishedIs
<1>4. Arguments(o)
  BY <1>3 DEF Arguments, Steps1
<1> QED BY <1>1, <1>3, <1>4, MoveTyped DEF Finish

LEMMA NextIndexTyped ==
  ASSUME OpsTyped, NEW p \in Proc, NEW at \in Steps1 \cup {"del", "erase"},
         NEW after \in Steps1 \cup {"del", "erase"}, NextIndex(p, at, after),
         at # "curput", after # "curput",
         at \in Steps1 \/ after \in Steps1 => op[p].at \in Steps1,
         op[p].key \in Key
  PROVE  OpsTyped'
<1>1. op[p] \in Operation /\ op \in [Proc -> Operation] /\ Arguments(op[p])
  BY DEF OpsTyped
<1>2. PICK o2 \in Operation :
        /\ op' = [op EXCEPT ![p] = o2] /\ o2.at \in {at, after}
        /\ o2.key = op[p].key /\ o2.val = op[p].val
  BY <1>1, NextIndexGoesOn
<1>3. o2.at \in Steps1 => o2.val \in Value
  BY <1>1, <1>2 DEF Arguments
<1>4. o2.key \in Key /\ o2.at # "curput"
  BY <1>2
<1>5. Arguments(o2)
  BY <1>3, <1>4 DEF Arguments
<1> QED BY <1>2, <1>5, MoveTyped

LEMMA RememberTyped ==
  ASSUME undo \in [Proc -> Seq(Change)], NEW p \in Proc, NEW c \in Change, Remember(p, c)
  PROVE  undo' \in [Proc -> Seq(Change)]
<1>1. Append(undo[p], c) \in Seq(Change)
  BY AppendProperties
<1> QED BY <1>1 DEF Remember

\* An entry comes or goes.
LEMMA EntryTyped ==
  ASSUME DataTyped, NEW p \in Proc, NEW i \in Index, primary' = primary,
         NEW e, \/ e \in SecKey \X Key /\ AddEntry(p, i, e)
                \/ e \in sec[i] /\ RemoveEntry(p, i, e)
  PROVE  DataTyped'
<1>1. e \in SecKey \X Key
  BY DEF DataTyped
<1>2. CASE UNCHANGED <<sec, undo>>
  BY <1>2 DEF DataTyped
<1>3. CASE AddEntry(p, i, e) /\ ~UNCHANGED <<sec, undo>>
  <2>1. [what |-> "added", i |-> i, e |-> e] \in Change
    BY <1>1 DEF Change
  <2>2. sec' = [sec EXCEPT ![i] = @ \cup {e}]
    BY <1>3 DEF AddEntry
  <2>3. undo' \in [Proc -> Seq(Change)]
    BY <1>3, <2>1, RememberTyped DEF AddEntry, DataTyped
  <2> QED BY <1>1, <2>2, <2>3 DEF DataTyped
<1>4. CASE RemoveEntry(p, i, e)
  <2>1. [what |-> "removed", i |-> i, e |-> e] \in Change
    BY <1>1 DEF Change
  <2>2. sec' = [sec EXCEPT ![i] = @ \ {e}]
    BY <1>4 DEF RemoveEntry
  <2>3. undo' \in [Proc -> Seq(Change)]
    BY <1>4, <2>1, RememberTyped DEF RemoveEntry, DataTyped
  <2> QED BY <2>2, <2>3 DEF DataTyped
<1> QED BY <1>2, <1>3, <1>4

LEMMA RecordTyped ==
  ASSUME DataTyped, NEW p \in Proc, op[p].key \in Key, NEW v \in Value \cup {Absent},
         SetPrimary(p, v), sec' = sec
  PROVE  DataTyped'
<1>1. primary' = [primary EXCEPT ![op[p].key] = v] /\ primary[op[p].key] \in Value \cup {Absent}
  BY DEF SetPrimary, DataTyped
<1>2. [what |-> "set", key |-> op[p].key, old |-> primary[op[p].key]] \in Change
  BY <1>1 DEF Change
<1>3. undo' \in [Proc -> Seq(Change)]
  BY <1>2, RememberTyped DEF SetPrimary, DataTyped
<1> QED BY <1>1, <1>3 DEF DataTyped

LEMMA BeginsTyped ==
  ASSUME Typed, NEW p \in Proc, Begins(p)
  PROVE  Typed'
<1>1. PICK o \in Operation : Arguments(o) /\ Start(p, o)
  BY IdleTyped DEF Begins, Set, SetValue, Erase, EraseBySecondary, Pget, Operation, Steps1, Arguments
<1>2. PICK o2 : o2 = [o EXCEPT !.n = op[p].n]
  OBVIOUS
<1>3. op' = [op EXCEPT ![p] = o2] /\ UNCHANGED <<primary, sec, held, undo>>
  BY <1>1, <1>2 DEF Start
<1>4. o2 \in Operation /\ Arguments(o2)
  BY <1>1, <1>2 DEF Operation, Arguments, Typed, OpsTyped
<1> QED BY <1>3, <1>4, MoveTyped DEF Typed, DataTyped, HeldTyped, Exclusive

\* Steps of puts.
LEMMA PutsTyped ==
  ASSUME Typed, NEW p \in Proc,
         \/ PutNewEntry(p) \/ GetOldRecord(p) \/ DeleteOldEntry(p) \/ PutRecord(p)
         \/ Position(p) \/ GetCurrent(p) \/ DeleteCurrentEntry(p) \/ PutCurrentEntry(p)
  PROVE  Typed'
<1>0. PICK o : o = op[p]
  OBVIOUS
<1>1. /\ OpsTyped /\ DataTyped /\ HeldTyped /\ op \in [Proc -> Operation]
      /\ o \in Operation /\ Arguments(o) /\ o.i \in Index
  BY <1>0 DEF Typed, OpsTyped, Operation
<1>2. o.at \in Steps1 /\ o.key \in Key /\ o.val \in Value /\ primary[o.key] \in Value \cup {Absent}
  <2>1. o.at \in Steps1
    BY <1>0 DEF PutNewEntry, GetOldRecord, DeleteOldEntry, PutRecord, Position, GetCurrent,
             DeleteCurrentEntry, PutCurrentEntry, Steps1
  <2> QED BY <1>1, <2>1 DEF Arguments, DataTyped
<1>3. NewKey(p) = Extract[o.i][o.val] /\ NewKey(p) \in SecKey \cup {DoNotIndex}
  BY <1>0, <1>1, <1>2, IndexAssumption DEF NewKey
<1>4. UNCHANGED <<primary, sec, undo>> => DataTyped'
  BY <1>1 DEF DataTyped
<1>5. "new" \in Steps1 /\ "get" \in Steps1 /\ "old" \in Steps1 /\ "put" \in Steps1 /\ "cur" \in Steps1
  BY DEF Steps1
<1>6. CASE PutNewEntry(p)
  <2>1. /\ Lock(p) /\ primary' = primary /\ NextIndex(p, "new", "get")
        /\ IF NewKey(p) = DoNotIndex THEN UNCHANGED <<sec, undo>>
           ELSE AddEntry(p, o.i, <<NewKey(p), o.key>>)
    BY <1>0, <1>6 DEF PutNewEntry
  <2>2. DataTyped'
    <3>1. CASE NewKey(p) = DoNotIndex
      BY <1>4, <2>1, <3>1
    <3>2. CASE NewKey(p) # DoNotIndex
      BY <1>1, <1>2, <1>3, <2>1, <3>2, EntryTyped
    <3> QED BY <3>1, <3>2
  <2>3. OpsTyped'
    BY <1>0, <1>1, <1>2, <1>5, <2>1, NextIndexTyped
  <2> QED BY <1>1, <2>1, <2>2, <2>3, LockTyped DEF Typed
<1>7. CASE GetOldRecord(p)
  <2>1. PICK at \in {"put", "old"} :
          op' = [op EXCEPT ![p].old = primary[op[p].key], ![p].at = at]
    BY <1>7 DEF GetOldRecord
  <2>2. PICK o2 : o2 = [o EXCEPT !.old = primary[o.key], !.at = at]
    OBVIOUS
  <2>3. o2 \in Operation /\ o2.at = at /\ o2.key = o.key /\ o2.val = o.val
    BY <1>1, <1>2, <1>5, <2>2 DEF Operation
  <2>4. Arguments(o2)
    BY <1>2, <2>3 DEF Arguments
  <2>5. op' = [op EXCEPT ![p] = o2]
    BY <1>0, <1>1, <2>1, <2>2
  <2>6. Lock(p) /\ UNCHANGED <<primary, sec, undo>>
    BY <1>7 DEF GetOldRecord
  <2> QED BY <1>1, <1>4, <2>3, <2>4, <2>5, <2>6, MoveTyped, LockTyped DEF Typed
<1>8. CASE DeleteOldEntry(p)
  <2>1. Lock(p) /\ primary' = primary
    BY <1>8 DEF DeleteOldEntry
  <2>2. \/ NextIndex(p, "old", "put")
           /\ (UNCHANGED <<sec, undo>>
               \/ \E e \in sec[o.i] : RemoveEntry(p, o.i, e))
        \/ Finish(p, "DB_SECONDARY_BAD") /\ UNCHANGED <<sec, undo>>
    BY <1>0, <1>8 DEF DeleteOldEntry, RemoveOrBad
  <2>3. DataTyped'
    BY <1>1, <1>4, <2>1, <2>2, EntryTyped
  <2>4. OpsTyped'
    BY <1>0, <1>1, <1>2, <1>5, <2>2, NextIndexTyped, FinishTyped
  <2> QED BY <1>1, <2>1, <2>3, <2>4, LockTyped DEF Typed
<1>9. CASE PutRecord(p)
  <2>1. SetPrimary(p, o.val) /\ Finish(p, "ok") /\ UNCHANGED <<sec, held>>
    BY <1>0, <1>9 DEF PutRecord
  <2>2. DataTyped' /\ OpsTyped'
    BY <1>0, <1>1, <1>2, <2>1, RecordTyped, FinishTyped
  <2> QED BY <1>1, <2>1, <2>2 DEF Typed, HeldTyped, Exclusive
<1>10. CASE Position(p)
  <2>1. Lock(p) /\ UNCHANGED <<primary, sec, undo>> /\ (Finish(p, "DB_NOTFOUND") \/ Goto(p, "getcur"))
    BY <1>10 DEF Position
  <2>2. ASSUME Goto(p, "getcur") PROVE OpsTyped'
    <3>1. PICK o2 : o2 = [o EXCEPT !.at = "getcur"]
      OBVIOUS
    <3>2. o2 \in Operation /\ Arguments(o2)
      BY <1>1, <1>2, <3>1 DEF Operation, Arguments, Steps1
    <3>3. op' = [op EXCEPT ![p] = o2]
      BY <1>0, <1>1, <2>2, <3>1 DEF Goto
    <3> QED BY <1>1, <3>2, <3>3, MoveTyped
  <2> QED BY <1>1, <1>4, <2>1, <2>2, FinishTyped, LockTyped DEF Typed
<1>11. CASE GetCurrent(p)
  <2>1. /\ Lock(p) /\ UNCHANGED <<primary, sec, undo>>
        /\ op' = [op EXCEPT ![p].old = primary[op[p].key], ![p].at = "cur"]
    BY <1>11 DEF GetCurrent
  <2>2. PICK o2 : o2 = [o EXCEPT !.old = primary[o.key], !.at = "cur"]
    OBVIOUS
  <2>3. o2 \in Operation /\ o2.at = "cur" /\ o2.key = o.key /\ o2.val = o.val
    BY <1>1, <1>2, <1>5, <2>2 DEF Operation
  <2>4. Arguments(o2)
    BY <1>2, <2>3 DEF Arguments
  <2>5. op' = [op EXCEPT ![p] = o2]
    BY <1>0, <1>1, <2>1, <2>2
  <2> QED BY <1>1, <1>4, <2>1, <2>3, <2>4, <2>5, MoveTyped, LockTyped DEF Typed
<1>12. CASE DeleteCurrentEntry(p)
  <2>1. Lock(p) /\ primary' = primary
    BY <1>12 DEF DeleteCurrentEntry
  <2>2. \/ NextIndex(p, "cur", "put") /\ UNCHANGED <<sec, undo>>
        \/ /\ Goto(p, "curput") /\ NewKey(p) # DoNotIndex
           /\ UNCHANGED <<sec, undo>> \/ \E e \in sec[o.i] : RemoveEntry(p, o.i, e)
        \/ Finish(p, "DB_SECONDARY_BAD") /\ UNCHANGED <<sec, undo>>
    <3>1. CASE NewKey(p) \in {DoNotIndex, OldKey(p)}
      <4>1. ~Replaces(p, TRUE)
        BY <3>1 DEF Replaces
      <4> QED BY <1>0, <1>12, <3>1, <4>1 DEF DeleteCurrentEntry
    <3>2. CASE NewKey(p) \notin {DoNotIndex, OldKey(p)} /\ Replaces(p, TRUE)
      BY <1>0, <1>12, <3>2 DEF DeleteCurrentEntry
    <3>3. CASE NewKey(p) \notin {DoNotIndex, OldKey(p)} /\ ~Replaces(p, TRUE)
      BY <1>0, <1>12, <3>3 DEF DeleteCurrentEntry
    <3> QED BY <3>1, <3>2, <3>3
  <2>3. DataTyped'
    BY <1>1, <1>4, <2>1, <2>2, EntryTyped
  <2>4. ASSUME Goto(p, "curput"), NewKey(p) # DoNotIndex PROVE OpsTyped'
    <3>1. PICK o2 : o2 = [o EXCEPT !.at = "curput"]
      OBVIOUS
    <3>2. o2 \in Operation /\ o2.i = o.i /\ o2.key = o.key /\ o2.val = o.val /\ o2.at = "curput"
      BY <1>1, <3>1 DEF Operation, Steps1
    <3>3. Arguments(o2)
      BY <1>2, <1>3, <2>4, <3>2 DEF Arguments
    <3>4. op' = [op EXCEPT ![p] = o2]
      BY <1>0, <1>1, <2>4, <3>1 DEF Goto
    <3> QED BY <1>1, <3>2, <3>3, <3>4, MoveTyped
  <2>5. OpsTyped'
    BY <1>0, <1>1, <1>2, <1>5, <2>2, <2>4, NextIndexTyped, FinishTyped
  <2> QED BY <1>1, <2>1, <2>3, <2>5, LockTyped DEF Typed
<1>13. CASE PutCurrentEntry(p)
  <2>1. /\ Lock(p) /\ primary' = primary /\ NextIndex(p, "cur", "put") /\ o.at = "curput"
        /\ AddEntry(p, o.i, <<NewKey(p), o.key>>)
    BY <1>0, <1>13 DEF PutCurrentEntry
  <2>2. NewKey(p) \in SecKey
    BY <1>1, <1>3, <2>1 DEF Arguments
  <2>3. DataTyped'
    BY <1>1, <1>2, <2>1, <2>2, EntryTyped
  <2>4. OpsTyped'
    BY <1>0, <1>1, <1>2, <1>5, <2>1, NextIndexTyped
  <2> QED BY <1>1, <2>1, <2>3, <2>4, LockTyped DEF Typed
<1> QED BY <1>6, <1>7, <1>8, <1>9, <1>10, <1>11, <1>12, <1>13

\* Steps of deletions and of pget.
LEMMA OthersTyped ==
  ASSUME Typed, NEW p \in Proc,
         \/ NextToErase(p) \/ GetToErase(p) \/ DeleteEntry(p) \/ EraseRecord(p)
         \/ PgetKey(p) \/ PgetData(p)
  PROVE  Typed'
<1>0. PICK o : o = op[p]
  OBVIOUS
<1>1. /\ OpsTyped /\ DataTyped /\ HeldTyped /\ op \in [Proc -> Operation]
      /\ o \in Operation /\ Arguments(o) /\ o.i \in Index /\ o.from \in Index
  BY <1>0 DEF Typed, OpsTyped, Operation
<1>2. UNCHANGED <<primary, sec, undo>> => DataTyped'
  BY <1>1 DEF DataTyped
<1>3. o.at \in {"getdel", "del", "erase", "data"} => o.key \in Key /\ primary[o.key] \in Value \cup {Absent}
  BY <1>1 DEF Arguments, DataTyped
<1>4. CASE NextToErase(p) \/ PgetKey(p)
  <2>1. PICK keys \in SUBSET Key : keys = {k \in Key : <<o.skey, k>> \in sec[o.i]}
    OBVIOUS
  <2>2. Lock(p) /\ UNCHANGED <<primary, sec, undo>>
    BY <1>4 DEF NextToErase, PgetKey
  <2>3. CASE keys = {}
    <3>1. Finish(p, "DB_NOTFOUND") \/ Finish(p, "ok")
      BY <1>0, <1>4, <2>1, <2>3 DEF NextToErase, PgetKey
    <3> QED BY <1>1, <1>2, <2>2, <3>1, FinishTyped, LockTyped DEF Typed
  <2>4. CASE keys # {}
    <3>1. PICK k \in Key : k = Min(keys)
      BY <2>4, MinFacts
    <3>2. PICK at \in {"getdel", "data"}, old \in Value \cup {Absent} :
            op' = [op EXCEPT ![p] = [o EXCEPT !.at = at, !.key = k, !.old = old]]
      <4>1. CASE NextToErase(p)
        <5>1. op' = [op EXCEPT ![p].at = "getdel", ![p].key = k, ![p].old = Absent]
          BY <1>0, <2>1, <2>4, <3>1, <4>1 DEF NextToErase
        <5>2. op' = [op EXCEPT ![p] = [o EXCEPT !.at = "getdel", !.key = k, !.old = Absent]]
          BY <1>0, <1>1, <5>1
        <5> QED BY <5>2
      <4>2. CASE PgetKey(p)
        <5>1. op' = [op EXCEPT ![p].at = "data", ![p].key = k]
          BY <1>0, <2>1, <2>4, <3>1, <4>2 DEF PgetKey
        <5>2. /\ [o EXCEPT !.at = "data", !.key = k] = [o EXCEPT !.at = "data", !.key = k, !.old = o.old]
              /\ o.old \in Value \cup {Absent}
          BY <1>1 DEF Operation
        <5>3. op' = [op EXCEPT ![p] = [o EXCEPT !.at = "data", !.key = k]]
          BY <1>0, <1>1, <5>1
        <5> QED BY <5>2, <5>3
      <4> QED BY <1>4, <4>1, <4>2
    <3>3. PICK o2 : o2 = [o EXCEPT !.at = at, !.key = k, !.old = old]
      OBVIOUS
    <3>4. o2 \in Operation /\ o2.at = at /\ o2.key = k
      BY <1>1, <3>3 DEF Operation
    <3>5. Arguments(o2)
      BY <3>4 DEF Arguments, Steps1
    <3> QED BY <1>1, <1>2, <2>2, <3>2, <3>3, <3>4, <3>5, MoveTyped, LockTyped DEF Typed
  <2> QED BY <2>3, <2>4
<1>5. CASE GetToErase(p)
  <2>1. Lock(p) /\ UNCHANGED <<primary, sec, undo>> /\ o.at = "getdel"
    BY <1>0, <1>5 DEF GetToErase
  <2>2. \/ Finish(p, "DB_NOTFOUND") \/ Finish(p, "DB_SECONDARY_BAD")
        \/ op' = [op EXCEPT ![p].at = "del", ![p].old = primary[o.key], ![p].i = 1]
    BY <1>0, <1>5 DEF GetToErase
  <2>3. ASSUME op' = [op EXCEPT ![p].at = "del", ![p].old = primary[o.key], ![p].i = 1]
        PROVE  OpsTyped'
    <3>1. PICK o2 : o2 = [o EXCEPT !.at = "del", !.old = primary[o.key], !.i = 1]
      OBVIOUS
    <3>2. o2 \in Operation /\ o2.at = "del" /\ o2.key = o.key
      BY <1>1, <1>3, <2>1, <3>1, IdleTyped DEF Operation
    <3>3. Arguments(o2)
      BY <1>3, <2>1, <3>2 DEF Arguments, Steps1
    <3>4. op' = [op EXCEPT ![p] = o2]
      BY <1>0, <1>1, <2>3, <3>1
    <3> QED BY <1>1, <3>2, <3>3, <3>4, MoveTyped
  <2> QED BY <1>1, <1>2, <2>1, <2>2, <2>3, FinishTyped, LockTyped DEF Typed
<1>6. CASE DeleteEntry(p)
  <2>1. Lock(p) /\ primary' = primary /\ o.at = "del"
    BY <1>0, <1>6 DEF DeleteEntry
  <2>2. \/ NextIndex(p, "del", "erase")
           /\ (UNCHANGED <<sec, undo>>
               \/ \E e \in sec[o.i] : RemoveEntry(p, o.i, e))
        \/ Finish(p, "DB_SECONDARY_BAD") /\ UNCHANGED <<sec, undo>>
    BY <1>0, <1>6 DEF DeleteEntry, RemoveOrBad
  <2>3. DataTyped'
    BY <1>1, <1>2, <2>1, <2>2, EntryTyped
  <2>4. ASSUME NextIndex(p, "del", "erase") PROVE OpsTyped'
    <3>1. "del" \notin Steps1 /\ "erase" \notin Steps1
      BY DEF Steps1
    <3> QED BY <1>0, <1>1, <1>3, <2>1, <2>4, <3>1, NextIndexTyped
  <2> QED BY <1>1, <2>1, <2>2, <2>3, <2>4, FinishTyped, LockTyped DEF Typed
<1>7. CASE EraseRecord(p)
  <2>1. /\ SetPrimary(p, Absent) /\ UNCHANGED <<sec, held>> /\ o.at = "erase"
        /\ Finish(p, "ok") \/ op' = [op EXCEPT ![p].at = "secdel", ![p].i = o.from]
    BY <1>0, <1>7 DEF EraseRecord
  <2>2. DataTyped'
    BY <1>0, <1>1, <1>3, <2>1, RecordTyped
  <2>3. ASSUME op' = [op EXCEPT ![p].at = "secdel", ![p].i = o.from] PROVE OpsTyped'
    <3>1. PICK o2 : o2 = [o EXCEPT !.at = "secdel", !.i = o.from]
      OBVIOUS
    <3>2. o2 \in Operation /\ o2.at = "secdel"
      BY <1>1, <3>1 DEF Operation
    <3>3. Arguments(o2)
      BY <3>2 DEF Arguments, Steps1
    <3>4. op' = [op EXCEPT ![p] = o2]
      BY <1>0, <1>1, <2>3, <3>1
    <3> QED BY <1>1, <3>2, <3>3, <3>4, MoveTyped
  <2> QED BY <1>1, <2>1, <2>2, <2>3, FinishTyped DEF Typed, HeldTyped, Exclusive
<1>8. CASE PgetData(p)
  <2>1. Lock(p) /\ UNCHANGED <<primary, sec, undo>> /\ o.at = "data"
    BY <1>0, <1>8 DEF PgetData
  <2>2. CASE Finish(p, "DB_SECONDARY_BAD")
    BY <1>1, <1>2, <2>1, <2>2, FinishTyped, LockTyped DEF Typed
  <2>3. CASE ~Finish(p, "DB_SECONDARY_BAD")
    <3>1. PICK v : /\ v # Absent /\ v = primary[o.key]
                   /\ op' = [op EXCEPT ![p] = [Finished(p, "ok") EXCEPT !.i = o.i, !.skey = o.skey, !.val = v]]
      BY <1>0, <1>8, <2>3 DEF PgetData
    <3>2. PICK o1 : o1 = Finished(p, "ok")
      OBVIOUS
    <3>3. op[p].n \in Nat
      BY <1>0, <1>1 DEF Operation
    <3>4. o1 \in Operation /\ o1.at = "idle"
      BY <3>2, <3>3, FinishedIs
    <3>5. PICK o2 : o2 = [o1 EXCEPT !.i = o.i, !.skey = o.skey, !.val = v]
      OBVIOUS
    <3>6. o2 \in Operation /\ o2.at = "idle"
      BY <1>1, <1>3, <2>1, <3>1, <3>4, <3>5 DEF Operation
    <3>7. Arguments(o2)
      BY <3>6 DEF Arguments, Steps1
    <3> QED BY <1>1, <1>2, <2>1, <3>1, <3>2, <3>5, <3>6, <3>7, MoveTyped, LockTyped DEF Typed
  <2> QED BY <2>2, <2>3
<1> QED BY <1>4, <1>5, <1>6, <1>7, <1>8

LEMMA EndsTyped ==
  ASSUME Typed, NEW p \in Proc, Ends(p)
  PROVE  Typed'
<1>1. OpsTyped /\ DataTyped /\ HeldTyped /\ op \in [Proc -> Operation]
  BY DEF Typed, OpsTyped
<1>2. UNCHANGED <<primary, sec, undo>> => DataTyped'
  BY <1>1 DEF DataTyped
<1>3. UNCHANGED held => HeldTyped'
  BY <1>1 DEF HeldTyped, Exclusive
<1>4. ASSUME NEW o, o \in {Idle, [Idle EXCEPT !.at = "undo"]}, op' = [op EXCEPT ![p] = o]
      PROVE  OpsTyped'
  <2>1. o \in Operation /\ o.at \in {"idle", "undo"}
    BY <1>4, IdleTyped DEF Operation
  <2>2. Arguments(o)
    BY <2>1 DEF Arguments, Steps1
  <2> QED BY <1>1, <1>4, <2>1, <2>2, MoveTyped
<1>5. CASE TurnBack(p)
  BY <1>1, <1>2, <1>3, <1>4, <1>5 DEF TurnBack, Typed
<1>6. CASE TimesOut(p)
  <2>1. PICK rc \in {"timed_out", "half_done"} : Finish(p, rc) /\ UNCHANGED <<primary, sec, held, undo>>
    BY <1>6 DEF TimesOut
  <2> QED BY <1>1, <1>2, <1>3, <2>1, FinishTyped DEF Typed
<1>7. CASE Close(p) /\ UNCHANGED <<primary, sec>>
  <2>1. /\ op' = [op EXCEPT ![p] = Idle] /\ undo' = [undo EXCEPT ![p] = <<>>]
        /\ held' \subseteq held
    BY <1>7 DEF Close, Release
  <2>2. <<>> \in Seq(Change)
    BY EmptySeq
  <2>3. DataTyped' /\ HeldTyped'
    BY <1>1, <1>7, <2>1, <2>2 DEF DataTyped, HeldTyped, Exclusive
  <2> QED BY <1>4, <2>1, <2>3 DEF Typed
<1>8. CASE UndoOne(p)
  <2>1. PICK c : c = Last(undo[p])
    OBVIOUS
  <2>2. /\ undo[p] # <<>> /\ undo' = [undo EXCEPT ![p] = Front(@)] /\ UNCHANGED <<held, op>>
        /\ sec' = SecBack(c) /\ primary' = PrimaryBack(c)
    BY <1>8, <2>1 DEF UndoOne
  <2>3. undo[p] \in Seq(Change)
    BY <1>1 DEF DataTyped
  <2>4. c \in Change /\ Front(undo[p]) \in Seq(Change)
    <3>1. PICK L \in Nat \ {0} : L = Len(undo[p]) /\ DOMAIN undo[p] = 1..L
      BY <2>2, <2>3, LenProperties, EmptySeq
    <3>2. \A n \in 1..L : undo[p][n] \in Change
      BY <2>3, <3>1, ElementOfSeq
    <3> QED BY <2>1, <2>3, <3>1, <3>2, SubSeqProperties DEF Front, Last
  <2>5. sec' \in [Index -> SUBSET (SecKey \X Key)]
    <3>1. c.what = "set" \/ (c.i \in Index /\ c.e \in SecKey \X Key)
      BY <2>4 DEF Change
    <3> QED BY <1>1, <2>2, <3>1 DEF SecBack, DataTyped
  <2>6. primary' \in [Key -> Value \cup {Absent}]
    <3>1. c.what # "set" \/ (c.key \in Key /\ c.old \in Value \cup {Absent})
      BY <2>4 DEF Change
    <3> QED BY <1>1, <2>2, <3>1 DEF PrimaryBack, DataTyped
  <2>7. DataTyped'
    BY <1>1, <2>2, <2>4, <2>5, <2>6 DEF DataTyped
  <2>8. OpsTyped'
    BY <1>1, <2>2 DEF OpsTyped
  <2> QED BY <1>3, <2>2, <2>7, <2>8 DEF Typed
<1> QED BY <1>5, <1>6, <1>7, <1>8 DEF Ends, Commit, Abort, Refused, AbortEnds

\* The records and the entries stay what they are declared as, and two threads
\* never hold a page in conflicting modes: the locks a step of __dbc_put,
\* __dbc_del or __dbc_pget waits for.  Whatever the application does.
THEOREM TypeCorrect == Spec => []TypeOK
<1>1. Init => Typed
  <2> SUFFICES ASSUME Init PROVE Typed
    OBVIOUS
  <2>1. OpsTyped
    BY IdleTyped DEF Init, OpsTyped, Arguments, Steps1
  <2>2. <<>> \in Seq(Change)
    BY EmptySeq
  <2> QED BY <2>1, <2>2 DEF Init, Typed, DataTyped, HeldTyped, Exclusive
<1>2. Typed /\ [Next]_vars => Typed'
  <2> SUFFICES ASSUME Typed, [Next]_vars PROVE Typed'
    OBVIOUS
  <2>1. CASE UNCHANGED vars
    BY <2>1 DEF vars, Typed, OpsTyped, DataTyped, HeldTyped, Exclusive
  <2>2. CASE Next
    <3>1. PICK p \in Proc : Begins(p) \/ Steps(p) \/ Ends(p)
      BY <2>2 DEF Next
    <3> QED BY <3>1, BeginsTyped, PutsTyped, OthersTyped, EndsTyped DEF Steps
  <2> QED BY <2>1, <2>2
<1>3. Typed => TypeOK
  BY DEF Typed, DataTyped, HeldTyped, Exclusive, TypeOK
<1> QED BY <1>1, <1>2, <1>3, PTL DEF Spec

-----------------------------------------------------------------------------
(* Deadlocks between first operations. *)

Locks(p) == {l \in held : l[1] = p}
PrimaryLocks(p) == {l \in Locks(p) : l[3][1] = 0}

\* Database::erase( k ) on an index, and the records it still has to delete.
Erasing(o) == o.at \in {"secdel", "getdel", "del", "erase"} /\ o.skey # DoNotIndex
Entered(o) == {k \in Key : <<o.skey, k>> \in sec[o.from]}

\* The order in which a transaction takes the locks of its first operation: the
\* indexes one after the other, then the record; whoever erases by a secondary
\* key takes the records from the smallest on.
FirstLocks(p) ==
    LET o == op[p]
    IN  /\ o.at \in {"idle", "position", "pget"} \/ (o.at = "getdel" /\ o.skey = DoNotIndex)
             => Locks(p) = {}
        /\ o.at = "new" => \A l \in Locks(p) : l[3][1] \in 1..(o.i - 1)
        /\ o.at \in {"get", "data"} => PrimaryLocks(p) = {}
        /\ Erasing(o) =>
             /\ Locks(p) # {} \/ o.at # "secdel" => Writes(p, SecPage(o.from, o.skey))
             /\ \A l \in PrimaryLocks(p) : l[2] = "w" /\ \A k \in Entered(o) : l[3][2] =< k
             /\ o.at \in {"secdel", "getdel"} => o.i = o.from
             /\ o.at = "getdel" => \A k \in Entered(o) : o.key =< k
             /\ o.at = "secdel" /\ Locks(p) # {} => PrimaryLocks(p) # {}

First(p) == op[p].n = 0 => FirstLocks(p)

\* A step of p, seen by the others.
Aside(p) ==
    /\ \A q \in Proc \ {p} : op'[q] = op[q] /\ Locks(q)' = Locks(q)
    /\ \A i \in Index, s \in SecKey, k \in Key :
         ~(<<s, k>> \in sec'[i] <=> <<s, k>> \in sec[i]) =>
             \A q \in Proc \ {p} : ~Writes(q, SecPage(i, s))'

LEMMA AsideKeepsFirst ==
  ASSUME Inv, NEW p \in Proc, Aside(p), NEW q \in Proc, q # p, First(q)
  PROVE  First(q)'
<1>1. op'[q] = op[q] /\ Locks(q)' = Locks(q)
  BY DEF Aside
<1>2. PrimaryLocks(q)' = PrimaryLocks(q) /\ \A page : Writes(q, page)' <=> Writes(q, page)
  BY <1>1 DEF PrimaryLocks, Locks, Writes
<1>3. ASSUME op[q].n = 0 PROVE FirstLocks(q)'
  <2>1. FirstLocks(q)
    BY <1>3 DEF First
  <2>2. CASE Erasing(op[q]) /\ Writes(q, SecPage(op[q].from, op[q].skey))
    <3>1. op[q].skey \in SecKey /\ op[q].from \in Index
      BY <2>2, FieldFacts DEF Erasing
    <3>2. Entered(op[q])' = Entered(op[q])
      BY <1>1, <1>2, <2>2, <3>1 DEF Aside, Entered
    <3> QED BY <1>1, <1>2, <2>1, <3>2 DEF FirstLocks
  <2>3. CASE Erasing(op[q]) /\ ~Writes(q, SecPage(op[q].from, op[q].skey))
    <3>1. Locks(q) = {} /\ op[q].at = "secdel" /\ PrimaryLocks(q) = {}
      BY <2>1, <2>3 DEF FirstLocks, PrimaryLocks
    <3> QED BY <1>1, <1>2, <2>1, <3>1 DEF FirstLocks
  <2>4. CASE ~Erasing(op[q])
    BY <1>1, <1>2, <2>1, <2>4 DEF FirstLocks
  <2> QED BY <2>2, <2>3, <2>4
<1> QED BY <1>1, <1>3 DEF First

\* An operation that is over, turned back or at work on a record it has locked
\* is not spoken of.
LEMMA FreeFirst ==
  ASSUME NEW p \in Proc,
         op'[p].n # 0 \/ op'[p].at \in {"old", "put", "getcur", "cur", "curput", "undo"}
  PROVE  First(p)'
BY DEF First, FirstLocks, Erasing

\* Only entries with the key s0 of index i0 come or go.
ChangesPage(i0, s0) ==
    \A i \in Index, s \in SecKey, k \in Key :
        ~(<<s, k>> \in sec'[i] <=> <<s, k>> \in sec[i]) => i = i0 /\ s = s0

LEMMA EntryPage ==
  ASSUME Inv, NEW p \in Proc, NEW i0 \in Index, NEW s0 \in SecKey, NEW k0 \in Key,
         NEW at, NEW after,
         AddEntry(p, i0, <<s0, k0>>) \/ RemoveEntry(p, i0, <<s0, k0>>)
            \/ RemoveOrBad(p, i0, <<s0, k0>>, at, after)
  PROVE  ChangesPage(i0, s0)
<1>1. \/ sec' = sec
      \/ sec' = [sec EXCEPT ![i0] = @ \cup {<<s0, k0>>}]
      \/ sec' = [sec EXCEPT ![i0] = @ \ {<<s0, k0>>}]
  BY DEF AddEntry, RemoveEntry, RemoveOrBad
<1>2. sec \in [Index -> SUBSET (SecKey \X Key)]
  BY DEF Inv, Types
<1> QED BY <1>1, <1>2 DEF ChangesPage

\* The locks of a step that waits for them.
LEMMA LockLocks ==
  ASSUME Inv, NEW p \in Proc, Lock(p)
  PROVE  /\ Locks(p)' = Locks(p) \cup {<<p, n[1], n[2]>> : n \in Need(p)}
         /\ \A q \in Proc \ {p} : Locks(q)' = Locks(q)
         /\ \A q \in Proc \ {p} : \A page : <<"w", page>> \in Need(p) => ~Writes(q, page)'
<1>1. /\ held' = held \cup {<<p, n[1], n[2]>> : n \in Need(p)}
      /\ \A q \in Proc : ~Blocks(q, p)
  BY DEF Lock
<1>2. ASSUME NEW q \in Proc \ {p}, NEW page, <<"w", page>> \in Need(p), <<q, "w", page>> \in held
      PROVE  FALSE
  <2>1. Blocks(q, p)
    BY <1>2 DEF Blocks
  <2> QED BY <1>1, <2>1
<1>3. \A q \in Proc \ {p} : \A page : <<q, "w", page>> \in held' => <<q, "w", page>> \in held
  BY <1>1
<1> QED BY <1>1, <1>2, <1>3 DEF Locks, Writes

LEMMA LockAside ==
  ASSUME Inv, NEW p \in Proc, NEW o, op' = [op EXCEPT ![p] = o], Lock(p),
         \/ sec' = sec
         \/ \E i \in Index, s \in SecKey : <<"w", SecPage(i, s)>> \in Need(p) /\ ChangesPage(i, s)
  PROVE  Aside(p) /\ op'[p] = o
<1>1. op \in [Proc -> Operation]
  BY DEF Inv, Types
<1>2. ASSUME NEW i \in Index, NEW s \in SecKey, NEW k \in Key,
             ~(<<s, k>> \in sec'[i] <=> <<s, k>> \in sec[i])
      PROVE  \A q \in Proc \ {p} : ~Writes(q, SecPage(i, s))'
  <2>1. <<"w", SecPage(i, s)>> \in Need(p)
    BY <1>2 DEF ChangesPage
  <2> QED BY <2>1, LockLocks
<1> QED BY <1>1, <1>2, LockLocks DEF Aside

\* A step that takes no lock.
LEMMA PlainAside ==
  ASSUME Inv, NEW p \in Proc, NEW o, op' = [op EXCEPT ![p] = o], held' = held, sec' = sec
  PROVE  Aside(p) /\ op'[p] = o /\ Locks(p)' = Locks(p)
BY DEF Inv, Types, Aside, Locks

\* What a step needs of an index.
LEMMA OnlyIndexPages ==
  ASSUME Inv, NEW p \in Proc, Lock(p), op[p].at \in {"new", "pget", "secdel", "del"}
  PROVE  /\ PrimaryLocks(p)' = PrimaryLocks(p)
         /\ \A l \in Locks(p)' \ Locks(p) : l[3][1] = op[p].i
<1>1. \A n \in Need(p) : n[2][1] = op[p].i
  <2>1. \A mode, s : <<mode, SecPage(op[p].i, s)>>[2][1] = op[p].i
    BY DEF SecPage
  <2>2. \/ Need(p) = {} \/ Need(p) = {<<"w", SecPage(op[p].i, NewKey(p))>>}
        \/ Need(p) = {<<"w", SecPage(op[p].i, OldKey(p))>>}
        \/ Need(p) = {<<"r", SecPage(op[p].i, op[p].skey)>>}
        \/ Need(p) = {<<"w", SecPage(op[p].i, op[p].skey)>>}
    BY NeedFacts
  <2> QED BY <2>1, <2>2
<1>2. op[p].i # 0
  BY FieldFacts DEF Index
<1>3. \A l \in Locks(p)' \ Locks(p) : l[3][1] = op[p].i
  BY <1>1, LockLocks
<1>4. Locks(p) \subseteq Locks(p)'
  BY LockLocks
<1> QED BY <1>2, <1>3, <1>4 DEF PrimaryLocks

LEMMA StartFirst ==
  ASSUME Inv, NEW p \in Proc, First(p), NEW o \in Operation, Start(p, o),
         o.at \in {"new", "position", "getdel", "secdel", "pget"},
         o.at = "getdel" => o.skey = DoNotIndex,
         o.at = "secdel" => o.i = o.from
  PROVE  Aside(p) /\ First(p)'
<1>1. PICK o2 : o2 = [o EXCEPT !.n = op[p].n]
  OBVIOUS
<1>2. /\ o2.at = o.at /\ o2.i = o.i /\ o2.skey = o.skey /\ o2.from = o.from
      /\ o2.n = op[p].n
  BY <1>1 DEF Operation
<1>3. op[p].at = "idle" /\ op' = [op EXCEPT ![p] = o2] /\ held' = held /\ sec' = sec
  BY <1>1 DEF Start
<1>4. Aside(p) /\ op'[p] = o2 /\ Locks(p)' = Locks(p)
  BY <1>3, PlainAside
<1>5. ASSUME op'[p].n = 0 PROVE FirstLocks(p)'
  <2>1. Locks(p)' = {} /\ PrimaryLocks(p)' = {}
    BY <1>2, <1>3, <1>4, <1>5 DEF First, FirstLocks, PrimaryLocks
  <2> QED BY <1>2, <1>4, <2>1 DEF FirstLocks, Erasing
<1> QED BY <1>4, <1>5 DEF First

LEMMA BeginsFirst ==
  ASSUME Inv, NEW p \in Proc, First(p), Begins(p)
  PROVE  Aside(p) /\ First(p)'
<1>1. ASSUME NEW k \in Key, NEW v \in Value, Set(p, k, v)
      PROVE  Aside(p) /\ First(p)'
  <2> DEFINE o == [Idle EXCEPT !.at = "new", !.key = k, !.val = v]
  <2>1. o \in Operation /\ o.at = "new"
    BY IdleTyped DEF Idle, Operation, Steps1
  <2>2. Start(p, o)
    BY <1>1 DEF Set
  <2> HIDE DEF o
  <2> QED BY <2>1, <2>2, StartFirst
<1>2. ASSUME NEW k \in Key, NEW v \in Value, SetValue(p, k, v)
      PROVE  Aside(p) /\ First(p)'
  <2> DEFINE o == [Idle EXCEPT !.at = "position", !.key = k, !.val = v]
  <2>1. o \in Operation /\ o.at = "position"
    BY IdleTyped DEF Idle, Operation, Steps1
  <2>2. Start(p, o)
    BY <1>2 DEF SetValue
  <2> HIDE DEF o
  <2> QED BY <2>1, <2>2, StartFirst
<1>3. ASSUME NEW k \in Key, Erase(p, k)
      PROVE  Aside(p) /\ First(p)'
  <2> DEFINE o == [Idle EXCEPT !.at = "getdel", !.key = k]
  <2>1. o \in Operation /\ o.at = "getdel" /\ o.skey = DoNotIndex
    BY IdleTyped DEF Idle, Operation
  <2>2. Start(p, o)
    BY <1>3 DEF Erase
  <2> HIDE DEF o
  <2> QED BY <2>1, <2>2, StartFirst
<1>4. ASSUME NEW i \in Index, NEW s \in SecKey, EraseBySecondary(p, i, s)
      PROVE  Aside(p) /\ First(p)'
  <2> DEFINE o == [Idle EXCEPT !.at = "secdel", !.i = i, !.from = i, !.skey = s]
  <2>1. o \in Operation /\ o.at = "secdel" /\ o.i = o.from
    BY IdleTyped DEF Idle, Operation
  <2>2. Start(p, o)
    BY <1>4 DEF EraseBySecondary
  <2> HIDE DEF o
  <2> QED BY <2>1, <2>2, StartFirst
<1>5. ASSUME NEW i \in Index, NEW s \in SecKey, Pget(p, i, s)
      PROVE  Aside(p) /\ First(p)'
  <2> DEFINE o == [Idle EXCEPT !.at = "pget", !.i = i, !.skey = s]
  <2>1. o \in Operation /\ o.at = "pget"
    BY IdleTyped DEF Idle, Operation
  <2>2. Start(p, o)
    BY <1>5 DEF Pget
  <2> HIDE DEF o
  <2> QED BY <2>1, <2>2, StartFirst
<1> QED BY <1>1, <1>2, <1>3, <1>4, <1>5 DEF Begins

\* An operation that ends is no longer the first one.
LEMMA FinishedFirst ==
  ASSUME Inv, NEW p \in Proc, NEW rc, op' = [op EXCEPT ![p] = Finished(p, rc)]
  PROVE  First(p)'
<1>1. op[p].n \in Nat /\ op \in [Proc -> Operation]
  BY FieldFacts DEF Operation, Inv, Types
<1>2. op'[p] = [Idle EXCEPT !.n = op[p].n + 1, !.rc = rc]
  BY <1>1 DEF Finished
<1>3. op'[p].n = op[p].n + 1
  <2> DEFINE o == [Idle EXCEPT !.n = op[p].n + 1, !.rc = rc]
  <2>1. o.n = op[p].n + 1
    BY DEF Idle
  <2> QED BY <1>2, <2>1
<1> QED BY <1>1, <1>3, FreeFirst

\* A put goes through the indexes in their order.
LEMMA PutNewEntryFirst ==
  ASSUME Inv, NEW p \in Proc, First(p), PutNewEntry(p)
  PROVE  Aside(p) /\ First(p)'
<1>1. PICK o, new : o = op[p] /\ new = NewKey(p) /\ new = Extract[o.i][o.val]
  BY DEF NewKey
<1>2. /\ o.at = "new" /\ Lock(p) /\ NextIndex(p, "new", "get")
      /\ IF new = DoNotIndex THEN sec' = sec ELSE AddEntry(p, o.i, <<new, o.key>>)
  BY <1>1 DEF PutNewEntry
<1>3. o.key \in Key /\ o.val \in Value /\ o.i \in Index
  BY <1>1, <1>2, FieldFacts DEF Steps1
<1>4. PICK o2 \in Operation :
        /\ op' = [op EXCEPT ![p] = o2] /\ o2.n = o.n
        /\ \/ o2.at = "new" /\ o2.i = o.i + 1
           \/ o2.at = "get"
  <2>1. "new" \in Steps1 /\ "get" \in Steps1
    BY DEF Steps1
  <2> QED BY <1>1, <1>2, <2>1, NextIndexFacts
<1>5. Aside(p) /\ op'[p] = o2
  <2>1. CASE new = DoNotIndex
    BY <1>2, <1>4, <2>1, LockAside
  <2>2. CASE new # DoNotIndex
    <3>1. new \in SecKey
      BY <1>1, <1>3, <2>2, IndexAssumption
    <3>2. <<"w", SecPage(o.i, new)>> \in Need(p)
      BY <1>1, <1>2, <2>2, NeedFacts
    <3>3. ChangesPage(o.i, new)
      BY <1>2, <1>3, <2>2, <3>1, EntryPage
    <3> QED BY <1>2, <1>3, <1>4, <3>1, <3>2, <3>3, LockAside
  <2> QED BY <2>1, <2>2
<1>6. PrimaryLocks(p)' = PrimaryLocks(p) /\ \A l \in Locks(p)' \ Locks(p) : l[3][1] = o.i
  BY <1>1, <1>2, OnlyIndexPages
<1>7. ASSUME op'[p].n = 0 PROVE FirstLocks(p)'
  <2>1. \A l \in Locks(p) : l[3][1] \in 1..(o.i - 1)
    BY <1>1, <1>2, <1>4, <1>5, <1>7 DEF First, FirstLocks
  <2>2. \A l \in Locks(p)' : l[3][1] \in 1..o.i
    BY <1>3, <1>6, <2>1 DEF Index
  <2>3. PrimaryLocks(p)' = {}
    BY <1>6, <2>1 DEF PrimaryLocks
  <2>4. o2.i = o.i + 1 => 1..(o2.i - 1) = 1..o.i
    BY <1>3 DEF Index
  <2> QED BY <1>4, <1>5, <2>2, <2>3, <2>4 DEF FirstLocks, Erasing
<1> QED BY <1>5, <1>7 DEF First

\* The steps of an operation after it has locked a record it replaces.
LEMMA FreeSteps ==
  ASSUME Inv, NEW p \in Proc,
         GetOldRecord(p) \/ DeleteOldEntry(p) \/ PutRecord(p) \/ Position(p)
            \/ GetCurrent(p) \/ DeleteCurrentEntry(p) \/ PutCurrentEntry(p) \/ PgetData(p)
  PROVE  Aside(p) /\ First(p)'
<1>0. PICK o : o = op[p]
  OBVIOUS
<1>1. /\ o \in Operation /\ o.i \in Index /\ op \in [Proc -> Operation]
      /\ o.at \in Steps1 => o.key \in Key /\ o.val \in Value
  BY <1>0, FieldFacts DEF Inv, Types
<1>2. /\ OldKey(p) = Extract[o.i][o.old] /\ NewKey(p) = Extract[o.i][o.val]
      /\ o.at \in {"old", "cur"} => o.old \in Value
  BY <1>0 DEF OldKey, NewKey, Inv, Knows
<1>3. /\ o.at \in {"old", "cur"} => OldKey(p) \in SecKey \cup {DoNotIndex}
      /\ o.at \in Steps1 => NewKey(p) \in SecKey \cup {DoNotIndex}
  BY <1>1, <1>2, IndexAssumption
<1>4. CASE GetOldRecord(p)
  <2>1. PICK o2 : op' = [op EXCEPT ![p] = o2] /\ o2.at \in {"put", "old"}
    <3>1. PICK at : at = IF primary[o.key] = Absent THEN "put" ELSE "old"
      OBVIOUS
    <3>2. PICK o2 : o2 = [o EXCEPT !.old = primary[o.key], !.at = at]
      OBVIOUS
    <3>3. op' = [op EXCEPT ![p] = o2]
      BY <1>0, <1>1, <1>4, <3>1, <3>2 DEF GetOldRecord
    <3>4. o2.at = at
      BY <1>1, <3>2 DEF Operation
    <3> QED BY <3>1, <3>3, <3>4
  <2>2. Lock(p) /\ sec' = sec
    BY <1>4 DEF GetOldRecord
  <2> QED BY <2>1, <2>2, LockAside, FreeFirst
<1>5. CASE DeleteOldEntry(p)
  <2>1. /\ o.at = "old" /\ Lock(p) /\ o.at \in Steps1
        /\ IF Replaces(p, FALSE)
           THEN RemoveOrBad(p, o.i, <<OldKey(p), o.key>>, "old", "put")
           ELSE NextIndex(p, "old", "put") /\ sec' = sec
    BY <1>0, <1>5 DEF DeleteOldEntry, Steps1
  <2>2. First(p)' /\ \E o2 : op' = [op EXCEPT ![p] = o2]
    <3>1. CASE NextIndex(p, "old", "put")
      <4>1. \E o2 \in Operation : op' = [op EXCEPT ![p] = o2] /\ o2.at \in {"old", "put"}
        BY <3>1, NextIndexFacts DEF Steps1
      <4> QED BY <1>1, <4>1, FreeFirst
    <3>2. CASE Finish(p, "DB_SECONDARY_BAD")
      BY <3>2, FinishedFirst DEF Finish
    <3> QED BY <2>1, <3>1, <3>2 DEF RemoveOrBad
  <2>3. CASE Replaces(p, FALSE)
    <3>1. OldKey(p) \in SecKey
      BY <1>3, <2>1, <2>3 DEF Replaces
    <3>2. <<"w", SecPage(o.i, OldKey(p))>> \in Need(p)
      BY <1>0, <2>1, <2>3, NeedFacts
    <3>3. ChangesPage(o.i, OldKey(p))
      BY <1>1, <2>1, <2>3, <3>1, EntryPage
    <3> QED BY <1>1, <2>1, <2>2, <3>1, <3>2, <3>3, LockAside
  <2>4. CASE ~Replaces(p, FALSE)
    BY <2>1, <2>2, <2>4, LockAside
  <2> QED BY <2>3, <2>4
<1>6. CASE PutRecord(p)
  <2>1. op' = [op EXCEPT ![p] = Finished(p, "ok")] /\ sec' = sec /\ held' = held
    BY <1>6 DEF PutRecord, Finish
  <2> QED BY <2>1, PlainAside, FinishedFirst
<1>7. CASE Position(p)
  <2>1. Lock(p) /\ sec' = sec
    BY <1>7 DEF Position
  <2>2. CASE op' = [op EXCEPT ![p] = Finished(p, "DB_NOTFOUND")]
    BY <2>1, <2>2, LockAside, FinishedFirst
  <2>3. CASE op' = [op EXCEPT ![p].at = "getcur"]
    <3>1. PICK o2 : /\ o2 = [o EXCEPT !.at = "getcur"] /\ o2.at = "getcur"
                    /\ op' = [op EXCEPT ![p] = o2]
      BY <1>0, <1>1, <2>3 DEF Operation
    <3> QED BY <2>1, <3>1, LockAside, FreeFirst
  <2> QED BY <1>7, <2>2, <2>3 DEF Position, Finish, Goto
<1>8. CASE GetCurrent(p)
  <2>1. PICK o2 : o2 = [o EXCEPT !.old = primary[o.key], !.at = "cur"]
    OBVIOUS
  <2>2. /\ Lock(p) /\ sec' = sec
        /\ op' = [op EXCEPT ![p].old = primary[o.key], ![p].at = "cur"]
    BY <1>0, <1>8 DEF GetCurrent
  <2>3. o2.at = "cur" /\ op' = [op EXCEPT ![p] = o2]
    BY <1>0, <1>1, <2>1, <2>2 DEF Operation
  <2> QED BY <2>2, <2>3, LockAside, FreeFirst
<1>9. CASE DeleteCurrentEntry(p)
  <2>1. o.at = "cur" /\ Lock(p) /\ o.at \in Steps1
    BY <1>0, <1>9 DEF DeleteCurrentEntry, Steps1
  <2>2. /\ \/ NextIndex(p, "cur", "put") \/ Goto(p, "curput") \/ Finish(p, "DB_SECONDARY_BAD")
        /\ \/ sec' = sec
           \/ Replaces(p, TRUE) /\ RemoveEntry(p, o.i, <<OldKey(p), o.key>>)
    <3>1. CASE NewKey(p) \in {DoNotIndex, OldKey(p)}
      <4>1. ~Replaces(p, TRUE)
        BY <3>1 DEF Replaces
      <4> QED BY <1>9, <3>1, <4>1 DEF DeleteCurrentEntry
    <3>2. CASE NewKey(p) \notin {DoNotIndex, OldKey(p)} /\ Replaces(p, TRUE)
      BY <1>0, <1>9, <3>2 DEF DeleteCurrentEntry
    <3>3. CASE NewKey(p) \notin {DoNotIndex, OldKey(p)} /\ ~Replaces(p, TRUE)
      BY <1>0, <1>9, <3>3 DEF DeleteCurrentEntry
    <3> QED BY <3>1, <3>2, <3>3
  <2>3. First(p)' /\ \E o2 : op' = [op EXCEPT ![p] = o2]
    <3>1. CASE NextIndex(p, "cur", "put")
      <4>1. \E o2 \in Operation : op' = [op EXCEPT ![p] = o2] /\ o2.at \in {"cur", "put"}
        BY <3>1, NextIndexFacts DEF Steps1
      <4> QED BY <1>1, <4>1, FreeFirst
    <3>2. CASE Finish(p, "DB_SECONDARY_BAD")
      BY <3>2, FinishedFirst DEF Finish
    <3>3. CASE Goto(p, "curput")
      <4>1. PICK o2 : /\ o2 = [o EXCEPT !.at = "curput"] /\ o2.at = "curput"
                      /\ op' = [op EXCEPT ![p] = o2]
        BY <1>0, <1>1, <3>3 DEF Operation, Goto
      <4> QED BY <1>1, <4>1, FreeFirst
    <3> QED BY <2>2, <3>1, <3>2, <3>3
  <2>4. CASE /\ Replaces(p, TRUE) /\ RemoveEntry(p, o.i, <<OldKey(p), o.key>>)
    <3>1. OldKey(p) \in SecKey
      BY <1>3, <2>1, <2>4 DEF Replaces
    <3>2. <<"w", SecPage(o.i, OldKey(p))>> \in Need(p)
      BY <1>0, <2>1, <2>4, NeedFacts
    <3>3. ChangesPage(o.i, OldKey(p))
      BY <1>1, <2>1, <2>4, <3>1, EntryPage
    <3> QED BY <1>1, <2>1, <2>3, <3>1, <3>2, <3>3, LockAside
  <2>5. CASE sec' = sec
    BY <2>1, <2>3, <2>5, LockAside
  <2> QED BY <2>2, <2>4, <2>5
<1>10. CASE PutCurrentEntry(p)
  <2>1. /\ o.at = "curput" /\ Lock(p) /\ o.at \in Steps1
        /\ AddEntry(p, o.i, <<NewKey(p), o.key>>) /\ NextIndex(p, "cur", "put")
    BY <1>0, <1>10 DEF PutCurrentEntry, Steps1
  <2>2. NewKey(p) # DoNotIndex
    BY <1>0, <1>1, <2>1 DEF Inv, Knows, NewKey
  <2>3. <<"w", SecPage(o.i, NewKey(p))>> \in Need(p)
    BY <1>0, <2>1, <2>2, NeedFacts
  <2>4. NewKey(p) \in SecKey
    BY <1>3, <2>1, <2>2
  <2>5. ChangesPage(o.i, NewKey(p))
    BY <1>1, <2>1, <2>4, EntryPage
  <2>6. \E o2 \in Operation : op' = [op EXCEPT ![p] = o2] /\ o2.at \in {"cur", "put"}
    <3>1. "cur" \in Steps1 \cup {"del", "erase"} /\ "put" \in Steps1 \cup {"del", "erase"}
      BY DEF Steps1
    <3>2. NextIndex(p, "cur", "put")
      BY <2>1
    <3>3. PICK o2 \in Operation : op' = [op EXCEPT ![p] = o2] /\ (o2.at = "cur" \/ o2.at = "put")
      BY <3>1, <3>2, NextIndexFacts
    <3> QED BY <3>3
  <2> QED BY <1>1, <2>1, <2>3, <2>4, <2>5, <2>6, LockAside, FreeFirst
<1>11. CASE PgetData(p)
  <2>1. Lock(p) /\ sec' = sec
    BY <1>11 DEF PgetData
  <2>2. CASE op' = [op EXCEPT ![p] = Finished(p, "DB_SECONDARY_BAD")]
    BY <2>1, <2>2, LockAside, FinishedFirst
  <2>3. CASE op' = [op EXCEPT ![p] = [Finished(p, "ok") EXCEPT !.i = op[p].i,
                                        !.skey = op[p].skey, !.val = primary[op[p].key]]]
    <3>1. PICK o2 : /\ o2 = [Finished(p, "ok") EXCEPT !.i = op[p].i,
                               !.skey = op[p].skey, !.val = primary[op[p].key]]
                    /\ op' = [op EXCEPT ![p] = o2]
      BY <2>3
    <3>2. o2.n = o.n + 1
      BY <1>0, <3>1 DEF Finished, Idle
    <3>3. o.n \in Nat
      BY <1>1 DEF Operation
    <3>4. o2.n # 0
      BY <3>2, <3>3
    <3> QED BY <1>1, <2>1, <3>1, <3>4, LockAside, FreeFirst
  <2> QED BY <1>11, <2>2, <2>3 DEF PgetData, Finish
<1> QED BY <1>4, <1>5, <1>6, <1>7, <1>8, <1>9, <1>10, <1>11

LEMMA LeastKey ==
  ASSUME NEW keys, keys \subseteq Key, keys # {}
  PROVE  Min(keys) \in keys /\ \A k \in keys : Min(keys) =< k
<1>1. keys \subseteq Nat
  BY IndexAssumption
<1>2. \E x \in keys : \A y \in keys : x =< y
  BY <1>1, LeastNat
<1> QED BY <1>2 DEF Min

LEMMA PgetKeyFirst ==
  ASSUME Inv, NEW p \in Proc, First(p), PgetKey(p)
  PROVE  Aside(p) /\ First(p)'
<1>1. PICK o, m : o = op[p] /\ m = Min({k \in Key : <<op[p].skey, k>> \in sec[op[p].i]})
  OBVIOUS
<1>2. /\ o.at = "pget" /\ Lock(p) /\ sec' = sec /\ op \in [Proc -> Operation] /\ o \in Operation
      /\ \/ op' = [op EXCEPT ![p] = Finished(p, "DB_NOTFOUND")]
         \/ op' = [op EXCEPT ![p].at = "data", ![p].key = m]
  BY <1>1 DEF PgetKey, Finish, Inv, Types
<1>3. CASE op' = [op EXCEPT ![p] = Finished(p, "DB_NOTFOUND")]
  BY <1>2, <1>3, LockAside, FinishedFirst
<1>4. CASE op' = [op EXCEPT ![p].at = "data", ![p].key = m]
  <2>1. PICK o2 : o2 = [o EXCEPT !.at = "data", !.key = m]
    OBVIOUS
  <2>2. op' = [op EXCEPT ![p] = o2] /\ o2.at = "data" /\ o2.n = o.n
    BY <1>1, <1>2, <1>4, <2>1 DEF Operation
  <2>3. Aside(p) /\ op'[p] = o2
    BY <1>2, <2>2, LockAside
  <2>4. PrimaryLocks(p)' = PrimaryLocks(p)
    BY <1>1, <1>2, OnlyIndexPages
  <2>5. o.n = 0 => PrimaryLocks(p) = {}
    BY <1>1, <1>2 DEF First, FirstLocks, PrimaryLocks
  <2> QED BY <2>2, <2>3, <2>4, <2>5 DEF First, FirstLocks, Erasing
<1> QED BY <1>2, <1>3, <1>4

\* The record found is the first one that is left: those locked before it come
\* before it.
LEMMA NextToEraseFirst ==
  ASSUME Inv, NEW p \in Proc, First(p), NextToErase(p)
  PROVE  Aside(p) /\ First(p)'
<1>1. PICK o, keys : o = op[p] /\ keys = {k \in Key : <<op[p].skey, k>> \in sec[op[p].i]}
  OBVIOUS
<1>2. /\ o.at = "secdel" /\ Lock(p) /\ sec' = sec
      /\ IF keys # {}
         THEN op' = [op EXCEPT ![p].at = "getdel", ![p].key = Min(keys), ![p].old = Absent]
         ELSE op' = [op EXCEPT ![p] = Finished(p, IF o.key = Absent THEN "DB_NOTFOUND" ELSE "ok")]
  BY <1>1 DEF NextToErase, Finish
<1>3. /\ o \in Operation /\ o.skey \in SecKey /\ o.skey # DoNotIndex /\ o.i \in Index
      /\ op \in [Proc -> Operation]
  BY <1>1, <1>2, FieldFacts, IndexAssumption DEF Inv, Types
<1>4. CASE keys = {}
  BY <1>2, <1>4, LockAside, FinishedFirst
<1>5. CASE keys # {}
  <2>1. PICK m : m = Min(keys) /\ m \in keys /\ \A k \in keys : m =< k
    BY <1>1, <1>5, LeastKey
  <2>2. PICK o2 : o2 = [o EXCEPT !.at = "getdel", !.key = m, !.old = Absent]
    OBVIOUS
  <2>3. /\ op' = [op EXCEPT ![p] = o2] /\ o2.at = "getdel" /\ o2.key = m /\ o2.n = o.n
        /\ o2.skey = o.skey /\ o2.i = o.i /\ o2.from = o.from
    BY <1>1, <1>2, <1>3, <1>5, <2>1, <2>2 DEF Operation
  <2>4. Aside(p) /\ op'[p] = o2
    BY <1>2, <2>3, LockAside
  <2>5. ASSUME o.n = 0 PROVE FirstLocks(p)'
    <3>1. FirstLocks(p) /\ Erasing(o) /\ o.i = o.from
      BY <1>1, <1>2, <1>3, <2>5 DEF First, FirstLocks, Erasing
    <3>2. PrimaryLocks(p)' = PrimaryLocks(p)
      BY <1>1, <1>2, OnlyIndexPages
    <3>3. Entered(o2)' = keys /\ Entered(o) = keys
      BY <1>1, <1>2, <2>3, <3>1 DEF Entered
    <3>4. Writes(p, SecPage(o2.from, o2.skey))'
      <4>1. <<"w", SecPage(o.i, o.skey)>> \in Need(p)
        BY <1>1, <1>2, NeedFacts
      <4> QED BY <1>2, <2>3, <3>1, <4>1, LockLocks DEF Locks, Writes
    <3>5. \A l \in PrimaryLocks(p) : l[2] = "w" /\ \A k \in keys : l[3][2] =< k
      BY <1>1, <3>1, <3>3 DEF FirstLocks
    <3> QED BY <1>3, <2>1, <2>3, <2>4, <3>1, <3>2, <3>3, <3>4, <3>5 DEF FirstLocks
  <2> QED BY <2>3, <2>4, <2>5 DEF First
<1> QED BY <1>4, <1>5

LEMMA GetToEraseFirst ==
  ASSUME Inv, NEW p \in Proc, First(p), GetToErase(p)
  PROVE  Aside(p) /\ First(p)'
<1>1. PICK o, old : o = op[p] /\ old = primary[op[p].key]
  OBVIOUS
<1>2. /\ o.at = "getdel" /\ Lock(p) /\ sec' = sec
      /\ IF old # Absent
         THEN op' = [op EXCEPT ![p].at = "del", ![p].old = old, ![p].i = 1]
         ELSE op' = [op EXCEPT ![p] =
                 Finished(p, IF o.skey = DoNotIndex THEN "DB_NOTFOUND" ELSE "DB_SECONDARY_BAD")]
  BY <1>1 DEF GetToErase, Finish
<1>3. o \in Operation /\ op \in [Proc -> Operation]
  BY <1>1, FieldFacts DEF Inv, Types
<1>4. CASE old = Absent
  BY <1>2, <1>4, LockAside, FinishedFirst
<1>5. CASE old # Absent
  <2>1. PICK o2 : o2 = [o EXCEPT !.at = "del", !.old = old, !.i = 1]
    OBVIOUS
  <2>2. /\ op' = [op EXCEPT ![p] = o2] /\ o2.at = "del" /\ o2.key = o.key /\ o2.n = o.n
        /\ o2.skey = o.skey /\ o2.from = o.from
    BY <1>1, <1>2, <1>3, <1>5, <2>1 DEF Operation
  <2>3. Aside(p) /\ op'[p] = o2
    BY <1>2, <2>2, LockAside
  <2>4. ASSUME o.n = 0, Erasing(o) PROVE FirstLocks(p)'
    <3>1. FirstLocks(p)
      BY <1>1, <2>4 DEF First
    <3>2. Locks(p)' = Locks(p) \cup {<<p, "w", PrimaryPage(o.key)>>}
      <4>1. Need(p) = {<<"w", PrimaryPage(o.key)>>}
        BY <1>1, <1>2, NeedFacts
      <4>2. \A page : {<<p, n[1], n[2]>> : n \in {<<"w", page>>}} = {<<p, "w", page>>}
        OBVIOUS
      <4>3. Locks(p)' = Locks(p) \cup {<<p, n[1], n[2]>> : n \in Need(p)}
        BY <1>2, LockLocks
      <4> QED BY <4>1, <4>2, <4>3
    <3>3. Entered(o2)' = Entered(o)
      BY <1>2, <2>2 DEF Entered
    <3>4. \A l \in PrimaryLocks(p)' : l[2] = "w" /\ \A k \in Entered(o) : l[3][2] =< k
      BY <1>1, <1>2, <2>4, <3>1, <3>2 DEF FirstLocks, PrimaryLocks, PrimaryPage
    <3>5. Writes(p, SecPage(o.from, o.skey))'
      BY <1>1, <1>2, <2>4, <3>1, <3>2 DEF FirstLocks, Writes, Locks
    <3> QED BY <2>2, <2>3, <3>3, <3>4, <3>5 DEF FirstLocks
  <2> QED BY <1>2, <2>2, <2>3, <2>4 DEF First, FirstLocks, Erasing
<1> QED BY <1>4, <1>5

LEMMA DeleteEntryFirst ==
  ASSUME Inv, NEW p \in Proc, First(p), DeleteEntry(p)
  PROVE  Aside(p) /\ First(p)'
<1>1. PICK o, s : o = op[p] /\ s = OldKey(p) /\ s = Extract[o.i][o.old]
  BY DEF OldKey
<1>2. /\ o.at = "del" /\ Lock(p)
      /\ IF s = DoNotIndex THEN NextIndex(p, "del", "erase") /\ sec' = sec
         ELSE RemoveOrBad(p, o.i, <<s, o.key>>, "del", "erase")
  BY <1>1 DEF DeleteEntry
<1>3. /\ o \in Operation /\ op \in [Proc -> Operation] /\ o.key \in Key /\ o.i \in Index
      /\ o.old \in Value /\ s \in SecKey \cup {DoNotIndex}
  <2>1. o.old \in Value /\ o.i \in Index
    BY <1>1, <1>2, FieldFacts DEF Inv, Knows
  <2> QED BY <1>1, <1>2, <2>1, FieldFacts, IndexAssumption DEF Inv, Types
<1>4. Aside(p)
  <2>1. \E o2 : op' = [op EXCEPT ![p] = o2]
    <3>1. NextIndex(p, "del", "erase") \/ Finish(p, "DB_SECONDARY_BAD")
      BY <1>2 DEF RemoveOrBad
    <3>2. CASE NextIndex(p, "del", "erase")
      BY <3>2, NextIndexFacts
    <3>3. CASE Finish(p, "DB_SECONDARY_BAD")
      BY <3>3 DEF Finish
    <3> QED BY <3>1, <3>2, <3>3
  <2>2. CASE s = DoNotIndex
    BY <1>2, <2>1, <2>2, LockAside
  <2>3. CASE s # DoNotIndex
    <3>1. <<"w", SecPage(o.i, s)>> \in Need(p) /\ s \in SecKey
      BY <1>1, <1>2, <1>3, <2>3, NeedFacts
    <3>2. ChangesPage(o.i, s)
      BY <1>2, <1>3, <2>3, <3>1, EntryPage
    <3> QED BY <1>2, <1>3, <2>1, <3>1, <3>2, LockAside
  <2> QED BY <2>2, <2>3
<1>5. CASE Finish(p, "DB_SECONDARY_BAD")
  BY <1>4, <1>5, FinishedFirst DEF Finish
<1>6. CASE NextIndex(p, "del", "erase")
  <2>1. PICK o2 \in Operation :
          /\ op' = [op EXCEPT ![p] = o2] /\ o2.at \in {"del", "erase"} /\ o2.n = o.n
          /\ o2.skey = o.skey /\ o2.from = o.from
    BY <1>1, <1>6, NextIndexFacts
  <2>2. op'[p] = o2
    BY <1>3, <2>1
  <2>3. ASSUME o.n = 0, Erasing(o) PROVE FirstLocks(p)'
    <3>1. FirstLocks(p)
      BY <1>1, <2>3 DEF First
    <3>2. PrimaryLocks(p)' = PrimaryLocks(p) /\ Locks(p) \subseteq Locks(p)'
      BY <1>1, <1>2, OnlyIndexPages, LockLocks
    <3>3. \A i \in Index : sec'[i] \subseteq sec[i]
      BY <1>2, <1>3 DEF RemoveOrBad, RemoveEntry, Inv, Types
    <3>4. Entered(o2)' \subseteq Entered(o)
      BY <1>3, <2>1, <3>3 DEF Entered, Operation
    <3>5. Writes(p, SecPage(o.from, o.skey))'
      BY <1>1, <1>2, <2>3, <3>1, <3>2 DEF FirstLocks, Writes, Locks
    <3>6. \A l \in PrimaryLocks(p) : l[2] = "w" /\ \A k \in Entered(o) : l[3][2] =< k
      BY <1>1, <2>3, <3>1 DEF FirstLocks
    <3> QED BY <2>1, <2>2, <3>2, <3>4, <3>5, <3>6 DEF FirstLocks
  <2> QED BY <1>2, <1>4, <2>1, <2>2, <2>3 DEF First, FirstLocks, Erasing
<1> QED BY <1>2, <1>5, <1>6 DEF RemoveOrBad

LEMMA EraseRecordFirst ==
  ASSUME Inv, NEW p \in Proc, First(p), EraseRecord(p)
  PROVE  Aside(p) /\ First(p)'
<1>1. PICK o : o = op[p]
  OBVIOUS
<1>2. /\ o.at = "erase" /\ held' = held /\ sec' = sec /\ o \in Operation
      /\ op \in [Proc -> Operation] /\ Writes(p, PrimaryPage(o.key))
      /\ IF o.skey = DoNotIndex THEN op' = [op EXCEPT ![p] = Finished(p, "ok")]
         ELSE op' = [op EXCEPT ![p].at = "secdel", ![p].i = o.from]
  BY <1>1 DEF EraseRecord, Finish, Inv, Types, Knows
<1>3. CASE o.skey = DoNotIndex
  BY <1>2, <1>3, PlainAside, FinishedFirst
<1>4. CASE o.skey # DoNotIndex
  <2>1. PICK o2 : o2 = [o EXCEPT !.at = "secdel", !.i = o.from]
    OBVIOUS
  <2>2. /\ op' = [op EXCEPT ![p] = o2] /\ o2.at = "secdel" /\ o2.n = o.n
        /\ o2.skey = o.skey /\ o2.from = o.from /\ o2.i = o2.from
    BY <1>1, <1>2, <1>4, <2>1 DEF Operation
  <2>3. Aside(p) /\ op'[p] = o2 /\ Locks(p)' = Locks(p)
    BY <1>2, <2>2, PlainAside
  <2>4. PrimaryLocks(p)' = PrimaryLocks(p) /\ PrimaryLocks(p) # {}
    BY <1>2, <2>3 DEF PrimaryLocks, Locks, Writes, PrimaryPage
  <2>5. Entered(o2)' = Entered(o)
    BY <1>2, <2>2 DEF Entered
  <2>6. o.n = 0 => FirstLocks(p) /\ Erasing(o)
    BY <1>1, <1>2, <1>4 DEF First, Erasing
  <2> QED BY <1>1, <1>2, <2>2, <2>3, <2>4, <2>5, <2>6 DEF First, FirstLocks, Erasing, Writes
<1> QED BY <1>3, <1>4

\* An abort gives back entries of pages its transaction has locked.
LEMMA EndsFirst ==
  ASSUME Inv, NEW p \in Proc, First(p), Ends(p)
  PROVE  Aside(p) /\ First(p)'
<1>1. ASSUME TurnBack(p) PROVE Aside(p) /\ First(p)'
  <2>1. PICK o2 : o2 = [Idle EXCEPT !.at = "undo"]
    OBVIOUS
  <2>2. op' = [op EXCEPT ![p] = o2] /\ o2.at = "undo" /\ held' = held /\ sec' = sec
    BY <1>1, <2>1 DEF TurnBack, Idle
  <2> QED BY <2>2, PlainAside, FreeFirst
<1>2. ASSUME Close(p), sec' = sec PROVE Aside(p) /\ First(p)'
  <2>1. /\ op' = [op EXCEPT ![p] = Idle] /\ op \in [Proc -> Operation]
        /\ held' = {l \in held : l[1] # p}
    BY <1>2 DEF Close, Release, Inv, Types
  <2>2. op'[p] = Idle /\ Locks(p)' = {}
    BY <2>1 DEF Locks
  <2>3. Aside(p)
    BY <1>2, <2>1 DEF Aside, Locks
  <2>4. First(p)'
    BY <2>2, IdleTyped DEF First, FirstLocks, Erasing
  <2> QED BY <2>3, <2>4
<1>3. ASSUME UndoOne(p) PROVE Aside(p) /\ First(p)'
  <2>1. /\ op[p].at = "undo" /\ op' = op /\ held' = held
        /\ \A i \in Index, s \in SecKey, k \in Key :
             ~(<<s, k>> \in sec'[i] <=> <<s, k>> \in sec[i]) => Writes(p, SecPage(i, s))'
        /\ Exclusive'
    BY <1>3, UndoKeeps DEF UndoOne, Keeps
  <2>2. \A page : Writes(p, page)' => \A q \in Proc \ {p} : ~Writes(q, page)'
    BY <2>1 DEF Exclusive, Writes
  <2> QED BY <2>1, <2>2, FreeFirst DEF Aside, Locks
<1>4. ASSUME TimesOut(p) PROVE Aside(p) /\ First(p)'
  <2>1. PICK rc \in {"timed_out", "half_done"} :
          op' = [op EXCEPT ![p] = Finished(p, rc)] /\ held' = held /\ sec' = sec
    BY <1>4 DEF TimesOut, Finish
  <2> QED BY <2>1, PlainAside, FinishedFirst
<1> QED BY <1>1, <1>2, <1>3, <1>4 DEF Ends, Commit, Abort, Refused, AbortEnds

FirstInv == \A p \in Proc : First(p)

LEMMA NextFirst ==
  ASSUME Inv, FirstInv, [Next]_vars
  PROVE  FirstInv'
<1>1. ASSUME NEW p \in Proc, Begins(p) \/ Steps(p) \/ Ends(p)
      PROVE  FirstInv'
  <2>1. First(p)
    BY DEF FirstInv
  <2>2. Steps(p) => Aside(p) /\ First(p)'
    BY <2>1, FreeSteps, PutNewEntryFirst, NextToEraseFirst, GetToEraseFirst, DeleteEntryFirst,
       EraseRecordFirst, PgetKeyFirst DEF Steps
  <2>3. Aside(p) /\ First(p)'
    BY <1>1, <2>1, <2>2, BeginsFirst, EndsFirst
  <2>4. \A q \in Proc : q # p => First(q)'
    BY <2>3, AsideKeepsFirst DEF FirstInv
  <2> QED BY <2>3, <2>4 DEF FirstInv
<1>2. ASSUME UNCHANGED vars PROVE FirstInv'
  <2>1. sec' = sec /\ held' = held /\ op' = op
    BY <1>2 DEF vars
  <2> QED BY <2>1
          DEF FirstInv, First, FirstLocks, Locks, PrimaryLocks, Writes, Entered, Erasing
<1> QED BY <1>1, <1>2 DEF Next

LEMMA FirstInvariance == Spec => [](spoilt \/ (Inv /\ FirstInv))
<1>1. Init => FirstInv
  <2> SUFFICES ASSUME Init, NEW p \in Proc PROVE First(p)
    BY DEF FirstInv
  <2>1. op[p] = Idle /\ Locks(p) = {}
    BY DEF Init, Locks
  <2> QED BY <2>1, IdleTyped DEF First, FirstLocks, Erasing
<1>2. ~spoilt' /\ [Next]_vars => ~spoilt
  BY DEF Next, vars
<1>3. (spoilt \/ Inv) /\ (spoilt \/ (Inv /\ FirstInv)) /\ (spoilt \/ Inv)' /\ [Next]_vars
        => (spoilt \/ (Inv /\ FirstInv))'
  BY <1>2, NextFirst
<1>4. Init => Inv
  BY InitInv
<1> QED BY <1>1, <1>3, <1>4, Invariance, PTL DEF Spec

-----------------------------------------------------------------------------
(* Circles. *)

\* q replaces or deletes a record it has locked.
Replacer(q) ==
    /\ op[q].at \in {"old", "cur", "curput", "del", "secdel", "getcur"}
    /\ \E l \in held : l[1] = q /\ l[3][1] = 0

\* Where q is in the order of the locks: at an index, or past them all at a
\* record, the records in the order of their keys.
Rank(q) == IF op[q].at = "new" THEN op[q].i ELSE Indexes + 1 + op[q].key

\* Who waits and is waited for, in its first operation.
Stuck(q) == op[q].n = 0 /\ Locks(q) # {} /\ \E r \in Proc : Blocks(r, q)

LEMMA StuckFacts ==
  ASSUME Inv, FirstInv, NEW q \in Proc, Stuck(q), ~Replacer(q)
  PROVE  /\ op[q].at \in {"new", "get", "getdel", "data"}
         /\ op[q].i \in Index /\ op[q].key \in Key /\ Rank(q) \in Nat
         /\ FirstLocks(q)
         /\ op[q].at = "getdel" => Erasing(op[q])
<1>1. op[q].n = 0 /\ Locks(q) # {} /\ FirstLocks(q) /\ Knows(q) /\ Need(q) # {}
  BY DEF Stuck, FirstInv, First, Inv, Blocks
<1>2. op[q].at \in {"new", "get", "getcur", "getdel", "position", "data", "curput", "old",
                    "cur", "del", "pget", "secdel"}
  BY <1>1 DEF Need, NeedOfPrimary, NeedOfIndex
<1>3. op[q].at \notin {"old", "cur", "curput", "del"}
  BY <1>1 DEF Replacer, Knows, Writes, PrimaryPage
<1>4. op[q].at # "getcur"
  BY <1>1 DEF Replacer, Knows, Writes, Reads, PrimaryPage
<1>5. op[q].at \notin {"position", "pget"}
  BY <1>1 DEF FirstLocks
<1>6. op[q].at # "secdel"
  <2> SUFFICES ASSUME op[q].at = "secdel" PROVE FALSE
    OBVIOUS
  <2>1. Erasing(op[q])
    BY FieldFacts, IndexAssumption DEF Erasing
  <2>2. PrimaryLocks(q) # {}
    BY <1>1, <2>1 DEF FirstLocks
  <2> QED BY <2>2 DEF Replacer, PrimaryLocks, Locks
<1>7. op[q].at = "getdel" => Erasing(op[q])
  BY <1>1 DEF FirstLocks, Erasing
<1>8. op[q].at \in {"new", "get", "getdel", "data"}
  BY <1>2, <1>3, <1>4, <1>5, <1>6
<1>9. op[q].i \in Index /\ op[q].key \in Key
  BY <1>8, FieldFacts DEF Steps1
<1>10. Rank(q) \in Nat
  <2>1. Key \subseteq Nat /\ Indexes \in Nat
    BY IndexAssumption
  <2>2. op[q].key \in Nat
    BY <1>9, <2>1
  <2>3. op[q].i \in Nat
    BY <1>9 DEF Index
  <2> QED BY <2>1, <2>2, <2>3 DEF Rank
<1> QED BY <1>1, <1>7, <1>8, <1>9, <1>10

\* A thread waits only for threads further on in that order.
LEMMA RankGrows ==
  ASSUME Inv, FirstInv, NEW q \in Proc, NEW r \in Proc, Blocks(r, q),
         Stuck(q), ~Replacer(q), Stuck(r), ~Replacer(r)
  PROVE  Rank(q) < Rank(r)
<1>1. /\ op[q].at \in {"new", "get", "getdel", "data"} /\ op[q].i \in Index
      /\ op[q].key \in Key
      /\ op[r].at \in {"new", "get", "getdel", "data"} /\ op[r].i \in Index
      /\ op[r].key \in Key /\ FirstLocks(r)
      /\ op[r].at = "getdel" => Erasing(op[r])
  BY StuckFacts
<1>2. op[q].key \in Nat /\ op[r].key \in Nat /\ op[q].i \in 1..Indexes /\ op[r].i \in 1..Indexes
  BY <1>1, IndexAssumption DEF Index
<1>3. PICK l \in held, n \in Need(q) : l[1] = r /\ l[3] = n[2]
  BY DEF Blocks
<1>4. CASE op[q].at = "new"
  <2>1. l[3][1] = op[q].i
    <3>1. Need(q) = {} \/ Need(q) = {<<"w", SecPage(op[q].i, NewKey(q))>>}
      BY <1>4, NeedFacts
    <3>2. n[2] = SecPage(op[q].i, NewKey(q))
      BY <1>3, <3>1
    <3> QED BY <1>3, <3>2 DEF SecPage
  <2>2. op[r].at = "new" => op[q].i < op[r].i
    BY <1>1, <1>2, <1>3, <2>1 DEF FirstLocks, Locks
  <2> QED BY <1>1, <1>2, <1>4, <2>2, IndexAssumption DEF Rank
<1>5. CASE op[q].at # "new"
  <2>1. n[2] = PrimaryPage(op[q].key)
    <3>1. \/ Need(q) = {<<"w", PrimaryPage(op[q].key)>>}
          \/ Need(q) = {<<"r", PrimaryPage(op[q].key)>>}
      BY <1>1, <1>5, NeedFacts
    <3> QED BY <1>3, <3>1
  <2>2. l \in PrimaryLocks(r) /\ l[3][2] = op[q].key
    BY <1>3, <2>1 DEF PrimaryLocks, Locks, PrimaryPage
  <2>3. op[r].at = "getdel"
    BY <1>1, <2>2 DEF FirstLocks, PrimaryLocks
  <2>4. /\ l[2] = "w" /\ \A k \in Entered(op[r]) : op[q].key =< k
        /\ op[r].i = op[r].from
    BY <1>1, <2>2, <2>3 DEF FirstLocks
  <2>5. op[r].key \in Entered(op[r])
    BY <1>1, <2>3, <2>4 DEF Entered, Inv, Knows, Erasing
  <2>6. op[q].key # op[r].key
    <3> SUFFICES ASSUME op[q].key = op[r].key PROVE FALSE
      OBVIOUS
    <3>1. Need(r) = {<<"w", PrimaryPage(op[r].key)>>}
      BY <2>3, NeedFacts
    <3>2. PICK s \in Proc, m \in held : s # r /\ m[1] = s /\ m[3] = PrimaryPage(op[r].key)
      BY <3>1 DEF Stuck, Blocks
    <3> QED BY <1>3, <2>1, <2>4, <3>2 DEF Inv, Exclusive
  <2> QED BY <1>1, <1>2, <1>5, <2>3, <2>4, <2>5, <2>6, IndexAssumption DEF Rank
<1> QED BY <1>4, <1>5

\* Whom p waits for, and whom they wait for, and so on: g[n] after n + 1 steps.
Reaches(g, p) ==
    /\ g \in [0..Cardinality(Proc) -> SUBSET Proc]
    /\ g[0] = {q \in Proc : Blocks(q, p)}
    /\ \A n \in 1..Cardinality(Proc) :
         g[n] = g[n - 1] \cup {q \in Proc : \E r \in g[n - 1] : Blocks(q, r)}

Reach(p) == CHOOSE g : Reaches(g, p)

LEMMA ProcIsCounted == Cardinality(Proc) \in Nat
  BY IndexAssumption, FS_CardinalityType

\* The function of InCircle.
LEMMA CircleIs ==
  ASSUME NEW p \in Proc
  PROVE  Reaches(Reach(p), p) /\ (InCircle(p) <=> p \in Reach(p)[Cardinality(Proc)])
<1>1. PICK N \in Nat : N = Cardinality(Proc)
  BY ProcIsCounted
<1>2. PICK V : V = SUBSET Proc
  OBVIOUS
<1>3. PICK base \in V : base = {q \in Proc : Blocks(q, p)}
  BY <1>2
<1>4. PICK more : more = [S \in V |-> S \cup {q \in Proc : \E r \in S : Blocks(q, r)}]
  OBVIOUS
<1>5. more \in [V -> V]
  BY <1>2, <1>4
<1>6. PICK step : step = [n \in 1..N |-> more]
  OBVIOUS
<1>7. CountStep(N, V, base, step)
  BY <1>5, <1>6 DEF CountStep
<1>8. PICK f : ByCount(f, N, V, base, step)
  BY <1>7, CountRecursion
<1>9. ASSUME NEW n \in 0..N
      PROVE  f[n] = IF n = 0 THEN {q \in Proc : Blocks(q, p)}
                    ELSE f[n - 1] \cup {q \in Proc : \E r \in f[n - 1] : Blocks(q, r)}
  <2>1. CASE n = 0
    BY <1>3, <1>8, <2>1 DEF ByCount
  <2>2. CASE n # 0
    <3>1. n \in 1..N /\ n - 1 \in 0..N
      BY <2>2
    <3>2. f[n - 1] \in V /\ f[n] = step[n][f[n - 1]]
      BY <1>8, <2>2, <3>1 DEF ByCount
    <3>3. step[n] = more
      BY <1>6, <3>1
    <3> QED BY <1>4, <2>2, <3>2, <3>3
  <2> QED BY <2>1, <2>2
<1>10. f = [n \in 0..N |-> f[n]]
  BY <1>8 DEF ByCount
<1>11. f = [n \in 0..N |-> IF n = 0 THEN {q \in Proc : Blocks(q, p)}
                           ELSE f[n - 1] \cup {q \in Proc : \E r \in f[n - 1] : Blocks(q, r)}]
  BY <1>9, <1>10
<1>12. f \in [0..N -> SUBSET Proc]
  BY <1>2, <1>8 DEF ByCount
<1>13. ASSUME NEW g, Reaches(g, p) PROVE g = f
  <2>1. g \in [0..N -> SUBSET Proc] /\ g[0] = f[0]
    <3>1. 0 \in 0..N
      OBVIOUS
    <3>2. f[0] = {q \in Proc : Blocks(q, p)}
      BY <1>9, <3>1
    <3> QED BY <1>1, <1>13, <3>2 DEF Reaches
  <2> DEFINE S == {n \in Nat : n =< N => g[n] = f[n]}
  <2>2. 0 \in S
    BY <2>1
  <2>3. ASSUME NEW n \in Nat, n \in S PROVE n + 1 \in S
    <3> SUFFICES ASSUME n + 1 =< N PROVE g[n + 1] = f[n + 1]
      OBVIOUS
    <3>1. g[n] = f[n] /\ n + 1 \in 1..N /\ n + 1 \in 0..N /\ n + 1 # 0 /\ (n + 1) - 1 = n
      BY <2>3
    <3>2. g[n + 1] = g[n] \cup {q \in Proc : \E r \in g[n] : Blocks(q, r)}
      BY <1>1, <1>13, <3>1 DEF Reaches
    <3>3. f[n + 1] = f[n] \cup {q \in Proc : \E r \in f[n] : Blocks(q, r)}
      BY <1>9, <3>1
    <3> QED BY <3>1, <3>2, <3>3
  <2> HIDE DEF S
  <2>4. Nat \subseteq S
    BY <2>2, <2>3, SetInduction
  <2>5. \A n \in 0..N : g[n] = f[n]
    BY <2>4 DEF S
  <2> QED BY <1>12, <2>1, <2>5
<1>14. Reaches(f, p)
  <2>1. 0 \in 0..N /\ \A n \in 1..N : n \in 0..N /\ n # 0
    OBVIOUS
  <2> QED BY <1>1, <1>9, <1>12, <2>1 DEF Reaches
<1>15. Reach(p) = f /\ Reaches(Reach(p), p)
  BY <1>13, <1>14 DEF Reach
<1> DEFINE G(g) == [n \in 0..N |-> IF n = 0 THEN {q \in Proc : Blocks(q, p)}
                        ELSE g[n - 1] \cup {q \in Proc : \E r \in g[n - 1] : Blocks(q, r)}]
           c == CHOOSE g : g = G(g)
<1>16. InCircle(p) <=> p \in c[N]
  BY <1>1 DEF InCircle
<1>17. c = G(c)
  BY <1>11
<1>18. Reaches(c, p)
  <2>1. ASSUME NEW n \in 0..N
        PROVE  c[n] = IF n = 0 THEN {q \in Proc : Blocks(q, p)}
                      ELSE c[n - 1] \cup {q \in Proc : \E r \in c[n - 1] : Blocks(q, r)}
    BY <1>17
  <2>2. DOMAIN c = 0..N /\ c = [n \in 0..N |-> c[n]]
    BY <1>17
  <2> HIDE DEF c
  <2> DEFINE S == {n \in Nat : n =< N => c[n] \in SUBSET Proc}
  <2>3. 0 \in S
    <3>1. 0 \in 0..N
      OBVIOUS
    <3>2. c[0] = {q \in Proc : Blocks(q, p)}
      BY <2>1, <3>1
    <3> QED BY <3>2
  <2>4. ASSUME NEW n \in Nat, n \in S PROVE n + 1 \in S
    <3> SUFFICES ASSUME n + 1 =< N PROVE c[n + 1] \in SUBSET Proc
      OBVIOUS
    <3>1. c[n] \in SUBSET Proc /\ n + 1 \in 0..N /\ n + 1 # 0 /\ (n + 1) - 1 = n
      BY <2>4
    <3> QED BY <2>1, <3>1
  <2> HIDE DEF S
  <2>5. Nat \subseteq S
    BY <2>3, <2>4, SetInduction
  <2>6. \A n \in 0..N : c[n] \in SUBSET Proc
    BY <2>5 DEF S
  <2>7. c \in [0..N -> SUBSET Proc]
    BY <2>2, <2>6
  <2>8. 0 \in 0..N /\ \A n \in 1..N : n \in 0..N /\ n # 0
    OBVIOUS
  <2> QED BY <1>1, <2>1, <2>7, <2>8 DEF Reaches
<1>19. c = f
  BY <1>13, <1>18
<1> QED BY <1>1, <1>15, <1>16, <1>19
\* A way that reaches q in n + 1 steps begins with one, to somebody who reaches
\* q in the others.
LEMMA ReachByTheFirst ==
  ASSUME NEW n \in Nat
  PROVE  \A p \in Proc : \A q \in Proc :
            n + 1 =< Cardinality(Proc) /\ q \in Reach(p)[n + 1]
              => \/ Blocks(q, p)
                 \/ \E r \in Proc : Blocks(r, p) /\ q \in Reach(r)[n]
<1>1. PICK N \in Nat : N = Cardinality(Proc)
  BY ProcIsCounted
<1>2. ASSUME NEW p \in Proc, NEW m \in Nat, m + 1 =< N
      PROVE  /\ Reach(p)[m + 1] = Reach(p)[m] \cup {q \in Proc : \E r \in Reach(p)[m] : Blocks(q, r)}
             /\ Reach(p)[m] \subseteq Proc
  <2>1. m + 1 \in 1..N /\ (m + 1) - 1 = m /\ m \in 0..N
    BY <1>2
  <2> QED BY <1>1, <2>1, CircleIs DEF Reaches
<1>3. ASSUME NEW p \in Proc, NEW q \in Proc
      PROVE  q \in Reach(p)[0] <=> Blocks(q, p)
  BY CircleIs DEF Reaches
<1> DEFINE S == {m \in Nat : \A p \in Proc : \A q \in Proc :
                    m + 1 =< N /\ q \in Reach(p)[m + 1]
                      => Blocks(q, p) \/ \E r \in Proc : Blocks(r, p) /\ q \in Reach(r)[m]}
<1>4. 0 \in S
  <2> SUFFICES ASSUME NEW p \in Proc, NEW q \in Proc, 1 =< N, q \in Reach(p)[1]
               PROVE  Blocks(q, p) \/ \E r \in Proc : Blocks(r, p) /\ q \in Reach(r)[0]
    OBVIOUS
  <2>1. /\ Reach(p)[1] = Reach(p)[0] \cup {s \in Proc : \E r \in Reach(p)[0] : Blocks(s, r)}
        /\ Reach(p)[0] \subseteq Proc
    BY <1>2
  <2> QED BY <1>3, <2>1
<1>5. ASSUME NEW m \in Nat, m \in S PROVE m + 1 \in S
  <2> SUFFICES ASSUME NEW p \in Proc, NEW q \in Proc, (m + 1) + 1 =< N, q \in Reach(p)[(m + 1) + 1]
               PROVE  Blocks(q, p) \/ \E r \in Proc : Blocks(r, p) /\ q \in Reach(r)[m + 1]
    OBVIOUS
  <2>1. m + 1 \in Nat /\ m + 1 =< N
    OBVIOUS
  <2>2. CASE q \in Reach(p)[m + 1]
    <3>1. CASE Blocks(q, p)
      BY <3>1
    <3>2. CASE \E r \in Proc : Blocks(r, p) /\ q \in Reach(r)[m]
      BY <1>2, <2>1, <3>2
    <3> QED BY <1>5, <2>1, <2>2, <3>1, <3>2
  <2>3. CASE q \notin Reach(p)[m + 1]
    <3>1. PICK s \in Reach(p)[m + 1] : s \in Proc /\ Blocks(q, s)
      BY <1>2, <2>1, <2>3
    <3>2. CASE Blocks(s, p)
      <4> DEFINE T == {k \in Nat : k =< N => q \in Reach(s)[k]}
      <4>1. 0 \in T
        BY <1>3, <3>1
      <4>2. ASSUME NEW k \in Nat, k \in T PROVE k + 1 \in T
        BY <1>2, <3>1, <4>2
      <4> HIDE DEF T
      <4>3. Nat \subseteq T
        BY <4>1, <4>2, SetInduction
      <4>4. q \in Reach(s)[m + 1]
        BY <2>1, <4>3 DEF T
      <4> QED BY <3>1, <3>2, <4>4
    <3>3. CASE \E r \in Proc : Blocks(r, p) /\ s \in Reach(r)[m]
      BY <1>2, <2>1, <3>1, <3>3
    <3> QED BY <1>5, <2>1, <3>1, <3>2, <3>3
  <2> QED BY <2>2, <2>3
<1> HIDE DEF S
<1>6. Nat \subseteq S
  BY <1>4, <1>5, SetInduction
<1> QED BY <1>1, <1>6 DEF S

\* Whoever is in a circle waits for somebody in a circle, and is waited for.
LEMMA CircleGoesOn ==
  ASSUME NEW p \in Proc, InCircle(p)
  PROVE  /\ \E r \in Proc : Blocks(r, p) /\ InCircle(r)
         /\ \E r \in Proc : Blocks(p, r)
<1>1. PICK N \in Nat : N = Cardinality(Proc)
  BY ProcIsCounted
<1>2. N # 0
  BY <1>1, IndexAssumption, FS_EmptySet
<1>3. PICK n \in Nat : n + 1 = N
  BY <1>2
<1>4. p \in Reach(p)[n + 1]
  BY <1>1, <1>3, CircleIs
<1>5. ~Blocks(p, p)
  BY DEF Blocks
<1>6. PICK r \in Proc : Blocks(r, p) /\ p \in Reach(r)[n]
  <2>1. \A q \in Proc : n + 1 =< Cardinality(Proc) /\ q \in Reach(p)[n + 1]
           => Blocks(q, p) \/ \E r \in Proc : Blocks(r, p) /\ q \in Reach(r)[n]
    BY ReachByTheFirst
  <2>2. n + 1 =< Cardinality(Proc)
    BY <1>1, <1>3
  <2> QED BY <1>4, <1>5, <2>1, <2>2
<1>7. n + 1 \in 1..N /\ (n + 1) - 1 = n /\ n \in 0..N
  BY <1>3
<1>8. r \in Reach(r)[N]
  <2>1. Reach(r)[n + 1] = Reach(r)[n] \cup {q \in Proc : \E s \in Reach(r)[n] : Blocks(q, s)}
    BY <1>1, <1>7, CircleIs DEF Reaches
  <2> QED BY <1>3, <1>6, <2>1
<1>9. InCircle(r)
  BY <1>1, <1>8, CircleIs
<1>10. \E s \in Proc : Blocks(p, s)
  <2> DEFINE S == {k \in Nat : k =< N /\ p \in Reach(p)[k]}
  <2>1. N \in S
    BY <1>3, <1>4
  <2>2. PICK k \in S : \A m \in S : k =< m
    BY <2>1, LeastNat
  <2>3. k # 0
    BY <1>5, <2>2, CircleIs DEF Reaches
  <2>4. k - 1 \in Nat /\ k - 1 \notin S /\ k \in 1..N /\ k - 1 \in 0..N
    BY <2>2, <2>3
  <2>5. /\ Reach(p)[k] = Reach(p)[k - 1] \cup {q \in Proc : \E s \in Reach(p)[k - 1] : Blocks(q, s)}
        /\ Reach(p)[k - 1] \subseteq Proc
    BY <1>1, <2>4, CircleIs DEF Reaches
  <2> QED BY <2>2, <2>4, <2>5
<1> QED BY <1>6, <1>9, <1>10

\* So without anybody who replaces or deletes, the ranks would grow without end
\* among finitely many threads.
LEMMA CirclesNeed == Inv /\ FirstInv => CirclesNeedAReplacement
<1> SUFFICES ASSUME Inv, FirstInv, NEW p \in Proc, InCircle(p), \A q \in Proc : op[q].n = 0,
                    \A q \in Proc : InCircle(q) => ~Replacer(q)
             PROVE  FALSE
  BY DEF CirclesNeedAReplacement, Replacer
<1> DEFINE Circle == {q \in Proc : InCircle(q)}
<1>1. ASSUME NEW q \in Circle
      PROVE  Stuck(q) /\ ~Replacer(q) /\ Rank(q) \in Nat
             /\ \E r \in Circle : Rank(q) < Rank(r)
  <2>1. ASSUME NEW r \in Circle PROVE Stuck(r) /\ ~Replacer(r)
    <3>1. \E s \in Proc : Blocks(s, r)
      BY CircleGoesOn
    <3>2. Locks(r) # {}
      BY CircleGoesOn DEF Blocks, Locks
    <3> QED BY <3>1, <3>2 DEF Stuck
  <2>2. PICK r \in Circle : Blocks(r, q)
    BY CircleGoesOn
  <2> QED BY <2>1, <2>2, RankGrows, StuckFacts
<1>2. p \in Circle /\ Circle \subseteq Proc
  OBVIOUS
<1> HIDE DEF Circle
<1> DEFINE S == {n \in Nat : \E T \in SUBSET Circle :
                    /\ IsFiniteSet(T) /\ Cardinality(T) = n
                    /\ \E q \in Circle : \A t \in T : Rank(t) < Rank(q)}
<1>3. 0 \in S
  BY <1>2, FS_EmptySet
<1>4. ASSUME NEW n \in Nat, n \in S PROVE n + 1 \in S
  <2>1. PICK T \in SUBSET Circle :
           /\ IsFiniteSet(T) /\ Cardinality(T) = n
           /\ \E q \in Circle : \A t \in T : Rank(t) < Rank(q)
    BY <1>4
  <2>2. PICK q \in Circle : \A t \in T : Rank(t) < Rank(q)
    BY <2>1
  <2>3. PICK r \in Circle : Rank(q) < Rank(r)
    BY <1>1
  <2>4. q \notin T
    BY <1>1, <2>2
  <2>5. IsFiniteSet(T \cup {q}) /\ Cardinality(T \cup {q}) = n + 1
    BY <2>1, <2>4, FS_AddElement
  <2>6. \A t \in T \cup {q} : Rank(t) < Rank(r)
    <3>1. Rank(q) \in Nat /\ Rank(r) \in Nat /\ \A t \in T : Rank(t) \in Nat
      BY <1>1, <2>1
    <3> QED BY <2>2, <2>3, <3>1
  <2> QED BY <2>1, <2>5, <2>6
<1> HIDE DEF S
<1>5. Nat \subseteq S
  BY <1>3, <1>4, SetInduction
<1>6. PICK N \in Nat : N = Cardinality(Proc)
  BY ProcIsCounted
<1>7. PICK T \in SUBSET Proc : IsFiniteSet(T) /\ Cardinality(T) = N + 1
  BY <1>2, <1>5, <1>6 DEF S
<1>8. Cardinality(T) =< N
  BY <1>6, <1>7, FS_Subset, IndexAssumption
<1> QED BY <1>6, <1>7, <1>8

\* While all transactions are in their first operation, and no index is spoilt,
\* every circle of waiting threads has somebody who replaces or deletes a record
\* it has locked: the order "secondary, then primary" of __dbc_put and __db_pget
\* keeps puts of new records and gets through an index out of deadlocks.
THEOREM CirclesHold == Spec => []CirclesNeedAReplacement
<1>1. spoilt \/ (Inv /\ FirstInv) => CirclesNeedAReplacement
  BY CirclesNeed DEF CirclesNeedAReplacement
<1> QED BY <1>1, FirstInvariance, PTL

=============================================================================
