--------------------------- MODULE Recovery_proofs ---------------------------
(***************************************************************************)
(* Theorems about Recovery, for any transactions, pages, nestings without a *)
(* circle, and bounds.                                                      *)
(*                                                                         *)
(* Inv is the write-ahead rule: no page on disk shows a record that is not  *)
(* on disk too, so whatever a crash leaves of the log covers every page.    *)
(* It gives the types, and that what was committed with a flush stays.      *)
(*                                                                         *)
(* PageInv says how the log, the pages on disk and in the cache, and the    *)
(* list of recovery belong together in every mode.  Every update of a page  *)
(* was made on the one before it that counts, so a set of updates and its   *)
(* last member say the same of a page.  It gives that the pages are right   *)
(* whenever the system is up, and that recovery never fails.                *)
(***************************************************************************)
EXTENDS Recovery, WellFoundedInduction, SequenceTheorems, TLAPS

-----------------------------------------------------------------------------
(* Induction on numbers, and functions defined by recursion on them *)

\* Every set of numbers that is not empty has a least one.
LEMMA LeastNat ==
  ASSUME NEW S, S \subseteq Nat, S # {}
  PROVE  \E n \in S : \A m \in S : n =< m
<1>1. IsWellFoundedOn(OpToRel(<, Nat), Nat)
  BY NatLessThanWellFounded
<1>2. PICK n \in S : \A m \in S : ~(<<m, n>> \in OpToRel(<, Nat))
  BY <1>1, WFMin
<1>3. \A m \in S : ~(m < n)
  BY <1>2 DEF OpToRel
<1> QED BY <1>3

\* Induction: a set with 0, and with n + 1 for every n in it.
LEMMA SetInduction ==
  ASSUME NEW S, 0 \in S, \A n \in Nat : n \in S => n + 1 \in S
  PROVE  Nat \subseteq S
<1> SUFFICES ASSUME Nat \ S # {} PROVE FALSE
  OBVIOUS
<1>1. PICK n \in Nat \ S : \A m \in Nat \ S : n =< m
  BY LeastNat
<1>2. n # 0 /\ n - 1 \in Nat
  BY <1>1
<1>3. n - 1 \in S
  BY <1>1, <1>2
<1> QED BY <1>1, <1>2, <1>3

\* f is defined on 0..N by recursion to the number before.
CountStep(N, V, base, step) == base \in V /\ step \in [1..N -> [V -> V]]

ByCount(f, N, V, base, step) ==
    /\ f \in [0..N -> V]
    /\ \A n \in 0..N : f[n] = IF n = 0 THEN base ELSE step[n][f[n - 1]]

LEMMA CountRecursion ==
  ASSUME NEW N \in Nat, NEW V, NEW base, NEW step, CountStep(N, V, base, step)
  PROVE  \E f : ByCount(f, N, V, base, step)
<1> USE DEF CountStep
<1> DEFINE ByTheRule(n, f) ==
              \A m \in 0..n : f[m] = IF m = 0 THEN base ELSE step[m][f[m - 1]]
           S == {n \in Nat : n =< N => \E f \in [0..n -> V] : ByTheRule(n, f)}
<1>1. 0 \in S
  <2>1. [m \in 0..0 |-> base] \in [0..0 -> V] /\ ByTheRule(0, [m \in 0..0 |-> base])
    OBVIOUS
  <2> QED BY <2>1
<1>2. ASSUME NEW n \in Nat, n \in S PROVE n + 1 \in S
  <2> SUFFICES ASSUME n + 1 =< N PROVE \E f \in [0..n + 1 -> V] : ByTheRule(n + 1, f)
    OBVIOUS
  <2>1. PICK f \in [0..n -> V] : ByTheRule(n, f)
    BY <1>2
  <2>2. PICK g : g = [m \in 0..n + 1 |-> IF m = n + 1 THEN step[n + 1][f[n]] ELSE f[m]]
    OBVIOUS
  <2>3. step[n + 1][f[n]] \in V
    BY <2>1
  <2>4. g \in [0..n + 1 -> V]
    BY <2>1, <2>2, <2>3
  <2>5. ASSUME NEW m \in 0..n + 1
        PROVE  g[m] = IF m = 0 THEN base ELSE step[m][g[m - 1]]
    <3>1. CASE m = n + 1
      BY <3>1, <2>2
    <3>2. CASE m # n + 1
      <4>1. m \in 0..n /\ g[m] = f[m]
        BY <3>2, <2>2
      <4>2. m # 0 => g[m - 1] = f[m - 1]
        BY <4>1, <2>2
      <4> QED BY <4>1, <4>2, <2>1
    <3> QED BY <3>1, <3>2
  <2> QED BY <2>4, <2>5
<1> HIDE DEF S
<1>3. N \in S
  BY <1>1, <1>2, SetInduction
<1>4. PICK f \in [0..N -> V] : ByTheRule(N, f)
  BY <1>3 DEF S
<1> QED BY <1>4 DEF ByCount

\* f is defined on 0..N by recursion to two numbers before.
BackStep(N, V, base, step, a, b) ==
    /\ base \in V /\ step \in [1..N -> [V -> [V -> V]]]
    /\ a \in [1..N -> 0..N] /\ b \in [1..N -> 0..N]
    /\ \A n \in 1..N : a[n] < n /\ b[n] < n

ByTwoBefore(f, N, V, base, step, a, b) ==
    /\ f \in [0..N -> V]
    /\ \A n \in 0..N : f[n] = IF n = 0 THEN base ELSE step[n][f[a[n]]][f[b[n]]]

LEMMA TwoRecursion ==
  ASSUME NEW N \in Nat, NEW V, NEW base, NEW step, NEW a, NEW b, BackStep(N, V, base, step, a, b)
  PROVE  \E f : ByTwoBefore(f, N, V, base, step, a, b)
<1> USE DEF BackStep
<1>1. PICK W : W = [0..N -> V]
  OBVIOUS
<1>2. PICK start : start = [m \in 0..N |-> base]
  OBVIOUS
<1>3. PICK more : more = [n \in 1..N |-> [g \in W |->
                             [m \in 0..N |-> IF m = n THEN step[n][g[a[n]]][g[b[n]]] ELSE g[m]]]]
  OBVIOUS
<1>4. CountStep(N, W, start, more)
  <2>1. start \in W
    BY <1>1, <1>2
  <2>2. ASSUME NEW n \in 1..N, NEW g \in W
        PROVE  [m \in 0..N |-> IF m = n THEN step[n][g[a[n]]][g[b[n]]] ELSE g[m]] \in W
    <3>1. g[a[n]] \in V /\ g[b[n]] \in V
      BY <1>1
    <3>2. step[n][g[a[n]]][g[b[n]]] \in V
      BY <3>1
    <3> QED BY <1>1, <3>2
  <2>3. more \in [1..N -> [W -> W]]
    BY <1>3, <2>2
  <2> QED BY <2>1, <2>3 DEF CountStep
<1>5. PICK F : ByCount(F, N, W, start, more)
  BY <1>4, CountRecursion
<1>6. F \in [0..N -> W]
  BY <1>5 DEF ByCount
<1>7. ASSUME NEW n \in 1..N, NEW m \in 0..N
      PROVE  F[n][m] = IF m = n THEN step[n][F[n - 1][a[n]]][F[n - 1][b[n]]] ELSE F[n - 1][m]
  <2>1. n \in 0..N /\ n - 1 \in 0..N /\ n # 0
    OBVIOUS
  <2>2. F[n - 1] \in W
    BY <1>6, <2>1
  <2>3. F[n] = more[n][F[n - 1]]
    BY <1>5, <2>1 DEF ByCount
  <2>4. more[n][F[n - 1]] = [k \in 0..N |-> IF k = n THEN step[n][F[n - 1][a[n]]][F[n - 1][b[n]]]
                                                     ELSE F[n - 1][k]]
    BY <1>3, <2>2
  <2> QED BY <2>3, <2>4
<1>8. \A n \in 0..N : \A m \in 0..n : F[n][m] = F[m][m]
  <2> DEFINE K == {n \in Nat : n =< N => \A m \in 0..n : F[n][m] = F[m][m]}
  <2>1. 0 \in K
    OBVIOUS
  <2>2. ASSUME NEW n \in Nat, n \in K PROVE n + 1 \in K
    <3> SUFFICES ASSUME n + 1 =< N, NEW m \in 0..n + 1 PROVE F[n + 1][m] = F[m][m]
      OBVIOUS
    <3>1. CASE m = n + 1
      BY <3>1
    <3>2. CASE m # n + 1
      <4>1. n + 1 \in 1..N /\ m \in 0..n /\ m \in 0..N /\ (n + 1) - 1 = n
        BY <3>2
      <4>2. F[n + 1][m] = F[n][m]
        BY <1>7, <3>2, <4>1
      <4> QED BY <2>2, <4>1, <4>2
    <3> QED BY <3>1, <3>2
  <2> HIDE DEF K
  <2>3. Nat \subseteq K
    BY <2>1, <2>2, SetInduction
  <2> QED BY <2>3 DEF K
<1>9. PICK f : f = [n \in 0..N |-> F[n][n]]
  OBVIOUS
<1>10. f \in [0..N -> V]
  BY <1>1, <1>6, <1>9
<1>11. ASSUME NEW n \in 0..N
       PROVE  f[n] = IF n = 0 THEN base ELSE step[n][f[a[n]]][f[b[n]]]
  <2>1. CASE n = 0
    <3>1. F[0] = start
      BY <1>5, <2>1 DEF ByCount
    <3> QED BY <1>2, <1>9, <2>1, <3>1
  <2>2. CASE n # 0
    <3>1. n \in 1..N /\ n - 1 \in 0..N
      BY <2>2
    <3>2. a[n] \in 0..n - 1 /\ b[n] \in 0..n - 1
      BY <3>1
    <3>3. F[n][n] = step[n][F[n - 1][a[n]]][F[n - 1][b[n]]]
      BY <1>7, <3>1
    <3>4. F[n - 1][a[n]] = f[a[n]] /\ F[n - 1][b[n]] = f[b[n]]
      BY <1>8, <1>9, <3>1, <3>2
    <3>5. f[n] = F[n][n]
      BY <1>9
    <3> QED BY <2>2, <3>3, <3>4, <3>5
  <2> QED BY <2>1, <2>2
<1> QED BY <1>10, <1>11 DEF ByTwoBefore

\* The greatest of a set of numbers that has a bound.
LEMMA GreatestNat ==
  ASSUME NEW S, NEW N \in Nat, S \subseteq 0..N, S # {}
  PROVE  \E n \in S : \A m \in S : n >= m
<1>1. PICK T : T = {N - m : m \in S}
  OBVIOUS
<1>2. T \subseteq Nat /\ T # {}
  <2>1. \A m \in S : N - m \in Nat
    OBVIOUS
  <2> QED BY <1>1, <2>1
<1>3. PICK k \in T : \A m \in T : k =< m
  BY <1>2, LeastNat
<1>4. PICK n \in S : k = N - n
  BY <1>1, <1>3
<1>5. ASSUME NEW m \in S PROVE n >= m
  <2>1. N - m \in T
    BY <1>1
  <2>2. N - n =< N - m
    BY <1>3, <1>4, <2>1
  <2> QED BY <2>2
<1> QED BY <1>5

-----------------------------------------------------------------------------
(* Records *)

Rec ==
    [type : {"update"}, txn : Txn, page : Page, before : Nat, prev : Nat]
    \cup [type : {"child"}, txn : Txn, child : Txn, clsn : Nat, prev : Nat]
    \cup [type : {"regop"}, txn : Txn, prev : Nat]
    \cup [type : {"ckp"}, lsn : Nat]

\* Where a record may lead to, given the records before it.
LeadsTo(s, l) == l = 0 \/ (l \in 1..Len(s) /\ s[l].type # "ckp")

\* Record n of s refers to records before it.
RecordOK(s, n) ==
    /\ s[n].type # "ckp" => s[n].prev < n /\ LeadsTo(s, s[n].prev)
    /\ s[n].type = "child" => s[n].clsn < n /\ LeadsTo(s, s[n].clsn)
    /\ s[n].type = "update" => s[n].before < n
    /\ s[n].type = "ckp" => s[n].lsn \in 1..n - 1

LogOK == log \in Seq(Rec) /\ \A n \in 1..Len(log) : RecordOK(log, n)

Updates(s) == {l \in 1..Len(s) : s[l].type = "update"}

TxnDetail == [st : {"running", "committing", "aborting", "ended"}, begin : Nat, last : Nat, undo : Seq(Nat)]
CkpState == [st : {"none", "guessed", "syncing"}, lsn : Nat, pages : SUBSET Page]
RecState == [pass : {"none", "backward", "forward"}, at : Nat, first : Nat, list : [Txn -> Status]]

Types ==
    /\ parent \in Trees
    /\ txn \in [Txn -> TxnDetail]
    /\ flushed \in Nat
    /\ cache \in [Page -> Nat] /\ disk \in [Page -> Nat]
    /\ ckp \in CkpState
    /\ mode \in {"up", "down", "recovering", "failed"}
    /\ rec \in RecState
    /\ synced \subseteq Txn /\ crashes \in 0..MaxCrash

\* What a transaction in memory refers to is in the log.
InLog(d, s) ==
    /\ d.begin \in 0..Len(s) /\ LeadsTo(s, d.last)
    /\ \A i \in 1..Len(d.undo) : d.undo[i] \in Updates(s)
    /\ d.last = 0 => d.undo = <<>>

TxnsInLog == \A t \in Txn : InLog(txn[t], log)

\* The running system logs up to MaxLog, and each recovery one record more.
LogLength ==
    IF mode = "up" THEN Len(log) =< MaxLog + crashes
    ELSE crashes > 0 /\ Len(log) < MaxLog + crashes

\* The write-ahead rule.
WriteAhead ==
    /\ flushed =< Len(log)
    /\ mode # "up" => flushed = Len(log)
    /\ \A p \in Page : cache[p] =< Len(log) /\ disk[p] =< flushed

CkpInLog == ckp.lsn =< Len(log) /\ (ckp.st # "none" => ckp.lsn > 0)

RecInLog ==
    /\ rec.at =< Len(log) + 1
    /\ mode = "recovering" =>
          /\ rec.first \in 1..Len(log)
          /\ rec.pass = "backward" => rec.at =< Len(log)
          /\ rec.pass = "forward" => rec.at > 0
    /\ mode \in {"up", "down"} => rec.at = 0

\* What was committed with a flush is on disk.
OnDisk(t) == \E l \in 1..flushed : log[l].type = "regop" /\ log[l].txn = t
SyncedOnDisk == \A t \in synced : OnDisk(t)

Inv ==
    /\ Types /\ LogOK /\ TxnsInLog /\ LogLength
    /\ WriteAhead /\ CkpInLog /\ RecInLog /\ SyncedOnDisk

-----------------------------------------------------------------------------
(* Logs *)

LEMMA RecFacts ==
  ASSUME NEW r \in Rec
  PROVE  /\ r.type \in {"update", "child", "regop", "ckp"}
         /\ r.type # "ckp" => r.txn \in Txn /\ r.prev \in Nat
         /\ r.type = "update" => r.page \in Page /\ r.before \in Nat
         /\ r.type = "child" => r.child \in Txn /\ r.clsn \in Nat
         /\ r.type = "ckp" => r.lsn \in Nat
BY DEF Rec

WellFormed(s) == s \in Seq(Rec) /\ \A n \in 1..Len(s) : RecordOK(s, n)

LEMMA RecordFacts ==
  ASSUME NEW s, WellFormed(s), NEW n \in 1..Len(s)
  PROVE  /\ s[n] \in Rec /\ s[n].type \in {"update", "child", "regop", "ckp"}
         /\ s[n].type # "ckp" => s[n].txn \in Txn /\ s[n].prev \in Nat
         /\ s[n].type = "update" => s[n].page \in Page /\ s[n].before \in 0..n - 1
         /\ s[n].type = "child" => s[n].child \in Txn /\ s[n].clsn \in Nat
         /\ s[n].type = "ckp" => s[n].lsn \in 1..n - 1
<1>1. s[n] \in Rec /\ RecordOK(s, n)
  BY DEF WellFormed
<1> QED BY <1>1, RecFacts DEF RecordOK

\* One record more, that refers to the ones before it.
LEMMA LogGrows ==
  ASSUME NEW s, WellFormed(s), NEW r \in Rec, NEW w, w = Append(s, r),
         /\ r.type # "ckp" => LeadsTo(s, r.prev)
         /\ r.type = "child" => LeadsTo(s, r.clsn)
         /\ r.type = "update" => r.before =< Len(s)
         /\ r.type = "ckp" => r.lsn \in 1..Len(s)
  PROVE  /\ WellFormed(w) /\ Len(w) = Len(s) + 1 /\ w[Len(s) + 1] = r
         /\ \A n \in 1..Len(s) : w[n] = s[n]
         /\ \A l : LeadsTo(s, l) => LeadsTo(w, l)
         /\ Updates(s) \subseteq Updates(w)
         /\ \A d : InLog(d, s) => InLog(d, w)
<1>1. s \in Seq(Rec) /\ Len(s) \in Nat
  BY DEF WellFormed
<1>2. w \in Seq(Rec) /\ Len(w) = Len(s) + 1 /\ w[Len(s) + 1] = r /\ \A n \in 1..Len(s) : w[n] = s[n]
  BY <1>1
<1>3. \A l : LeadsTo(s, l) => LeadsTo(w, l)
  BY <1>1, <1>2 DEF LeadsTo
<1>4. Updates(s) \subseteq Updates(w)
  BY <1>1, <1>2 DEF Updates
<1>5. \A d : InLog(d, s) => InLog(d, w)
  <2> SUFFICES ASSUME NEW d, InLog(d, s) PROVE InLog(d, w)
    OBVIOUS
  <2>1. d.begin =< Len(w)
    BY <1>1, <1>2 DEF InLog
  <2> QED BY <1>3, <1>4, <2>1 DEF InLog
<1>6. ASSUME NEW n \in 1..Len(w) PROVE RecordOK(w, n)
  <2>1. CASE n = Len(s) + 1
    <3>1. r.type # "ckp" => r.prev < n
      BY <1>1, <2>1, RecFacts DEF LeadsTo
    <3>2. r.type = "child" => r.clsn < n
      BY <1>1, <2>1, RecFacts DEF LeadsTo
    <3>3. r.type = "update" => r.before < n
      BY <1>1, <2>1, RecFacts
    <3> QED BY <1>1, <1>2, <1>3, <2>1, <3>1, <3>2, <3>3 DEF RecordOK
  <2>2. CASE n # Len(s) + 1
    <3>1. n \in 1..Len(s) /\ w[n] = s[n]
      BY <1>1, <1>2, <2>2
    <3> QED BY <1>3, <3>1 DEF RecordOK, WellFormed
  <2> QED BY <2>1, <2>2
<1> QED BY <1>2, <1>3, <1>4, <1>5, <1>6 DEF WellFormed

\* The log a crash leaves.
LEMMA LogCut ==
  ASSUME NEW s, WellFormed(s), NEW n \in 0..Len(s), NEW w, w = SubSeq(s, 1, n)
  PROVE  WellFormed(w) /\ Len(w) = n /\ \A i \in 1..n : w[i] = s[i]
<1>1. s \in Seq(Rec) /\ Len(s) \in Nat
  BY DEF WellFormed
<1>2. w \in Seq(Rec) /\ Len(w) = n /\ \A i \in 1..n : w[i] = s[i]
  BY <1>1
<1>3. ASSUME NEW i \in 1..n PROVE RecordOK(w, i)
  <2>1. i \in 1..Len(s) /\ w[i] = s[i] /\ s[i] \in Rec /\ RecordOK(s, i)
    BY <1>1, <1>2 DEF WellFormed
  <2>2. \A l : LeadsTo(s, l) /\ l < i => LeadsTo(w, l)
    BY <1>1, <1>2, <2>1 DEF LeadsTo
  <2> QED BY <2>1, <2>2 DEF RecordOK
<1> QED BY <1>2, <1>3 DEF WellFormed

-----------------------------------------------------------------------------
(* The operators of the model *)

\* The chains of a log, as a function of it.
LinkedIn(s) == {0} \cup {l \in DOMAIN s : s[l].type # "ckp"}

ChainStep(s, c, l) ==
    IF l = 0 THEN <<>>
    ELSE (IF s[l].type = "update" THEN <<l>>
          ELSE IF s[l].type = "child" THEN c[s[l].clsn] ELSE <<>>) \o c[s[l].prev]

IsChain(s, c) == c = [l \in LinkedIn(s) |-> ChainStep(s, c, l)]

LEMMA ChainExists ==
  ASSUME NEW s, WellFormed(s)
  PROVE  \E c : IsChain(s, c)
<1>1. PICK N \in Nat : N = Len(s)
  BY DEF WellFormed
<1>2. s \in Seq(Rec) /\ DOMAIN s = 1..N /\ \A n \in 1..N : s[n] \in Rec /\ RecordOK(s, n)
  BY <1>1 DEF WellFormed
<1>3. PICK V : V = Seq(Updates(s))
  OBVIOUS
<1>4. \A u, v \in V : u \o v \in V
  BY <1>3
<1>5. <<>> \in V /\ \A n \in Updates(s) : <<n>> \in V
  BY <1>3
<1>6. LinkedIn(s) = {n \in 0..N : LeadsTo(s, n)} /\ \A n : LeadsTo(s, n) <=> n \in LinkedIn(s)
  BY <1>1, <1>2 DEF LinkedIn, LeadsTo
<1> DEFINE own(n, v) == IF s[n].type = "update" THEN <<n>>
                        ELSE IF s[n].type = "child" THEN v ELSE <<>>
<1>7. \A n \in 1..N : \A v \in V : own(n, v) \in V
  BY <1>1, <1>5 DEF Updates
<1>8. PICK a : a = [n \in 1..N |-> IF s[n].type = "child" THEN s[n].clsn ELSE 0]
  OBVIOUS
<1>9. PICK b : b = [n \in 1..N |-> IF s[n].type = "ckp" THEN 0 ELSE s[n].prev]
  OBVIOUS
<1>10. PICK step : step = [n \in 1..N |-> [u \in V |-> [v \in V |-> own(n, u) \o v]]]
  OBVIOUS
<1>11. BackStep(N, V, <<>>, step, a, b)
  <2>1. \A n \in 1..N : a[n] \in 0..N /\ a[n] < n
    BY <1>2, <1>8, RecFacts DEF RecordOK
  <2>2. \A n \in 1..N : b[n] \in 0..N /\ b[n] < n
    BY <1>2, <1>9, RecFacts DEF RecordOK
  <2>3. \A n \in 1..N : \A u, v \in V : own(n, u) \o v \in V
    BY <1>4, <1>7
  <2>4. step \in [1..N -> [V -> [V -> V]]]
    <3> HIDE DEF own
    <3> QED BY <1>10, <2>3
  <2>5. a \in [1..N -> 0..N] /\ b \in [1..N -> 0..N]
    BY <1>8, <1>9, <2>1, <2>2
  <2> QED BY <1>5, <2>1, <2>2, <2>4, <2>5 DEF BackStep
<1>12. PICK f : ByTwoBefore(f, N, V, <<>>, step, a, b)
  BY <1>11, TwoRecursion
<1>13. PICK g : g = [n \in LinkedIn(s) |-> f[n]]
  OBVIOUS
<1>14. ASSUME NEW n \in LinkedIn(s)
       PROVE  g[n] = IF n = 0 THEN <<>> ELSE own(n, g[s[n].clsn]) \o g[s[n].prev]
  <2>1. n \in 0..N /\ g[n] = f[n]
    BY <1>6, <1>13
  <2>2. CASE n = 0
    BY <1>12, <2>1, <2>2 DEF ByTwoBefore
  <2>3. CASE n # 0
    <3>1. n \in 1..N /\ s[n].type # "ckp" /\ s[n] \in Rec /\ RecordOK(s, n)
      BY <1>2, <1>6, <2>1, <2>3 DEF LeadsTo
    <3>2. f[n] = step[n][f[a[n]]][f[b[n]]]
      BY <1>12, <2>1, <2>3 DEF ByTwoBefore
    <3>3. a[n] \in 0..N /\ b[n] \in 0..N
      BY <1>11, <3>1 DEF BackStep
    <3>4. f[a[n]] \in V /\ f[b[n]] \in V
      BY <1>12, <3>3 DEF ByTwoBefore
    <3>5. step[n][f[a[n]]][f[b[n]]] = own(n, f[a[n]]) \o f[b[n]]
      <4> HIDE DEF own
      <4> QED BY <1>10, <3>1, <3>4
    <3>6. s[n].prev \in LinkedIn(s) /\ b[n] = s[n].prev
      BY <1>6, <1>9, <3>1 DEF RecordOK
    <3>7. f[b[n]] = g[s[n].prev]
      BY <1>13, <3>6
    <3>8. own(n, f[a[n]]) = own(n, g[s[n].clsn])
      <4>1. CASE s[n].type = "child"
        <5>1. s[n].clsn \in LinkedIn(s) /\ a[n] = s[n].clsn
          BY <1>6, <1>8, <3>1, <4>1 DEF RecordOK
        <5>2. f[a[n]] = g[s[n].clsn]
          BY <1>13, <5>1
        <5> QED BY <5>2
      <4>2. CASE s[n].type # "child"
        BY <4>2
      <4> QED BY <4>1, <4>2
    <3> HIDE DEF own
    <3> QED BY <2>1, <2>3, <3>2, <3>5, <3>7, <3>8
  <2> QED BY <2>2, <2>3
<1>15. g = [n \in LinkedIn(s) |-> IF n = 0 THEN <<>> ELSE own(n, g[s[n].clsn]) \o g[s[n].prev]]
  <2> HIDE DEF own
  <2> QED BY <1>13, <1>14
<1> QED BY <1>15, Zenon DEF IsChain, ChainStep

\* What a record leads to comes before it.
LEMMA LinksBack ==
  ASSUME NEW s, WellFormed(s), NEW l \in LinkedIn(s), l # 0
  PROVE  /\ l \in 1..Len(s) /\ s[l] \in Rec
         /\ s[l].prev \in LinkedIn(s) /\ s[l].prev \in 0..l - 1
         /\ s[l].type = "child" => s[l].clsn \in LinkedIn(s) /\ s[l].clsn \in 0..l - 1
<1>1. l \in 1..Len(s) /\ s[l].type # "ckp" /\ s[l] \in Rec /\ RecordOK(s, l) /\ DOMAIN s = 1..Len(s)
  BY DEF LinkedIn, WellFormed
<1> QED BY <1>1, RecFacts DEF RecordOK, LeadsTo, LinkedIn

\* Induction along chains.
LEMMA ChainInduction ==
  ASSUME NEW s, WellFormed(s), NEW K,
         \A l \in LinkedIn(s) : (\A m \in 0..l - 1 : m \in LinkedIn(s) => m \in K) => l \in K
  PROVE  LinkedIn(s) \subseteq K
<1>1. LinkedIn(s) \subseteq Nat
  BY DEF LinkedIn, WellFormed
<1>2. PICK J : J = {n \in Nat : \A m \in 0..n : m \in LinkedIn(s) => m \in K}
  OBVIOUS
<1>3. 0 \in J
  <2>1. 0 \in LinkedIn(s) => 0 \in K
    OBVIOUS
  <2> QED BY <1>2, <2>1
<1>4. ASSUME NEW n \in Nat, n \in J PROVE n + 1 \in J
  <2> SUFFICES ASSUME NEW m \in 0..n + 1, m \in LinkedIn(s) PROVE m \in K
    BY <1>2
  <2>1. \A k \in 0..n : k \in LinkedIn(s) => k \in K
    BY <1>2, <1>4
  <2>2. CASE m \in 0..n
    BY <2>1, <2>2
  <2>3. CASE m = n + 1
    <3>1. \A k \in 0..m - 1 : k \in LinkedIn(s) => k \in K
      BY <2>1, <2>3
    <3> QED BY <3>1
  <2> QED BY <2>2, <2>3
<1>5. Nat \subseteq J
  BY <1>3, <1>4, SetInduction
<1>6. ASSUME NEW l \in LinkedIn(s) PROVE l \in K
  <2>1. l \in J /\ l \in 0..l
    BY <1>1, <1>5
  <2> QED BY <1>2, <2>1
<1> QED BY <1>6

\* What a chain of records leads to are updates in the log.
LEMMA ChainTyped ==
  ASSUME NEW s, WellFormed(s), NEW c, IsChain(s, c), NEW l \in LinkedIn(s)
  PROVE  c[l] \in Seq(Updates(s))
<1>1. PICK V : V = Seq(Updates(s))
  OBVIOUS
<1>2. \A u, v \in V : u \o v \in V
  BY <1>1
<1>3. <<>> \in V /\ \A n \in Updates(s) : <<n>> \in V
  BY <1>1
<1>4. PICK K : K = {n \in LinkedIn(s) : c[n] \in V}
  OBVIOUS
<1>5. ASSUME NEW n \in LinkedIn(s), \A m \in 0..n - 1 : m \in LinkedIn(s) => m \in K PROVE n \in K
  <2>1. c[n] = ChainStep(s, c, n)
    BY DEF IsChain
  <2>2. CASE n = 0
    BY <1>3, <1>4, <2>1, <2>2 DEF ChainStep
  <2>3. CASE n # 0
    <3>1. c[s[n].prev] \in V /\ n \in 1..Len(s)
      BY <1>4, <1>5, <2>3, LinksBack
    <3>2. (IF s[n].type = "update" THEN <<n>>
           ELSE IF s[n].type = "child" THEN c[s[n].clsn] ELSE <<>>) \in V
      <4>1. CASE s[n].type = "update"
        BY <1>3, <3>1, <4>1 DEF Updates
      <4>2. CASE s[n].type = "child"
        BY <1>4, <1>5, <2>3, <4>2, LinksBack
      <4>3. CASE s[n].type # "update" /\ s[n].type # "child"
        BY <1>3, <4>3
      <4> QED BY <4>1, <4>2, <4>3
    <3> QED BY <1>2, <1>4, <2>1, <2>3, <3>1, <3>2 DEF ChainStep
  <2> QED BY <2>2, <2>3
<1>6. LinkedIn(s) \subseteq K
  BY <1>5, ChainInduction
<1> QED BY <1>1, <1>4, <1>6

\* A longer log has the chains of the shorter one.
LEMMA ChainSame ==
  ASSUME NEW s, WellFormed(s), NEW c, IsChain(s, c),
         NEW w, WellFormed(w), NEW d, IsChain(w, d),
         LinkedIn(s) \subseteq LinkedIn(w), \A n \in 1..Len(s) : w[n] = s[n],
         NEW l \in LinkedIn(s)
  PROVE  d[l] = c[l]
<1>1. PICK K : K = {n \in LinkedIn(s) : d[n] = c[n]}
  OBVIOUS
<1>2. ASSUME NEW n \in LinkedIn(s), \A m \in 0..n - 1 : m \in LinkedIn(s) => m \in K PROVE n \in K
  <2>1. c[n] = ChainStep(s, c, n) /\ d[n] = ChainStep(w, d, n)
    BY DEF IsChain
  <2>2. CASE n = 0
    BY <1>1, <2>1, <2>2 DEF ChainStep
  <2>3. CASE n # 0
    <3>1. /\ n \in 1..Len(s) /\ w[n] = s[n] /\ d[s[n].prev] = c[s[n].prev]
          /\ s[n].type = "child" => d[s[n].clsn] = c[s[n].clsn]
      BY <1>1, <1>2, <2>3, LinksBack
    <3> QED BY <1>1, <2>1, <2>3, <3>1 DEF ChainStep
  <2> QED BY <2>2, <2>3
<1>3. LinkedIn(s) \subseteq K
  BY <1>2, ChainInduction
<1> QED BY <1>1, <1>3

\* The model's function is the one of its log, in this state and the next.
LEMMA ChainIs == ASSUME WellFormed(log) PROVE IsChain(log, Chain)
<1>1. PICK g : IsChain(log, g)
  BY ChainExists
<1>2. g = [l \in Linked |-> IF l = 0 THEN <<>>
            ELSE (IF log[l].type = "update" THEN <<l>>
                  ELSE IF log[l].type = "child" THEN g[log[l].clsn] ELSE <<>>) \o g[log[l].prev]]
  BY <1>1, Zenon DEF IsChain, ChainStep, LinkedIn, Linked
<1>3. \E h : /\ h = [l \in Linked |-> IF l = 0 THEN <<>>
                  ELSE (IF log[l].type = "update" THEN <<l>>
                        ELSE IF log[l].type = "child" THEN h[log[l].clsn] ELSE <<>>) \o h[log[l].prev]]
             /\ Chain = h
  BY <1>2, Zenon DEF Chain
<1> QED BY <1>3, Zenon DEF IsChain, ChainStep, LinkedIn, Linked

LEMMA ChainIsNext == ASSUME WellFormed(log') PROVE IsChain(log', Chain')
<1>1. PICK g : IsChain(log', g)
  BY ChainExists
<1>2. g = [l \in Linked' |-> IF l = 0 THEN <<>>
            ELSE (IF log'[l].type = "update" THEN <<l>>
                  ELSE IF log'[l].type = "child" THEN g[log'[l].clsn] ELSE <<>>) \o g[log'[l].prev]]
  BY <1>1, Zenon DEF IsChain, ChainStep, LinkedIn, Linked
<1>3. \E h : /\ h = [l \in Linked' |-> IF l = 0 THEN <<>>
                  ELSE (IF log'[l].type = "update" THEN <<l>>
                        ELSE IF log'[l].type = "child" THEN h[log'[l].clsn] ELSE <<>>) \o h[log'[l].prev]]
             /\ Chain' = h
  BY <1>2, Zenon DEF Chain
<1> QED BY <1>3, Zenon DEF IsChain, ChainStep, LinkedIn, Linked

LEMMA ChainFacts ==
  ASSUME WellFormed(log), NEW x, LeadsTo(log, x)
  PROVE  Chain[x] \in Seq(Updates(log))
<1>1. x \in LinkedIn(log)
  BY DEF LinkedIn, LeadsTo, WellFormed
<1> QED BY <1>1, ChainIs, ChainTyped

LEMMA MaxOfTwo == \A x, y \in Nat : Max({x, y}) \in {x, y} /\ Max({x, y}) >= x /\ Max({x, y}) >= y
<1> SUFFICES ASSUME NEW x \in Nat, NEW y \in Nat
             PROVE  Max({x, y}) \in {x, y} /\ Max({x, y}) >= x /\ Max({x, y}) >= y
  OBVIOUS
<1>1. \E z \in {x, y} : \A u \in {x, y} : z >= u
  OBVIOUS
<1>2. Max({x, y}) \in {x, y} /\ \A u \in {x, y} : Max({x, y}) >= u
  BY <1>1 DEF Max
<1> QED BY <1>2

\* Recovery begins at a record of the log.
LEMMA FirstLsnFacts == ASSUME WellFormed(log), log # <<>> PROVE FirstLsn \in 1..Len(log)
<1>1. log \in Seq(Rec) /\ Len(log) \in Nat /\ Len(log) # 0 /\ DOMAIN log = 1..Len(log)
  BY DEF WellFormed
<1>2. PICK all : all = {l \in DOMAIN log : log[l].type = "ckp"}
  OBVIOUS
<1>3. CASE all = {}
  BY <1>1, <1>2, <1>3 DEF FirstLsn
<1>4. CASE all # {}
  <2>1. all \subseteq 0..Len(log)
    BY <1>1, <1>2
  <2>2. \E n \in all : \A m \in all : n >= m
    BY <1>1, <1>4, <2>1, GreatestNat
  <2>3. PICK n \in all : n = Max(all)
    BY <2>2 DEF Max
  <2>4. n \in 1..Len(log) /\ log[n].type = "ckp" /\ RecordOK(log, n)
    BY <1>1, <1>2, <2>3 DEF WellFormed
  <2>5. log[n].lsn \in 1..Len(log)
    BY <1>1, <2>4 DEF RecordOK
  <2> QED BY <1>2, <1>4, <2>3, <2>5 DEF FirstLsn
<1> QED BY <1>3, <1>4

LEMMA MarkedFacts ==
  ASSUME NEW list \in [Txn -> Status], NEW t \in Txn, NEW x \in Status
  PROVE  Marked(list, t, x) \in [Txn -> Status]
BY DEF Marked

LEMMA OpenFilesFacts ==
  ASSUME NEW list \in [Txn -> Status], NEW r \in Rec
  PROVE  OpenFiles(list, r) \in [Txn -> Status]
<1>1. PICK begun : begun = IF r.type \in {"update", "child"} /\ r.prev = 0
                           THEN [list EXCEPT ![r.txn] = "ok"] ELSE list
  OBVIOUS
<1>2. begun \in [Txn -> Status]
  BY <1>1 DEF Status
<1>3. OpenFiles(list, r) = IF r.type = "child" /\ begun[r.child] = "absent"
                           THEN Marked(begun, r.txn, "ignore") ELSE begun
  BY <1>1 DEF OpenFiles
<1>4. "ignore" \in Status
  BY DEF Status
<1>5. r.type = "child" => Marked(begun, r.txn, "ignore") \in [Txn -> Status]
  BY <1>2, <1>4, RecFacts, MarkedFacts
<1> QED BY <1>2, <1>3, <1>5

\* The openfiles pass, as a function of how far it has come.
LEMMA OpenedIs ==
  ASSUME WellFormed(log)
  PROVE  \E g : /\ g = [n \in 0..Len(log) |-> IF n = 0 THEN NoRecovery.list
                                    ELSE IF n < FirstLsn THEN g[n - 1] ELSE OpenFiles(g[n - 1], log[n])]
               /\ Opened = g[Len(log)]
<1>1. PICK N \in Nat : N = Len(log)
  BY DEF WellFormed
<1>2. PICK V : V = [Txn -> Status]
  OBVIOUS
<1>3. PICK step : step = [n \in 1..N |-> [v \in V |-> IF n < FirstLsn THEN v ELSE OpenFiles(v, log[n])]]
  OBVIOUS
<1>4. \A n \in 1..N : \A v \in V : (IF n < FirstLsn THEN v ELSE OpenFiles(v, log[n])) \in V
  <2>1. \A n \in 1..N : log[n] \in Rec
    BY <1>1 DEF WellFormed
  <2> QED BY <1>2, <2>1, OpenFilesFacts
<1>5. CountStep(N, V, NoRecovery.list, step)
  <2>1. NoRecovery.list \in V
    BY <1>2 DEF NoRecovery, Status
  <2>2. step \in [1..N -> [V -> V]]
    BY <1>3, <1>4
  <2> QED BY <2>1, <2>2 DEF CountStep
<1>6. PICK f : ByCount(f, N, V, NoRecovery.list, step)
  BY <1>5, CountRecursion
<1>7. ASSUME NEW n \in 0..N
      PROVE  f[n] = IF n = 0 THEN NoRecovery.list
                    ELSE IF n < FirstLsn THEN f[n - 1] ELSE OpenFiles(f[n - 1], log[n])
  <2>1. CASE n = 0
    BY <1>6, <2>1 DEF ByCount
  <2>2. CASE n # 0
    <3>1. n \in 1..N /\ n - 1 \in 0..N
      BY <2>2
    <3>2. f[n] = step[n][f[n - 1]] /\ f[n - 1] \in V
      BY <1>6, <2>2, <3>1 DEF ByCount
    <3> QED BY <1>3, <2>2, <3>1, <3>2
  <2> QED BY <2>1, <2>2
<1>8. f = [n \in 0..N |-> IF n = 0 THEN NoRecovery.list
                          ELSE IF n < FirstLsn THEN f[n - 1] ELSE OpenFiles(f[n - 1], log[n])]
  BY <1>6, <1>7 DEF ByCount
<1> QED BY <1>1, <1>8, Zenon DEF Opened

LEMMA OpenedFacts == ASSUME WellFormed(log) PROVE Opened \in [Txn -> Status]
<1>1. PICK N \in Nat : N = Len(log)
  BY DEF WellFormed
<1>2. PICK V : V = [Txn -> Status]
  OBVIOUS
<1>3. NoRecovery.list \in V
  BY <1>2 DEF NoRecovery, Status
<1>4. \A n \in 1..N : \A v \in V : (IF n < FirstLsn THEN v ELSE OpenFiles(v, log[n])) \in V
  <2>1. \A n \in 1..N : log[n] \in Rec
    BY <1>1 DEF WellFormed
  <2> QED BY <1>2, <2>1, OpenFilesFacts
<1>5. PICK g : /\ g = [n \in 0..N |-> IF n = 0 THEN NoRecovery.list
                                      ELSE IF n < FirstLsn THEN g[n - 1] ELSE OpenFiles(g[n - 1], log[n])]
               /\ Opened = g[N]
  BY <1>1, OpenedIs
<1>6. \A n \in 0..N : g[n] \in V
  <2> DEFINE K == {n \in Nat : n =< N => g[n] \in V}
  <2>1. 0 \in K
    BY <1>3, <1>5
  <2>2. ASSUME NEW n \in Nat, n \in K PROVE n + 1 \in K
    <3> SUFFICES ASSUME n + 1 =< N PROVE g[n + 1] \in V
      OBVIOUS
    <3>1. n + 1 \in 1..N /\ g[n] \in V
      BY <2>2
    <3>2. g[n + 1] = IF n + 1 < FirstLsn THEN g[n] ELSE OpenFiles(g[n], log[n + 1])
      BY <1>5, <3>1
    <3> QED BY <1>4, <3>1, <3>2
  <2> HIDE DEF K
  <2>3. Nat \subseteq K
    BY <2>1, <2>2, SetInduction
  <2> QED BY <2>3 DEF K
<1> QED BY <1>2, <1>5, <1>6

\* A checkpoint looks no further back than to the first record there is.
LEMMA CheckpointLsnFacts ==
  ASSUME Inv, ckp.st = "guessed"
  PROVE  CheckpointLsn \in 1..ckp.lsn
<1>1. PICK S : S = {ckp.lsn} \cup {txn[t].begin : t \in {u \in Active : txn[u].begin # 0}}
  OBVIOUS
<1>2. ckp.lsn \in Nat \ {0}
  BY DEF Inv, Types, CkpState, CkpInLog
<1>3. S \subseteq Nat \ {0} /\ S # {} /\ ckp.lsn \in S
  BY <1>1, <1>2 DEF Inv, Types, TxnDetail, Active
<1>4. PICK m \in S : \A n \in S : m =< n
  BY <1>3, LeastNat
<1>5. CheckpointLsn \in S /\ \A n \in S : CheckpointLsn =< n
  BY <1>1, <1>4 DEF CheckpointLsn, Min
<1> QED BY <1>2, <1>3, <1>5

\* Undo and redo put on a page what the log holds.
LEMMA UndoneFacts ==
  ASSUME WellFormed(log), NEW l \in Updates(log), NEW pg \in [Page -> Nat], \A p \in Page : pg[p] =< Len(log)
  PROVE  UndoneIn(pg, l) \in [Page -> Nat] /\ \A p \in Page : UndoneIn(pg, l)[p] =< Len(log)
<1>1. Len(log) \in Nat /\ l \in 1..Len(log) /\ log[l].page \in Page /\ log[l].before \in 0..Len(log)
  BY RecFacts DEF Updates, WellFormed, RecordOK
<1> QED BY <1>1 DEF UndoneIn

LEMMA RedoneFacts ==
  ASSUME WellFormed(log), NEW l \in Updates(log), NEW pg \in [Page -> Nat], \A p \in Page : pg[p] =< Len(log)
  PROVE  RedoneIn(pg, l) \in [Page -> Nat] /\ \A p \in Page : RedoneIn(pg, l)[p] =< Len(log)
<1>1. Len(log) \in Nat /\ l \in 1..Len(log) /\ log[l].page \in Page
  BY RecFacts DEF Updates, WellFormed
<1> QED BY <1>1 DEF RedoneIn

LEMMA LoggedFacts ==
  ASSUME Inv, NEW t \in Txn, NEW n \in Nat, NEW x, x = Logged(t, n)
  PROVE  /\ x \in [Txn -> TxnDetail]
         /\ \A u \in Txn : /\ x[u].st = txn[u].st /\ x[u].undo = txn[u].undo
                           /\ x[u].last = IF u = t THEN n ELSE txn[u].last
                           /\ x[u].begin \in {txn[u].begin, n}
<1>1. txn \in [Txn -> TxnDetail]
  BY DEF Inv, Types
<1>2. PICK y : y = [txn EXCEPT ![t].last = n]
  OBVIOUS
<1>3. /\ y \in [Txn -> TxnDetail]
      /\ \A u \in Txn : /\ y[u].st = txn[u].st /\ y[u].undo = txn[u].undo /\ y[u].begin = txn[u].begin
                        /\ y[u].last = IF u = t THEN n ELSE txn[u].last
  BY <1>1, <1>2 DEF TxnDetail
<1>4. PICK a : a = Top(t)
  OBVIOUS
<1>5. x = [y EXCEPT ![a].begin = IF @ = 0 THEN n ELSE @]
  BY <1>2, <1>4 DEF Logged
<1>6. ASSUME NEW u \in Txn
      PROVE  /\ x[u] \in TxnDetail
             /\ x[u].st = y[u].st /\ x[u].undo = y[u].undo /\ x[u].last = y[u].last
             /\ x[u].begin \in {y[u].begin, n}
  <2>1. PICK d \in TxnDetail : d = y[u]
    BY <1>3
  <2>2. PICK e : e = [d EXCEPT !.begin = IF @ = 0 THEN n ELSE @]
    OBVIOUS
  <2>3. /\ e \in TxnDetail /\ e.st = d.st /\ e.undo = d.undo /\ e.last = d.last
        /\ e.begin \in {d.begin, n}
    BY <2>2 DEF TxnDetail
  <2>4. x[u] = e \/ x[u] = d
    BY <1>3, <1>5, <2>1, <2>2
  <2> QED BY <2>1, <2>3, <2>4
<1>7. x \in [Txn -> TxnDetail]
  <2>1. x = [u \in Txn |-> x[u]]
    BY <1>3, <1>5
  <2> QED BY <1>6, <2>1
<1> QED BY <1>3, <1>6, <1>7

-----------------------------------------------------------------------------
(* The steps *)

LEMMA Initially == Init => Inv
<1> SUFFICES ASSUME Init PROVE Inv
  OBVIOUS
<1> USE DEF Init
<1>1. Len(log) = 0 /\ log \in Seq(Rec)
  OBVIOUS
<1>2. txn \in [Txn -> TxnDetail]
  BY DEF TxnDetail
<1>3. rec \in RecState /\ rec.at = 0
  BY DEF NoRecovery, RecState, Status
<1>4. ckp \in CkpState /\ ckp.st = "none" /\ ckp.lsn = 0
  BY DEF NoCheckpoint, CkpState
<1>5. 0 \in 0..MaxCrash /\ MaxLog >= 0
  BY RecoveryAssumption
<1>6. Types
  BY <1>2, <1>3, <1>4, <1>5 DEF Types
<1>7. LogOK /\ LogLength /\ WriteAhead /\ CkpInLog /\ RecInLog /\ SyncedOnDisk
  BY <1>1, <1>3, <1>4, <1>5, RecoveryAssumption
     DEF LogOK, LogLength, WriteAhead, CkpInLog, RecInLog, SyncedOnDisk
<1>8. TxnsInLog
  BY <1>1 DEF TxnsInLog, InLog, LeadsTo
<1> QED BY <1>6, <1>7, <1>8 DEF Inv

\* What was on disk stays there while nothing is cut off the log.
LEMMA OnDiskStays ==
  ASSUME Inv, flushed' \in Nat, flushed' >= flushed, \A n \in 1..flushed : log'[n] = log[n]
  PROVE  \A t : OnDisk(t) => OnDisk(t)'
BY DEF OnDisk, Inv, Types

\* A record is appended, and the rest of the log stays.
LEMMA Grows ==
  ASSUME Inv, NEW r \in Rec, log' = Append(log, r),
         /\ r.type # "ckp" => LeadsTo(log, r.prev)
         /\ r.type = "child" => LeadsTo(log, r.clsn)
         /\ r.type = "update" => r.before =< Len(log)
         /\ r.type = "ckp" => r.lsn \in 1..Len(log)
  PROVE  /\ LogOK' /\ Len(log') = Len(log) + 1 /\ log'[Len(log) + 1] = r
         /\ \A n \in 1..Len(log) : log'[n] = log[n]
         /\ \A d : InLog(d, log) => InLog(d, log')
         /\ Len(log) \in Nat
<1>1. WellFormed(log) /\ Len(log) \in Nat
  BY DEF Inv, LogOK, WellFormed
<1>2. PICK w : w = Append(log, r)
  OBVIOUS
<1>3. /\ WellFormed(w) /\ Len(w) = Len(log) + 1 /\ w[Len(log) + 1] = r
      /\ \A n \in 1..Len(log) : w[n] = log[n]
      /\ \A d : InLog(d, log) => InLog(d, w)
  BY <1>1, <1>2, LogGrows, ZenonT(60)
<1>4. log' = w
  BY <1>2
<1> QED BY <1>1, <1>3, <1>4 DEF LogOK, WellFormed

\* The numbers that a longer log leaves in their bounds.
LEMMA BoundsGrow ==
  ASSUME Inv, mode = "up", Len(log) < MaxLog, Len(log') = Len(log) + 1,
         flushed' \in flushed..Len(log) + 1, \A p \in Page : cache'[p] =< Len(log) + 1,
         UNCHANGED <<disk, mode, rec, crashes>>
  PROVE  /\ LogLength' /\ WriteAhead' /\ RecInLog'
         /\ UNCHANGED ckp => CkpInLog'
<1>1. Len(log) \in Nat /\ flushed \in Nat /\ crashes \in Nat /\ disk \in [Page -> Nat]
      /\ ckp.lsn \in Nat /\ flushed' \in Nat
  BY DEF Inv, LogOK, Types, CkpState
<1>2. LogLength'
  BY <1>1, RecoveryAssumption DEF LogLength
<1>3. WriteAhead'
  <2>1. \A p \in Page : disk[p] =< flushed'
    BY <1>1 DEF Inv, WriteAhead
  <2> QED BY <1>1, <2>1 DEF WriteAhead
<1>4. RecInLog'
  BY <1>1 DEF Inv, RecInLog
<1>5. UNCHANGED ckp => CkpInLog'
  BY <1>1 DEF Inv, CkpInLog
<1> QED BY <1>2, <1>3, <1>4, <1>5

\* A record of transaction t is appended; x is what the transactions are then.
LEMMA GrowsFor ==
  ASSUME Inv, NEW t \in Txn, NEW n \in Nat, n > 0, NEW w, Len(w) \in Nat, n \in 1..Len(w), w[n].type # "ckp",
         \A d : InLog(d, log) => InLog(d, w), NEW x, x = Logged(t, n)
  PROVE  \A u \in Txn : InLog(x[u], w)
<1> SUFFICES ASSUME NEW u \in Txn PROVE InLog(x[u], w)
  OBVIOUS
<1>1. InLog(txn[u], w)
  BY DEF Inv, TxnsInLog
<1>2. /\ x[u].undo = txn[u].undo /\ x[u].last = IF u = t THEN n ELSE txn[u].last
      /\ x[u].begin \in {txn[u].begin, n}
  BY LoggedFacts
<1>3. LeadsTo(w, x[u].last) /\ (x[u].last = 0 => x[u].undo = <<>>)
  BY <1>1, <1>2 DEF InLog, LeadsTo
<1>4. x[u].begin \in 0..Len(w)
  BY <1>1, <1>2 DEF InLog
<1> QED BY <1>1, <1>2, <1>3, <1>4 DEF InLog

LEMMA ChangeKeeps == ASSUME Inv, NEW t \in Txn, NEW p \in Page, Change(t, p) PROVE Inv'
<1>0. /\ mode = "up" /\ Len(log) < MaxLog
      /\ log' = Append(log, Update(t, p, cache[p], txn[t].last))
      /\ txn' = Logged(t, Len(log) + 1)
      /\ cache' = [cache EXCEPT ![p] = Len(log) + 1]
      /\ UNCHANGED <<parent, flushed, disk, ckp, mode, rec, synced, crashes>>
  BY DEF Change, MayAct, Up
<1>1. InLog(txn[t], log) /\ txn[t] \in TxnDetail /\ cache[p] \in Nat /\ cache[p] =< Len(log)
  BY DEF Inv, TxnsInLog, Types, WriteAhead
<1>2. PICK r : r = Update(t, p, cache[p], txn[t].last)
  OBVIOUS
<1>3. r \in Rec /\ r.type = "update" /\ r.prev = txn[t].last /\ r.before = cache[p]
  BY <1>1, <1>2 DEF Update, Rec, TxnDetail
<1>4. /\ LogOK' /\ Len(log') = Len(log) + 1 /\ log'[Len(log) + 1] = r
      /\ \A n \in 1..Len(log) : log'[n] = log[n]
      /\ \A d : InLog(d, log) => InLog(d, log')
      /\ Len(log) \in Nat
  BY <1>0, <1>1, <1>2, <1>3, Grows DEF InLog
<1>5. TxnsInLog'
  <2>1. PICK n \in Nat : n = Len(log) + 1
    BY <1>4
  <2>2. PICK x : x = Logged(t, n)
    OBVIOUS
  <2>3. PICK w : w = log'
    OBVIOUS
  <2>4. n > 0 /\ Len(w) \in Nat /\ n \in 1..Len(w) /\ w[n].type # "ckp" /\ \A d : InLog(d, log) => InLog(d, w)
    BY <1>3, <1>4, <2>1, <2>3
  <2>5. \A u \in Txn : InLog(x[u], w)
    BY <2>2, <2>4, GrowsFor
  <2> QED BY <1>0, <2>1, <2>2, <2>3, <2>5 DEF TxnsInLog
<1>6. Types'
  <2>1. txn' \in [Txn -> TxnDetail]
    BY <1>0, <1>4, LoggedFacts
  <2> QED BY <1>0, <1>4, <2>1 DEF Inv, Types
<1>7. LogLength' /\ WriteAhead' /\ CkpInLog' /\ RecInLog'
  <2>1. \A q \in Page : cache'[q] =< Len(log) + 1
    BY <1>0, <1>4 DEF Inv, Types, WriteAhead
  <2>2. flushed' \in flushed..Len(log) + 1
    BY <1>0, <1>4 DEF Inv, Types, WriteAhead
  <2> QED BY <1>0, <1>4, <2>1, <2>2, BoundsGrow
<1>8. SyncedOnDisk'
  BY <1>0, <1>4, OnDiskStays DEF Inv, SyncedOnDisk, WriteAhead, Types
<1> QED BY <1>4, <1>5, <1>6, <1>7, <1>8 DEF Inv

LEMMA EndedFacts == Ended \in TxnDetail /\ \A w \in Seq(Rec) : InLog(Ended, w)
<1>1. PICK d : d = Ended
  OBVIOUS
<1>2. d \in TxnDetail /\ d.begin = 0 /\ d.last = 0 /\ d.undo = <<>>
  BY <1>1 DEF Ended, TxnDetail
<1>3. \A w \in Seq(Rec) : InLog(d, w)
  BY <1>2 DEF InLog, LeadsTo
<1> QED BY <1>1, <1>2, <1>3

LEMMA CommitChildKeeps == ASSUME Inv, NEW t \in Txn, CommitChild(t) PROVE Inv'
<1>1. PICK a \in Txn : a = parent[t]
  <2>1. parent \in Trees
    BY DEF Inv, Types
  <2> QED BY <2>1, RecoveryAssumption DEF CommitChild
<1>0. /\ mode = "up" /\ Len(log) < MaxLog
      /\ log' = Append(log, ChildRecord(a, t, txn[t].last, txn[a].last))
      /\ txn' = [Logged(a, Len(log) + 1) EXCEPT ![t] = Ended]
      /\ UNCHANGED <<parent, flushed, cache, disk, ckp, mode, rec, synced, crashes>>
  BY <1>1 DEF CommitChild, MayAct, Up
<1>2. \A u \in Txn : InLog(txn[u], log) /\ txn[u] \in TxnDetail
  BY DEF Inv, TxnsInLog, Types
<1>3. PICK r : r = ChildRecord(a, t, txn[t].last, txn[a].last)
  OBVIOUS
<1>4. r \in Rec /\ r.type = "child" /\ r.prev = txn[a].last /\ r.clsn = txn[t].last
  BY <1>2, <1>3 DEF ChildRecord, Rec, TxnDetail
<1>5. LeadsTo(log, r.prev) /\ LeadsTo(log, r.clsn)
  BY <1>2, <1>4 DEF InLog
<1>6. /\ LogOK' /\ Len(log') = Len(log) + 1 /\ log'[Len(log) + 1] = r
      /\ \A n \in 1..Len(log) : log'[n] = log[n]
      /\ \A d : InLog(d, log) => InLog(d, log')
      /\ Len(log) \in Nat
  BY <1>0, <1>3, <1>4, <1>5, Grows
<1>7. PICK n \in Nat : n = Len(log) + 1
  BY <1>6
<1>8. PICK x : x = Logged(a, n)
  OBVIOUS
<1>9. x \in [Txn -> TxnDetail] /\ txn' = [x EXCEPT ![t] = Ended]
  BY <1>0, <1>7, <1>8, LoggedFacts
<1>10. TxnsInLog'
  <2>1. PICK w : w = log'
    OBVIOUS
  <2>2. n > 0 /\ Len(w) \in Nat /\ n \in 1..Len(w) /\ w[n].type # "ckp" /\ \A d : InLog(d, log) => InLog(d, w)
    BY <1>4, <1>6, <1>7, <2>1
  <2>3. \A u \in Txn : InLog(x[u], w)
    BY <1>8, <2>2, GrowsFor
  <2>4. w \in Seq(Rec)
    BY <1>6, <2>1 DEF LogOK
  <2>5. \A u \in Txn : txn'[u] = IF u = t THEN Ended ELSE x[u]
    BY <1>9
  <2> QED BY <2>1, <2>3, <2>4, <2>5, EndedFacts DEF TxnsInLog
<1>11. Types'
  <2>1. txn' \in [Txn -> TxnDetail]
    BY <1>9, EndedFacts
  <2> QED BY <1>0, <2>1 DEF Inv, Types
<1>12. LogLength' /\ WriteAhead' /\ CkpInLog' /\ RecInLog'
  <2>1. \A q \in Page : cache'[q] =< Len(log) + 1
    BY <1>0, <1>6 DEF Inv, Types, WriteAhead
  <2>2. flushed' \in flushed..Len(log) + 1
    BY <1>0, <1>6 DEF Inv, Types, WriteAhead
  <2> QED BY <1>0, <1>6, <2>1, <2>2, BoundsGrow
<1>13. SyncedOnDisk'
  BY <1>0, <1>6, OnDiskStays DEF Inv, SyncedOnDisk, WriteAhead, Types
<1> QED BY <1>6, <1>10, <1>11, <1>12, <1>13 DEF Inv

\* A synchronous commit ends with its record on disk.
LEMMA CommitTopKeeps == ASSUME Inv, NEW t \in Txn, NEW sync \in BOOLEAN, CommitTop(t, sync) PROVE Inv'
<1>0. /\ mode = "up" /\ Len(log) < MaxLog
      /\ log' = Append(log, Regop(t, txn[t].last))
      /\ txn' = [Logged(t, Len(log) + 1) EXCEPT ![t].st = "committing"]
      /\ flushed' = IF sync THEN Len(log) + 1 ELSE flushed
      /\ synced' = IF sync THEN synced \cup {t} ELSE synced
      /\ UNCHANGED <<parent, cache, disk, ckp, mode, rec, crashes>>
  BY DEF CommitTop, FlushedByCommit, MayAct, Up
<1>2. InLog(txn[t], log) /\ txn[t] \in TxnDetail
  BY DEF Inv, TxnsInLog, Types
<1>3. PICK r : r = Regop(t, txn[t].last)
  OBVIOUS
<1>4. r \in Rec /\ r.type = "regop" /\ r.prev = txn[t].last /\ r.txn = t
  BY <1>2, <1>3 DEF Regop, Rec, TxnDetail
<1>6. /\ LogOK' /\ Len(log') = Len(log) + 1 /\ log'[Len(log) + 1] = r
      /\ \A n \in 1..Len(log) : log'[n] = log[n]
      /\ \A d : InLog(d, log) => InLog(d, log')
      /\ Len(log) \in Nat
  BY <1>0, <1>2, <1>3, <1>4, Grows DEF InLog
<1>7. PICK n \in Nat : n = Len(log) + 1
  BY <1>6
<1>8. PICK x : x = Logged(t, n)
  OBVIOUS
<1>9. x \in [Txn -> TxnDetail] /\ txn' = [x EXCEPT ![t].st = "committing"]
  BY <1>0, <1>7, <1>8, LoggedFacts
<1>10. txn' \in [Txn -> TxnDetail]
       /\ \A u \in Txn : /\ txn'[u].begin = x[u].begin /\ txn'[u].last = x[u].last
                         /\ txn'[u].undo = x[u].undo
  BY <1>9 DEF TxnDetail
<1>11. TxnsInLog'
  <2>1. PICK w : w = log'
    OBVIOUS
  <2>2. n > 0 /\ Len(w) \in Nat /\ n \in 1..Len(w) /\ w[n].type # "ckp" /\ \A d : InLog(d, log) => InLog(d, w)
    BY <1>4, <1>6, <1>7, <2>1
  <2>3. \A u \in Txn : InLog(x[u], w)
    BY <1>8, <2>2, GrowsFor
  <2> QED BY <1>10, <2>1, <2>3 DEF TxnsInLog, InLog
<1>12. flushed' \in flushed..Len(log) + 1 /\ flushed \in Nat
  BY <1>0, <1>6 DEF Inv, Types, WriteAhead
<1>13. Types'
  BY <1>0, <1>10, <1>12 DEF Inv, Types
<1>14. LogLength' /\ WriteAhead' /\ CkpInLog' /\ RecInLog'
  <2>1. \A q \in Page : cache'[q] =< Len(log) + 1
    BY <1>0, <1>6 DEF Inv, Types, WriteAhead
  <2> QED BY <1>0, <1>6, <1>12, <2>1, BoundsGrow
<1>15. SyncedOnDisk'
  <2>1. \A u \in synced : OnDisk(u)'
    BY <1>6, <1>12, OnDiskStays DEF Inv, SyncedOnDisk, WriteAhead
  <2>2. sync => OnDisk(t)'
    BY <1>0, <1>4, <1>6 DEF OnDisk
  <2> QED BY <1>0, <2>1, <2>2 DEF SyncedOnDisk
<1> QED BY <1>6, <1>11, <1>13, <1>14, <1>15 DEF Inv

\* Steps that leave the log alone, and what of it is on disk.
LEMMA LogStays ==
  ASSUME Inv, UNCHANGED <<log, flushed, synced, mode, crashes>>
  PROVE  /\ LogOK' /\ LogLength' /\ SyncedOnDisk'
         /\ UNCHANGED txn => TxnsInLog'
         /\ UNCHANGED ckp => CkpInLog'
         /\ UNCHANGED rec => RecInLog'
         /\ UNCHANGED <<cache, disk>> => WriteAhead'
BY DEF Inv, LogOK, LogLength, SyncedOnDisk, OnDisk, TxnsInLog, CkpInLog, RecInLog, WriteAhead

\* One transaction changes, in memory only.
LEMMA OneTxn ==
  ASSUME Inv, NEW t \in Txn, NEW d \in TxnDetail, InLog(d, log), txn' = [txn EXCEPT ![t] = d],
         UNCHANGED <<log, parent, flushed, disk, ckp, mode, rec, synced, crashes>>
  PROVE  TxnsInLog' /\ (UNCHANGED cache => Inv')
<1>1. txn' \in [Txn -> TxnDetail]
  BY DEF Inv, Types
<1>2. \A u \in Txn : InLog(txn'[u], log)
  BY DEF Inv, Types, TxnsInLog
<1>3. TxnsInLog'
  BY <1>2 DEF TxnsInLog
<1>4. UNCHANGED cache => Types'
  BY <1>1 DEF Inv, Types
<1> QED BY <1>3, <1>4, LogStays DEF Inv

LEMMA CommitEndsKeeps == ASSUME Inv, NEW t \in Txn, CommitEnds(t) \/ AbortEnds(t) PROVE Inv'
<1>1. InLog(Ended, log) /\ Ended \in TxnDetail
  BY EndedFacts DEF Inv, LogOK
<1> QED BY <1>1, OneTxn DEF CommitEnds, AbortEnds

LEMMA AbortKeeps == ASSUME Inv, NEW t \in Txn, Abort(t) PROVE Inv'
<1>1. txn[t] \in TxnDetail /\ InLog(txn[t], log) /\ WellFormed(log)
  BY DEF Inv, Types, TxnsInLog, LogOK, WellFormed
<1>2. Chain[txn[t].last] \in Seq(Updates(log))
  BY <1>1, ChainFacts DEF InLog
<1>3. PICK c \in Seq(Updates(log)) : c = Chain[txn[t].last]
  BY <1>2
<1>4. PICK d : d = [txn[t] EXCEPT !.st = "aborting", !.undo = c]
  OBVIOUS
<1>5. c \in Seq(Nat) /\ \A i \in 1..Len(c) : c[i] \in Updates(log)
  <2>1. Updates(log) \subseteq Nat
    BY <1>1 DEF Updates, WellFormed
  <2> QED BY <2>1
<1>6. /\ d \in TxnDetail /\ d.begin = txn[t].begin /\ d.last = txn[t].last /\ d.undo = c
  BY <1>1, <1>4, <1>5 DEF TxnDetail
<1>7. InLog(d, log)
  BY <1>1, <1>5, <1>6 DEF InLog, Abort
<1>8. txn' = [txn EXCEPT ![t] = d]
  BY <1>3, <1>4 DEF Abort, Inv, Types
<1> QED BY <1>6, <1>7, <1>8, OneTxn DEF Abort

LEMMA UndoOneKeeps == ASSUME Inv, NEW t \in Txn, UndoOne(t) PROVE Inv'
<1>0. /\ mode = "up" /\ txn[t].undo # <<>>
      /\ cache' = UndoneIn(cache, Head(txn[t].undo))
      /\ txn' = [txn EXCEPT ![t].undo = Tail(@)]
      /\ UNCHANGED <<parent, log, flushed, disk, ckp, mode, rec, synced, crashes>>
  BY DEF UndoOne, Up
<1>1. txn[t] \in TxnDetail /\ InLog(txn[t], log) /\ WellFormed(log)
  BY DEF Inv, Types, TxnsInLog, LogOK, WellFormed
<1>2. PICK u \in Seq(Nat) : u = txn[t].undo
  BY <1>1 DEF TxnDetail
<1>3. Head(u) \in Updates(log) /\ Tail(u) \in Seq(Nat)
      /\ \A i \in 1..Len(Tail(u)) : Tail(u)[i] \in Updates(log)
  <2>1. u # <<>> /\ \A i \in 1..Len(u) : u[i] \in Updates(log)
    BY <1>0, <1>1, <1>2 DEF InLog
  <2>2. Len(u) \in Nat /\ Len(u) > 0 /\ Head(u) = u[1] /\ Tail(u) \in Seq(Nat) /\ Len(Tail(u)) = Len(u) - 1
        /\ \A i \in 1..Len(Tail(u)) : Tail(u)[i] = u[i + 1]
    BY <2>1
  <2> QED BY <2>1, <2>2
<1>4. PICK d : d = [txn[t] EXCEPT !.undo = Tail(u)]
  OBVIOUS
<1>5. d \in TxnDetail /\ d.begin = txn[t].begin /\ d.last = txn[t].last /\ d.undo = Tail(u)
  BY <1>1, <1>3, <1>4 DEF TxnDetail
<1>6. InLog(d, log)
  BY <1>0, <1>1, <1>2, <1>3, <1>5 DEF InLog
<1>7. txn' = [txn EXCEPT ![t] = d]
  BY <1>0, <1>2, <1>4 DEF Inv, Types
<1>8. TxnsInLog'
  BY <1>0, <1>5, <1>6, <1>7, OneTxn
<1>9. cache' \in [Page -> Nat] /\ \A p \in Page : cache'[p] =< Len(log)
  BY <1>0, <1>1, <1>2, <1>3, UndoneFacts DEF Inv, Types, WriteAhead
<1>10. Types'
  BY <1>0, <1>5, <1>7, <1>9 DEF Inv, Types
<1>11. WriteAhead'
  BY <1>0, <1>9 DEF Inv, WriteAhead
<1> QED BY <1>0, <1>8, <1>10, <1>11, LogStays DEF Inv

\* The log is flushed as far as the page shows it.
LEMMA WritePageKeeps == ASSUME Inv, NEW p \in Page, WritePage(p) PROVE Inv'
<1>0. /\ flushed' = Max({flushed, cache[p]})
      /\ disk' = [disk EXCEPT ![p] = cache[p]]
      /\ ckp' = [ckp EXCEPT !.pages = @ \ {p}]
      /\ UNCHANGED <<parent, txn, log, cache, mode, rec, synced, crashes>>
  BY DEF WritePage, FlushedForPage
<1>1. Len(log) \in Nat /\ flushed \in Nat /\ cache \in [Page -> Nat] /\ disk \in [Page -> Nat]
      /\ flushed =< Len(log) /\ cache[p] =< Len(log) /\ \A q \in Page : disk[q] =< flushed
  BY DEF Inv, Types, LogOK, WriteAhead
<1>2. flushed' \in Nat /\ flushed' >= flushed /\ flushed' >= cache[p] /\ flushed' =< Len(log)
  <2>1. PICK c \in Nat : c = cache[p]
    BY <1>1
  <2>2. PICK m : m = Max({flushed, c})
    OBVIOUS
  <2>3. m \in {flushed, c} /\ m >= flushed /\ m >= c
    BY <1>1, <2>2, MaxOfTwo
  <2> QED BY <1>0, <1>1, <2>1, <2>2, <2>3
<1>3. WriteAhead'
  <2>1. \A q \in Page : disk'[q] =< flushed'
    BY <1>0, <1>1, <1>2
  <2>2. mode # "up" => flushed' = Len(log)
    BY <1>1, <1>2 DEF Inv, WriteAhead
  <2> QED BY <1>0, <1>2, <2>1, <2>2 DEF Inv, WriteAhead
<1>4. ckp' \in CkpState /\ ckp'.st = ckp.st /\ ckp'.lsn = ckp.lsn
  BY <1>0 DEF Inv, Types, CkpState
<1>5. Types'
  BY <1>0, <1>1, <1>2, <1>4 DEF Inv, Types
<1>6. LogOK' /\ LogLength' /\ TxnsInLog' /\ RecInLog' /\ CkpInLog'
  BY <1>0, <1>4 DEF Inv, LogOK, LogLength, TxnsInLog, RecInLog, CkpInLog
<1>7. SyncedOnDisk'
  BY <1>0, <1>2, OnDiskStays DEF Inv, SyncedOnDisk
<1> QED BY <1>3, <1>5, <1>6, <1>7 DEF Inv

LEMMA StartCheckpointKeeps == ASSUME Inv, StartCheckpoint PROVE Inv'
<1>0. /\ Len(log) \in 1..MaxLog - 1 /\ ckp' = [ckp EXCEPT !.st = "guessed", !.lsn = Len(log)]
      /\ UNCHANGED <<parent, txn, log, flushed, cache, disk, mode, rec, synced, crashes>>
  BY DEF StartCheckpoint
<1>1. ckp' \in CkpState /\ ckp'.lsn = Len(log)
  <2>1. Len(log) \in Nat
    BY DEF Inv, LogOK
  <2>2. PICK d \in CkpState : d = ckp
    BY DEF Inv, Types
  <2>3. ckp' = [d EXCEPT !.st = "guessed", !.lsn = Len(log)]
    BY <1>0, <2>2
  <2> QED BY <2>1, <2>3 DEF CkpState
<1>2. CkpInLog'
  <2>1. Len(log) \in Nat /\ Len(log) > 0
    BY <1>0 DEF Inv, LogOK
  <2> QED BY <1>0, <1>1, <2>1 DEF CkpInLog
<1>3. Types'
  BY <1>0, <1>1 DEF Inv, Types
<1> QED BY <1>0, <1>2, <1>3, LogStays DEF Inv

LEMMA GetActiveKeeps == ASSUME Inv, GetActive PROVE Inv'
<1>0. /\ ckp.st = "guessed" /\ ckp' = [st |-> "syncing", lsn |-> CheckpointLsn, pages |-> BuffersToSync]
      /\ UNCHANGED <<parent, txn, log, flushed, cache, disk, mode, rec, synced, crashes>>
  BY DEF GetActive
<1>1. CheckpointLsn \in 1..ckp.lsn /\ ckp.lsn \in Nat /\ ckp.lsn =< Len(log) /\ Len(log) \in Nat
  BY <1>0, CheckpointLsnFacts DEF Inv, Types, CkpState, CkpInLog, LogOK
<1>2. BuffersToSync \subseteq Page
  BY DEF BuffersToSync, Dirty
<1>3. ckp' \in CkpState /\ ckp'.lsn = CheckpointLsn
  BY <1>0, <1>1, <1>2 DEF CkpState
<1>4. CkpInLog'
  BY <1>0, <1>1, <1>3 DEF CkpInLog
<1>5. Types'
  BY <1>0, <1>3 DEF Inv, Types
<1> QED BY <1>0, <1>4, <1>5, LogStays DEF Inv

LEMMA CheckpointRecord ==
  ASSUME NEW n \in Nat
  PROVE  Checkpoint(n) \in Rec /\ Checkpoint(n).type = "ckp" /\ Checkpoint(n).lsn = n
BY DEF Checkpoint, Rec

LEMMA NoCheckpointFacts == NoCheckpoint \in CkpState /\ NoCheckpoint.st = "none" /\ NoCheckpoint.lsn = 0
BY DEF NoCheckpoint, CkpState

LEMMA NoRecoveryFacts == NoRecovery \in RecState /\ NoRecovery.at = 0
BY DEF NoRecovery, RecState, Status

LEMMA EndCheckpointKeeps == ASSUME Inv, EndCheckpoint PROVE Inv'
<1>0. /\ mode = "up" /\ ckp.st = "syncing" /\ Len(log) < MaxLog
      /\ log' = Append(log, Checkpoint(ckp.lsn))
      /\ flushed' = Len(log) + 1
      /\ ckp' = NoCheckpoint
      /\ UNCHANGED <<parent, txn, cache, disk, mode, rec, synced, crashes>>
  BY DEF EndCheckpoint, Up
<1>1. ckp.lsn \in Nat /\ ckp.lsn \in 1..Len(log)
  BY <1>0 DEF Inv, Types, CkpState, CkpInLog, LogOK
<1>2. PICK r : r = Checkpoint(ckp.lsn)
  OBVIOUS
<1>3. r \in Rec /\ r.type = "ckp" /\ r.lsn = ckp.lsn
  BY <1>1, <1>2, CheckpointRecord
<1>4. /\ LogOK' /\ Len(log') = Len(log) + 1
      /\ \A n \in 1..Len(log) : log'[n] = log[n]
      /\ \A d : InLog(d, log) => InLog(d, log')
      /\ Len(log) \in Nat
  BY <1>0, <1>1, <1>2, <1>3, Grows
<1>5. TxnsInLog'
  BY <1>0, <1>4 DEF Inv, TxnsInLog
<1>6. flushed \in Nat /\ flushed =< Len(log)
  BY DEF Inv, Types, WriteAhead
<1>7. Types'
  BY <1>0, <1>4, NoCheckpointFacts DEF Inv, Types
<1>8. LogLength' /\ WriteAhead' /\ RecInLog'
  <2>1. \A q \in Page : cache'[q] =< Len(log) + 1
    BY <1>0, <1>4 DEF Inv, Types, WriteAhead
  <2>2. flushed' \in flushed..Len(log) + 1
    BY <1>0, <1>4, <1>6
  <2> QED BY <1>0, <1>4, <2>1, <2>2, BoundsGrow
<1>9. CkpInLog'
  BY <1>0, <1>4, NoCheckpointFacts DEF CkpInLog
<1>10. SyncedOnDisk'
  <2>1. flushed' \in Nat /\ flushed' >= flushed
    BY <1>0, <1>4, <1>6
  <2> QED BY <1>0, <1>4, <1>6, <2>1, OnDiskStays DEF Inv, SyncedOnDisk
<1> QED BY <1>4, <1>5, <1>7, <1>8, <1>9, <1>10 DEF Inv

\* What a crash leaves of the log is at least what was flushed, and so
\* everything that a page on disk shows.
LEMMA CrashKeeps == ASSUME Inv, NEW n \in 0..Len(log), Crash(n) PROVE Inv'
<1>0. /\ mode \in {"up", "recovering"} /\ crashes < MaxCrash /\ n >= flushed
      /\ log' = SubSeq(log, 1, n)
      /\ flushed' = n
      /\ txn' = [t \in Txn |-> IF txn[t].last # 0 \/ txn[t].begin # 0 THEN Ended ELSE txn[t]]
      /\ cache' = disk
      /\ ckp' = NoCheckpoint /\ rec' = NoRecovery /\ mode' = "down"
      /\ crashes' = crashes + 1
      /\ UNCHANGED <<parent, disk, synced>>
  BY DEF Crash
<1>1. WellFormed(log) /\ Len(log) \in Nat
  BY DEF Inv, LogOK, WellFormed
<1>2. PICK w : w = SubSeq(log, 1, n)
  OBVIOUS
<1>3. WellFormed(w) /\ Len(w) = n /\ \A i \in 1..n : w[i] = log[i]
  BY <1>1, <1>2, LogCut
<1>4. w = log'
  BY <1>0, <1>2
<1>5. LogOK'
  BY <1>3, <1>4 DEF LogOK, WellFormed
<1>6. ASSUME NEW t \in Txn PROVE txn'[t] \in TxnDetail /\ InLog(txn'[t], w)
  <2>1. CASE txn[t].last # 0 \/ txn[t].begin # 0
    BY <1>0, <1>3, <2>1, EndedFacts DEF WellFormed
  <2>2. CASE txn[t].last = 0 /\ txn[t].begin = 0
    <3>1. txn'[t] = txn[t] /\ txn[t] \in TxnDetail /\ txn[t].undo = <<>>
      BY <1>0, <2>2 DEF Inv, Types, TxnsInLog, InLog
    <3> QED BY <1>3, <2>2, <3>1 DEF InLog, LeadsTo, WellFormed
  <2> QED BY <2>1, <2>2
<1>7. TxnsInLog'
  BY <1>4, <1>6 DEF TxnsInLog
<1>8. Types'
  <2>1. txn' \in [Txn -> TxnDetail]
    <3>1. txn' = [t \in Txn |-> txn'[t]]
      BY <1>0
    <3> QED BY <1>6, <3>1
  <2>2. crashes' \in 0..MaxCrash
    BY <1>0, RecoveryAssumption DEF Inv, Types
  <2> QED BY <1>0, <1>1, <2>1, <2>2, NoCheckpointFacts, NoRecoveryFacts DEF Inv, Types
<1>9. LogLength'
  <2>1. Len(log) =< MaxLog + crashes
    BY <1>1, RecoveryAssumption DEF Inv, Types, LogLength
  <2> QED BY <1>0, <1>1, <1>3, <1>4, <2>1, RecoveryAssumption DEF Inv, Types, LogLength
<1>10. WriteAhead'
  <2>1. \A p \in Page : disk[p] \in Nat /\ disk[p] =< n
    BY <1>0, <1>1 DEF Inv, Types, WriteAhead
  <2> QED BY <1>0, <1>3, <1>4, <2>1 DEF WriteAhead
<1>11. CkpInLog' /\ RecInLog'
  BY <1>0, <1>3, <1>4, NoCheckpointFacts, NoRecoveryFacts DEF CkpInLog, RecInLog
<1>12. SyncedOnDisk'
  <2>1. \A i \in 1..flushed : log'[i] = log[i]
    BY <1>0, <1>1, <1>3, <1>4 DEF Inv, Types
  <2>2. flushed' \in Nat /\ flushed' >= flushed
    BY <1>0, <1>1
  <2>3. \A t : OnDisk(t) => OnDisk(t)'
    BY <2>1, <2>2, OnDiskStays
  <2> QED BY <1>0, <2>3 DEF Inv, SyncedOnDisk
<1> QED BY <1>5, <1>7, <1>8, <1>9, <1>10, <1>11, <1>12 DEF Inv

LEMMA StartRecoveryKeeps == ASSUME Inv, StartRecovery PROVE Inv'
<1>0. mode = "down" /\ UNCHANGED <<parent, txn, log, flushed, cache, disk, ckp, synced, crashes>>
  BY DEF StartRecovery
<1>1. WellFormed(log) /\ Len(log) \in Nat
  BY DEF Inv, LogOK, WellFormed
<1>2. LogOK' /\ TxnsInLog' /\ CkpInLog' /\ SyncedOnDisk'
  BY <1>0 DEF Inv, LogOK, TxnsInLog, CkpInLog, SyncedOnDisk, OnDisk
<1>3. CASE log = <<>>
  <2>1. mode' = "up" /\ UNCHANGED rec
    BY <1>3 DEF StartRecovery
  <2>2. Types' /\ WriteAhead' /\ RecInLog'
    BY <1>0, <2>1 DEF Inv, Types, WriteAhead, RecInLog
  <2>3. LogLength'
    BY <1>0, <1>3, <2>1, RecoveryAssumption DEF Inv, Types, LogLength
  <2> QED BY <1>2, <2>2, <2>3 DEF Inv
<1>4. CASE log # <<>>
  <2>1. /\ mode' = "recovering"
        /\ rec' = [pass |-> "backward", at |-> Len(log), first |-> FirstLsn, list |-> Opened]
    BY <1>4 DEF StartRecovery
  <2>2. FirstLsn \in 1..Len(log) /\ Opened \in [Txn -> Status]
    BY <1>1, <1>4, FirstLsnFacts, OpenedFacts
  <2>3. rec' \in RecState
    BY <1>1, <2>1, <2>2 DEF RecState
  <2>4. RecInLog'
    BY <1>0, <1>1, <2>1, <2>2 DEF RecInLog
  <2>5. Types' /\ WriteAhead' /\ LogLength'
    BY <1>0, <2>1, <2>3 DEF Inv, Types, WriteAhead, LogLength
  <2> QED BY <1>2, <2>4, <2>5 DEF Inv
<1> QED BY <1>3, <1>4

\* A step of recovery changes pages in the cache and its own list.
LEMMA RecoveryMoves ==
  ASSUME Inv, mode = "recovering", UNCHANGED <<parent, txn, log, flushed, disk, ckp, synced, crashes>>,
         mode' \in {"recovering", "failed"}, rec' \in RecState,
         cache' \in [Page -> Nat], \A p \in Page : cache'[p] =< Len(log),
         RecInLog'
  PROVE  Inv'
<1>1. Types'
  BY DEF Inv, Types
<1>2. WriteAhead' /\ LogLength'
  BY DEF Inv, WriteAhead, LogLength
<1>3. LogOK' /\ TxnsInLog' /\ CkpInLog' /\ SyncedOnDisk'
  BY DEF Inv, LogOK, TxnsInLog, CkpInLog, SyncedOnDisk, OnDisk
<1> QED BY <1>1, <1>2, <1>3 DEF Inv

LEMMA DecidedFacts == ASSUME Inv, NEW t \in Txn PROVE Decided(t) \in Status
<1>1. rec.list[t] \in Status
  BY DEF Inv, Types, RecState
<1>2. CASE rec.list[t] = "absent"
  <2>1. Decided(t) = "ignore"
    BY <1>2, Zenon DEF Decided
  <2> QED BY <2>1 DEF Status
<1>3. CASE rec.list[t] = "ok"
  <2>1. Decided(t) = "abort"
    BY <1>3, Zenon DEF Decided
  <2> QED BY <2>1 DEF Status
<1>4. CASE rec.list[t] # "absent" /\ rec.list[t] # "ok"
  <2>1. Decided(t) = rec.list[t]
    BY <1>4, Zenon DEF Decided
  <2> QED BY <1>1, <2>1
<1> QED BY <1>2, <1>3, <1>4

LEMMA BackwardKeeps == ASSUME Inv, Backward PROVE Inv'
<1>0. /\ mode = "recovering" /\ rec.pass = "backward" /\ rec.at >= rec.first
      /\ UNCHANGED <<parent, txn, log, flushed, disk, ckp, synced, crashes>>
  BY DEF Backward
<1>1. /\ WellFormed(log) /\ Len(log) \in Nat /\ cache \in [Page -> Nat] /\ \A p \in Page : cache[p] =< Len(log)
      /\ rec \in RecState
  BY DEF Inv, LogOK, WellFormed, Types, WriteAhead
<1>2. rec.first \in 1..Len(log) /\ rec.at \in 1..Len(log)
  BY <1>0, <1>1 DEF Inv, RecInLog, RecState
<1>3. CASE RollBackFails(log[rec.at])
  <2>1. mode' = "failed" /\ UNCHANGED <<cache, rec>>
    BY <1>3 DEF Backward
  <2>2. RecInLog'
    BY <1>0, <1>2, <2>1 DEF Inv, RecInLog
  <2> QED BY <1>0, <1>1, <2>1, <2>2, RecoveryMoves
<1>4. CASE ~RollBackFails(log[rec.at])
  <2>1. RollBack(log[rec.at], rec.at) /\ UNCHANGED mode
    BY <1>4 DEF Backward
  <2>2. PICK r \in Rec : r = log[rec.at]
    BY <1>1, <1>2 DEF WellFormed
  <2>3. PICK l \in 1..Len(log) : l = rec.at
    BY <1>2
  <2>4. RollBack(r, l)
    BY <2>1, <2>2, <2>3
  <2>5. PICK here : here = [rec EXCEPT !.at = l - 1]
    OBVIOUS
  <2>6. here \in RecState /\ here.pass = rec.pass /\ here.first = rec.first /\ here.at = l - 1
        /\ here.list = rec.list
    BY <1>1, <1>2, <2>3, <2>5 DEF RecState
  <2>7. \/ /\ rec' = here /\ UNCHANGED cache
        \/ /\ r.type = "regop" /\ UNCHANGED cache
           /\ rec' = [here EXCEPT !.list = Marked(here.list, r.txn, "commit")]
        \/ /\ r.type = "update"
           /\ rec' = [here EXCEPT !.list[r.txn] = Decided(r.txn)]
           /\ UNCHANGED cache \/ cache' = UndoneIn(cache, l)
        \/ /\ r.type = "child" /\ UNCHANGED cache
           /\ rec' = [here EXCEPT !.list[r.txn] = "ignore"]
        \/ /\ r.type = "child" /\ UNCHANGED cache
           /\ rec' = [here EXCEPT !.list[r.txn] = Decided(r.txn),
                                  !.list[r.child] = FateOfChild(r.child, Decided(r.txn))]
    BY <2>4, <2>5, <2>6 DEF RollBack
  <2>8. cache' \in [Page -> Nat] /\ \A p \in Page : cache'[p] =< Len(log)
    <3>1. CASE UNCHANGED cache
      BY <1>1, <3>1
    <3>2. CASE r.type = "update" /\ cache' = UndoneIn(cache, l)
      <4>1. l \in Updates(log)
        BY <2>2, <2>3, <3>2 DEF Updates
      <4> QED BY <1>1, <3>2, <4>1, UndoneFacts
    <3> QED BY <2>7, <3>1, <3>2
  <2>9. PICK list : rec' = [here EXCEPT !.list = list] /\ list \in [Txn -> Status]
    <3>1. here.list \in [Txn -> Status] /\ {"commit", "ignore", "abort"} \subseteq Status
      BY <1>1, <2>6 DEF RecState, Status
    <3>2. r.type # "ckp" => r.txn \in Txn /\ Decided(r.txn) \in Status
      BY RecFacts, DecidedFacts
    <3>3. CASE rec' = here
      <4>1. here = [here EXCEPT !.list = here.list]
        BY <2>6 DEF RecState
      <4> QED BY <3>1, <3>3, <4>1
    <3>4. CASE r.type = "regop" /\ rec' = [here EXCEPT !.list = Marked(here.list, r.txn, "commit")]
      BY <3>1, <3>2, <3>4, MarkedFacts
    <3>5. CASE r.type = "update" /\ rec' = [here EXCEPT !.list[r.txn] = Decided(r.txn)]
      <4>1. PICK x : x = [here.list EXCEPT ![r.txn] = Decided(r.txn)]
        OBVIOUS
      <4>2. rec' = [here EXCEPT !.list = x]
        BY <3>5, <4>1
      <4>3. x \in [Txn -> Status]
        BY <3>1, <3>2, <3>5, <4>1
      <4> QED BY <4>2, <4>3
    <3>6. CASE r.type = "child" /\ rec' = [here EXCEPT !.list[r.txn] = "ignore"]
      <4>1. PICK x : x = [here.list EXCEPT ![r.txn] = "ignore"]
        OBVIOUS
      <4>2. rec' = [here EXCEPT !.list = x]
        BY <3>6, <4>1
      <4>3. x \in [Txn -> Status]
        BY <3>1, <4>1
      <4> QED BY <4>2, <4>3
    <3>7. CASE r.type = "child" /\ rec' = [here EXCEPT !.list[r.txn] = Decided(r.txn),
                                  !.list[r.child] = FateOfChild(r.child, Decided(r.txn))]
      <4>1. PICK a \in Status : a = Decided(r.txn)
        BY <3>2, <3>7
      <4>2. PICK b : b = FateOfChild(r.child, a)
        OBVIOUS
      <4>3. b \in Status
        <5>1. r.child \in Txn
          BY <3>7, RecFacts
        <5> QED BY <2>6, <3>1, <4>1, <4>2, <5>1 DEF FateOfChild
      <4>4. PICK x : x = [here.list EXCEPT ![r.txn] = a, ![r.child] = b]
        OBVIOUS
      <4>5. rec' = [here EXCEPT !.list = x]
        <5>1. rec' = [here EXCEPT !.list[r.txn] = a, !.list[r.child] = b]
          BY <3>7, <4>1, <4>2
        <5>2. [here EXCEPT !.list[r.txn] = a, !.list[r.child] = b] = [here EXCEPT !.list = x]
          BY <2>6, <4>4 DEF RecState
        <5> QED BY <5>1, <5>2
      <4>6. x \in [Txn -> Status]
        BY <3>1, <4>1, <4>3, <4>4
      <4> QED BY <4>5, <4>6
    <3> QED BY <2>7, <3>3, <3>4, <3>5, <3>6, <3>7
  <2>10. rec' \in RecState /\ rec'.pass = rec.pass /\ rec'.first = rec.first /\ rec'.at = l - 1
    BY <2>6, <2>9 DEF RecState
  <2>11. RecInLog'
    BY <1>0, <1>1, <1>2, <2>1, <2>10 DEF RecInLog
  <2> QED BY <1>0, <1>1, <2>1, <2>8, <2>10, <2>11, RecoveryMoves
<1> QED BY <1>3, <1>4

LEMMA TurnForwardKeeps == ASSUME Inv, TurnForward PROVE Inv'
<1>0. /\ mode = "recovering"
      /\ rec' = [rec EXCEPT !.pass = "forward", !.at = rec.first]
      /\ UNCHANGED <<parent, txn, log, flushed, cache, disk, ckp, mode, synced, crashes>>
  BY DEF TurnForward
<1>1. /\ Len(log) \in Nat /\ cache \in [Page -> Nat] /\ \A p \in Page : cache[p] =< Len(log)
      /\ rec \in RecState /\ rec.first \in 1..Len(log)
  BY <1>0 DEF Inv, LogOK, Types, WriteAhead, RecInLog
<1>2. rec' \in RecState /\ rec'.pass = "forward" /\ rec'.at = rec.first /\ rec'.first = rec.first
  BY <1>0, <1>1 DEF RecState
<1>3. RecInLog'
  BY <1>0, <1>1, <1>2 DEF RecInLog
<1> QED BY <1>0, <1>1, <1>2, <1>3, RecoveryMoves

LEMMA ForwardKeeps == ASSUME Inv, Forward PROVE Inv'
<1>0. /\ mode = "recovering" /\ rec.pass = "forward" /\ rec.at =< Len(log)
      /\ UNCHANGED <<parent, txn, log, flushed, disk, ckp, synced, crashes>>
  BY DEF Forward
<1>1. /\ WellFormed(log) /\ Len(log) \in Nat /\ cache \in [Page -> Nat] /\ \A p \in Page : cache[p] =< Len(log)
      /\ rec \in RecState
  BY DEF Inv, LogOK, WellFormed, Types, WriteAhead
<1>2. rec.first \in 1..Len(log) /\ rec.at \in 1..Len(log)
  BY <1>0, <1>1 DEF Inv, RecInLog, RecState
<1>3. CASE Redone(log[rec.at]) /\ RollForwardFails(log[rec.at])
  <2>1. mode' = "failed" /\ UNCHANGED <<cache, rec>>
    BY <1>3 DEF Forward
  <2>2. RecInLog'
    BY <1>0, <1>2, <2>1 DEF Inv, RecInLog
  <2> QED BY <1>0, <1>1, <2>1, <2>2, RecoveryMoves
<1>4. CASE ~(Redone(log[rec.at]) /\ RollForwardFails(log[rec.at]))
  <2>1. RollForward(log[rec.at], rec.at) /\ UNCHANGED mode
    BY <1>4 DEF Forward
  <2>2. PICK r \in Rec : r = log[rec.at]
    BY <1>1, <1>2 DEF WellFormed
  <2>3. PICK l \in 1..Len(log) : l = rec.at
    BY <1>2
  <2>4. PICK list : list = [t \in Txn |-> IF t \in Resolved(r) THEN "absent" ELSE rec.list[t]]
    OBVIOUS
  <2>5. rec' = [rec EXCEPT !.at = l + 1, !.list = list]
    BY <2>1, <2>2, <2>3, <2>4 DEF RollForward
  <2>6. (cache' = RedoneIn(cache, l) /\ r.type = "update") \/ UNCHANGED cache
    BY <2>1, <2>2, <2>3 DEF RollForward
  <2>7. list \in [Txn -> Status]
    BY <1>1, <2>4 DEF RecState, Status
  <2>8. rec' \in RecState /\ rec'.pass = rec.pass /\ rec'.first = rec.first /\ rec'.at = l + 1
    <3>1. PICK q \in RecState : q = rec
      BY <1>1
    <3>2. PICK n \in Nat : n = l + 1
      BY <1>1
    <3>3. PICK z : z = [q EXCEPT !.at = n, !.list = list]
      OBVIOUS
    <3>4. z \in RecState /\ z.pass = q.pass /\ z.first = q.first /\ z.at = n
      BY <2>7, <3>3 DEF RecState
    <3>5. rec' = z
      BY <2>5, <3>1, <3>2, <3>3
    <3> QED BY <3>1, <3>2, <3>4, <3>5
  <2>9. cache' \in [Page -> Nat] /\ \A p \in Page : cache'[p] =< Len(log)
    <3>1. CASE UNCHANGED cache
      BY <1>1, <3>1
    <3>2. CASE r.type = "update" /\ cache' = RedoneIn(cache, l)
      <4>1. l \in Updates(log)
        BY <2>2, <2>3, <3>2 DEF Updates
      <4> QED BY <1>1, <3>2, <4>1, RedoneFacts
    <3> QED BY <2>6, <3>1, <3>2
  <2>10. RecInLog'
    BY <1>0, <1>1, <1>2, <2>1, <2>3, <2>8 DEF RecInLog
  <2> QED BY <1>0, <1>1, <2>1, <2>8, <2>9, <2>10, RecoveryMoves
<1> QED BY <1>3, <1>4

\* Recovery ends with a record that is not flushed; every page is on disk,
\* and shows nothing behind what was flushed before.
LEMMA EndRecoveryKeeps == ASSUME Inv, EndRecovery PROVE Inv'
<1>0. /\ mode = "recovering" /\ disk' = cache
      /\ log' = Append(log, Checkpoint(Len(log)))
      /\ mode' = "up" /\ rec' = NoRecovery
      /\ UNCHANGED <<parent, txn, flushed, cache, ckp, synced, crashes>>
  BY DEF EndRecovery
<1>1. Len(log) \in Nat /\ Len(log) > 0 /\ flushed = Len(log)
  BY <1>0 DEF Inv, LogOK, RecInLog, WriteAhead
<1>2. PICK r : r = Checkpoint(Len(log))
  OBVIOUS
<1>3. r \in Rec /\ r.type = "ckp" /\ r.lsn = Len(log)
  BY <1>1, <1>2, CheckpointRecord
<1>4. /\ LogOK' /\ Len(log') = Len(log) + 1
      /\ \A n \in 1..Len(log) : log'[n] = log[n]
      /\ \A d : InLog(d, log) => InLog(d, log')
  BY <1>0, <1>1, <1>2, <1>3, Grows
<1>5. TxnsInLog'
  BY <1>0, <1>4 DEF Inv, TxnsInLog
<1>6. Types'
  BY <1>0, NoRecoveryFacts DEF Inv, Types
<1>7. LogLength'
  BY <1>0, <1>1, <1>4, RecoveryAssumption DEF Inv, Types, LogLength
<1>8. WriteAhead'
  <2>1. \A p \in Page : cache[p] \in Nat /\ cache[p] =< flushed
    BY <1>1 DEF Inv, Types, WriteAhead
  <2> QED BY <1>0, <1>1, <1>4, <2>1 DEF WriteAhead
<1>9. CkpInLog' /\ RecInLog'
  BY <1>0, <1>1, <1>4, NoRecoveryFacts DEF Inv, Types, CkpState, CkpInLog, RecInLog
<1>10. SyncedOnDisk'
  BY <1>0, <1>1, <1>4, OnDiskStays DEF Inv, SyncedOnDisk
<1> QED BY <1>4, <1>5, <1>6, <1>7, <1>8, <1>9, <1>10 DEF Inv

LEMMA StepKeeps == ASSUME Inv, [Next]_vars PROVE Inv'
<1>1. CASE UNCHANGED vars
  BY <1>1 DEF vars, Inv, Types, LogOK, TxnsInLog, LogLength, WriteAhead, CkpInLog, RecInLog, SyncedOnDisk, OnDisk
<1>2. CASE \E t \in Txn, p \in Page : Change(t, p)
  BY <1>2, ChangeKeeps
<1>3. CASE \E t \in Txn : CommitChild(t)
  BY <1>3, CommitChildKeeps
<1>4. CASE \E t \in Txn, sync \in BOOLEAN : CommitTop(t, sync)
  BY <1>4, CommitTopKeeps
<1>5. CASE \E t \in Txn : CommitEnds(t) \/ AbortEnds(t)
  BY <1>5, CommitEndsKeeps
<1>6. CASE \E t \in Txn : Abort(t)
  BY <1>6, AbortKeeps
<1>7. CASE \E t \in Txn : UndoOne(t)
  BY <1>7, UndoOneKeeps
<1>8. CASE \E p \in Page : WritePage(p)
  BY <1>8, WritePageKeeps
<1>9. CASE StartCheckpoint \/ GetActive \/ EndCheckpoint
  BY <1>9, StartCheckpointKeeps, GetActiveKeeps, EndCheckpointKeeps
<1>10. CASE \E n \in 0 .. Len(log) : Crash(n)
  BY <1>10, CrashKeeps
<1>11. CASE RecoveryStep
  BY <1>11, StartRecoveryKeeps, BackwardKeeps, TurnForwardKeeps, ForwardKeeps, EndRecoveryKeeps
     DEF RecoveryStep
<1> QED BY <1>1, <1>2, <1>3, <1>4, <1>5, <1>6, <1>7, <1>8, <1>9, <1>10, <1>11 DEF Next

-----------------------------------------------------------------------------
(* Theorems *)

(* The inductive invariant: the log leads only backwards, what memory and   *)
(* pages refer to is in it, and no page on disk is ahead of the log there.  *)
THEOREM Invariance == Spec => []Inv
<1>1. Init => Inv
  BY Initially
<1>2. Inv /\ [Next]_vars => Inv'
  BY StepKeeps
<1> QED BY <1>1, <1>2, PTL DEF Spec

(* The state is well formed at any time, in the middle of a recovery that   *)
(* is itself interrupted too: no page and no transaction refers to a        *)
(* record that a crash took away.                                          *)
THEOREM TypeCorrect == Spec => []TypeOK
<1>1. Inv => TypeOK
  <2> SUFFICES ASSUME Inv PROVE TypeOK
    OBVIOUS
  <2>0. Len(log) \in Nat /\ flushed \in Nat /\ flushed =< Len(log)
        /\ crashes \in 0..MaxCrash /\ log \in Seq(Rec)
    BY DEF Inv, Types, LogOK, WriteAhead
  <2>1. Len(log) \in Lsn
    BY <2>0, RecoveryAssumption DEF Inv, LogLength, Lsn
  <2>2. ASSUME NEW t \in Txn
        PROVE  /\ txn[t].st \in {"running", "committing", "aborting", "ended"}
               /\ txn[t].begin \in Lsn /\ txn[t].last \in Lsn
               /\ \A i \in DOMAIN txn[t].undo : log[txn[t].undo[i]].type = "update"
    <3>1. txn[t] \in TxnDetail /\ InLog(txn[t], log)
      BY DEF Inv, Types, TxnsInLog
    <3>2. \A n \in 0..Len(log) : n \in Lsn
      BY <2>0, <2>1, RecoveryAssumption DEF Lsn
    <3>3. txn[t].begin \in Lsn /\ txn[t].last \in Lsn
      BY <2>0, <3>1, <3>2 DEF InLog, LeadsTo
    <3>4. txn[t].undo \in Seq(Nat)
      BY <3>1 DEF TxnDetail
    <3>5. \A i \in DOMAIN txn[t].undo : log[txn[t].undo[i]].type = "update"
      BY <3>1, <3>4 DEF InLog, Updates
    <3> QED BY <3>1, <3>3, <3>5 DEF TxnDetail
  <2>3. cache \in [Page -> 0 .. Len(log)] /\ disk \in [Page -> 0 .. Len(log)]
    <3>1. \A p \in Page : cache[p] \in 0..Len(log) /\ disk[p] \in 0..Len(log)
      BY <2>0 DEF Inv, Types, WriteAhead
    <3> QED BY <3>1 DEF Inv, Types
  <2>4. ckp.st \in {"none", "guessed", "syncing"} /\ ckp.lsn \in 0 .. Len(log) /\ ckp.pages \subseteq Page
    BY <2>0 DEF Inv, Types, CkpState, CkpInLog
  <2>5. /\ rec.pass \in {"none", "backward", "forward"}
        /\ rec.at \in 0 .. Len(log) + 1 /\ rec.list \in [Txn -> Status]
    BY <2>0 DEF Inv, Types, RecState, RecInLog
  <2> QED BY <2>0, <2>1, <2>2, <2>3, <2>4, <2>5 DEF TypeOK, Inv, Types
<1> QED BY <1>1, Invariance, PTL

(* A commit that was reported as done with DB_TXN_SYNC is in the log after  *)
(* any number of crashes.                                                  *)
THEOREM SyncCommitsLastHolds == Spec => []SyncCommitsLast
<1>1. Inv => SyncCommitsLast
  <2> SUFFICES ASSUME Inv, NEW t \in synced
               PROVE  \E l \in DOMAIN log : log[l].type = "regop" /\ log[l].txn = t
    BY DEF SyncCommitsLast
  <2>1. PICK l \in 1..flushed : log[l].type = "regop" /\ log[l].txn = t
    BY DEF Inv, SyncedOnDisk, OnDisk
  <2>2. l \in DOMAIN log
    BY DEF Inv, Types, LogOK, WriteAhead
  <2> QED BY <2>1, <2>2
<1> QED BY <1>1, Invariance, PTL

-----------------------------------------------------------------------------
(* Families of transactions *)

\* What holds of a top-level transaction and passes from parent to child
\* holds of all: parents form no circle.
LEMMA FamilyInduction ==
  ASSUME parent \in Trees, NEW G, \A t \in Txn : (parent[t] # NoTxn => parent[t] \in G) => t \in G
  PROVE  Txn \subseteq G
<1>1. PICK S : S = Txn \ G
  OBVIOUS
<1>2. ASSUME S # {} PROVE FALSE
  <2>1. S \in (SUBSET Txn) \ {{}}
    BY <1>1, <1>2
  <2>2. PICK t \in S : parent[t] \notin S
    BY <2>1, RecoveryAssumption
  <2>3. parent[t] \in Txn \cup {NoTxn}
    BY <1>1, RecoveryAssumption
  <2> QED BY <1>1, <2>2, <2>3
<1> QED BY <1>1, <1>2

\* S contains the parents of its members.
Upward(S) == \A t \in S : parent[t] # NoTxn => parent[t] \in S

IsLineage(g) == g = [t \in Txn |-> IF parent[t] = NoTxn THEN {t} ELSE {t} \cup g[parent[t]]]

LEMMA LineageExists ==
  ASSUME parent \in Trees
  PROVE  \E g : IsLineage(g)
<1>0. parent \in [Txn -> Txn \cup {NoTxn}] /\ NoTxn \notin Txn
  BY RecoveryAssumption
<1>1. PICK g : g = [t \in Txn |-> {a \in Txn : \A S \in SUBSET Txn : t \in S /\ Upward(S) => a \in S}]
  OBVIOUS
<1>2. ASSUME NEW t \in Txn
      PROVE  g[t] = IF parent[t] = NoTxn THEN {t} ELSE {t} \cup g[parent[t]]
  <2>1. t \in g[t]
    BY <1>1
  <2>2. CASE parent[t] = NoTxn
    <3>1. Upward({t}) /\ {t} \in SUBSET Txn
      BY <2>2 DEF Upward
    <3> QED BY <1>1, <2>1, <2>2, <3>1
  <2>3. CASE parent[t] # NoTxn
    <3>1. PICK q \in Txn : q = parent[t]
      BY <1>0, <2>3
    <3>2. ASSUME NEW a \in g[q] PROVE a \in g[t]
      <4>1. \A S \in SUBSET Txn : t \in S /\ Upward(S) => q \in S
        BY <2>3, <3>1 DEF Upward
      <4> QED BY <1>1, <3>2, <4>1
    <3>3. ASSUME NEW a \in g[t], a # t PROVE a \in g[q]
      <4> SUFFICES ASSUME NEW S \in SUBSET Txn, q \in S, Upward(S) PROVE a \in S
        BY <1>1, <3>3
      <4>1. Upward(S \cup {t}) /\ S \cup {t} \in SUBSET Txn
        BY <3>1 DEF Upward
      <4>2. a \in S \cup {t}
        BY <1>1, <3>3, <4>1
      <4> QED BY <3>3, <4>2
    <3> QED BY <2>1, <2>3, <3>1, <3>2, <3>3
  <2> QED BY <2>2, <2>3
<1>3. g = [t \in Txn |-> IF parent[t] = NoTxn THEN {t} ELSE {t} \cup g[parent[t]]]
  BY <1>1, <1>2
<1> QED BY <1>3, Zenon DEF IsLineage

LEMMA LineageIs == ASSUME parent \in Trees PROVE IsLineage(Lineage)
<1>1. PICK g : IsLineage(g)
  BY LineageExists
<1>2. g = [t \in Txn |-> IF parent[t] = NoTxn THEN {t} ELSE {t} \cup g[parent[t]]]
  BY <1>1, Zenon DEF IsLineage
<1>3. \E h : h = [t \in Txn |-> IF parent[t] = NoTxn THEN {t} ELSE {t} \cup h[parent[t]]] /\ Lineage = h
  BY <1>2, Zenon DEF Lineage
<1> QED BY <1>3, Zenon DEF IsLineage

LEMMA LineageIsNext == ASSUME parent \in Trees, UNCHANGED parent PROVE IsLineage(Lineage')
<1>1. PICK g : IsLineage(g)
  BY LineageExists
<1>2. g = [t \in Txn |-> IF parent'[t] = NoTxn THEN {t} ELSE {t} \cup g[parent'[t]]]
  BY <1>1 DEF IsLineage
<1>3. \E h : h = [t \in Txn |-> IF parent'[t] = NoTxn THEN {t} ELSE {t} \cup h[parent'[t]]] /\ Lineage' = h
  BY <1>2, Zenon DEF Lineage
<1> QED BY <1>3 DEF IsLineage

\* The ancestors of a transaction, and the root of its family.
LEMMA FamilyFacts ==
  ASSUME parent \in Trees, NEW t \in Txn
  PROVE  /\ Lineage[t] \subseteq Txn /\ t \in Lineage[t]
         /\ \A a \in Lineage[t] : Lineage[a] \subseteq Lineage[t] /\ Top(a) = Top(t)
         /\ Top(t) \in Lineage[t] /\ parent[Top(t)] = NoTxn
         /\ parent[t] = NoTxn => Top(t) = t /\ Lineage[t] = {t}
         /\ parent[t] # NoTxn => /\ parent[t] \in Txn /\ parent[t] # t
                                 /\ Lineage[t] = {t} \cup Lineage[parent[t]]
                                 /\ Top(t) = Top(parent[t])
<1>0. parent \in [Txn -> Txn \cup {NoTxn}] /\ NoTxn \notin Txn
  BY RecoveryAssumption
<1>1. PICK L : L = [u \in Txn |-> Lineage[u]]
  OBVIOUS
<1>2. \A u \in Txn : L[u] = Lineage[u] /\ L[u] = IF parent[u] = NoTxn THEN {u} ELSE {u} \cup L[parent[u]]
  BY <1>0, <1>1, LineageIs DEF IsLineage
<1> DEFINE roots(u) == {a \in L[u] : parent[a] = NoTxn}
           G == {u \in Txn : /\ L[u] \subseteq Txn
                             /\ \A a \in L[u] : L[a] \subseteq L[u]
                             /\ \E r \in Txn : \A a \in L[u] : roots(a) = {r}}
<1>3. ASSUME NEW u \in Txn, parent[u] # NoTxn => parent[u] \in G PROVE u \in G
  <2>1. CASE parent[u] = NoTxn
    <3>1. L[u] = {u} /\ roots(u) = {u}
      BY <1>2, <2>1
    <3> QED BY <3>1
  <2>2. CASE parent[u] # NoTxn
    <3>1. PICK q \in G : q = parent[u]
      BY <1>3, <2>2
    <3>2. L[u] = {u} \cup L[q] /\ q \in L[q] /\ u \in L[u]
      <4>1. q \in Txn /\ L[u] = {u} \cup L[q]
        BY <1>2, <2>2, <3>1
      <4>2. q \in L[q]
        <5>1. CASE parent[q] = NoTxn
          BY <1>2, <4>1, <5>1
        <5>2. CASE parent[q] # NoTxn
          BY <1>2, <4>1, <5>2
        <5> QED BY <5>1, <5>2
      <4> QED BY <4>1, <4>2
    <3>3. PICK r \in Txn : \A a \in L[q] : roots(a) = {r}
      BY <3>1
    <3>4. roots(u) = roots(q) /\ roots(q) = {r}
      BY <2>2, <3>2, <3>3
    <3>5. \A a \in L[u] : roots(a) = {r}
      BY <3>2, <3>3, <3>4
    <3>6. L[u] \subseteq Txn /\ \A a \in L[u] : L[a] \subseteq L[u]
      BY <3>1, <3>2
    <3> QED BY <3>5, <3>6
  <2> QED BY <2>1, <2>2
<1>4. Txn \subseteq G
  <2> HIDE DEF G
  <2> QED BY <1>3, FamilyInduction
<1>5. PICK r \in Txn : \A a \in L[t] : roots(a) = {r}
  BY <1>4
<1>6. L[t] \subseteq Txn /\ t \in L[t] /\ \A a \in L[t] : L[a] \subseteq L[t]
  BY <1>2, <1>4
<1>7. \A a \in L[t] : Top(a) = r /\ r \in L[a] /\ parent[r] = NoTxn
  <2> SUFFICES ASSUME NEW a \in L[t] PROVE Top(a) = r /\ r \in L[a] /\ parent[r] = NoTxn
    OBVIOUS
  <2>1. r \in L[a] /\ parent[r] = NoTxn /\ \A b \in L[a] : parent[b] = NoTxn => b = r
    BY <1>5
  <2>2. L[a] = Lineage[a]
    BY <1>2, <1>6
  <2> QED BY <2>1, <2>2 DEF Top
<1>8. Lineage[t] = L[t] /\ \A a \in L[t] : Lineage[a] = L[a]
  BY <1>2, <1>6
<1>9. parent[t] = NoTxn => Top(t) = t /\ Lineage[t] = {t}
  <2>1. parent[t] = NoTxn => L[t] = {t}
    BY <1>2
  <2> QED BY <1>6, <1>7, <1>8, <2>1
<1>10. ASSUME parent[t] # NoTxn
       PROVE  /\ parent[t] \in Txn /\ parent[t] # t
              /\ Lineage[t] = {t} \cup Lineage[parent[t]] /\ Top(t) = Top(parent[t])
  <2>1. parent[t] \in Txn /\ L[t] = {t} \cup L[parent[t]] /\ parent[t] \in L[parent[t]]
    BY <1>0, <1>2, <1>10
  <2>2. parent[t] # t
    <3>1. {t} \in (SUBSET Txn) \ {{}}
      OBVIOUS
    <3>2. \E a \in {t} : parent[a] \notin {t}
      BY <3>1, RecoveryAssumption
    <3> QED BY <3>2
  <2> QED BY <1>6, <1>7, <1>8, <2>1, <2>2
<1> HIDE DEF roots, G
<1> QED BY <1>6, <1>7, <1>8, <1>9, <1>10

\* Families never change.
LEMMA SameFamilies ==
  ASSUME parent \in Trees, UNCHANGED parent
  PROVE  \A t \in Txn : Lineage'[t] = Lineage[t] /\ Top(t)' = Top(t)
<1>0. parent \in [Txn -> Txn \cup {NoTxn}] /\ NoTxn \notin Txn
  BY RecoveryAssumption
<1>1. PICK g, h : g = Lineage /\ h = Lineage'
  OBVIOUS
<1>2. IsLineage(g) /\ IsLineage(h)
  BY <1>1, LineageIs, LineageIsNext
<1> DEFINE G == {t \in Txn : g[t] = h[t]}
<1>3. ASSUME NEW t \in Txn, parent[t] # NoTxn => parent[t] \in G PROVE t \in G
  <2>1. /\ g[t] = IF parent[t] = NoTxn THEN {t} ELSE {t} \cup g[parent[t]]
        /\ h[t] = IF parent[t] = NoTxn THEN {t} ELSE {t} \cup h[parent[t]]
    BY <1>2 DEF IsLineage
  <2> QED BY <1>3, <2>1
<1>4. Txn \subseteq G
  <2> HIDE DEF G
  <2> QED BY <1>3, FamilyInduction
<1>5. ASSUME NEW t \in Txn PROVE Top(t)' = Top(t)
  <2>1. Lineage'[t] = Lineage[t]
    BY <1>1, <1>4, <1>5
  <2>2. Top(t)' = CHOOSE a \in Lineage'[t] : parent'[a] = NoTxn
    BY Zenon DEF Top
  <2>3. \A a \in Lineage[t] : parent[a] = NoTxn => a = Top(t)
    <3>1. \A a \in Lineage[t] : Top(a) = Top(t) /\ (parent[a] = NoTxn => Top(a) = a)
      BY FamilyFacts
    <3> QED BY <3>1
  <2>4. Top(t) \in Lineage[t] /\ parent[Top(t)] = NoTxn
    BY FamilyFacts
  <2>5. PICK b : b = Top(t)'
    OBVIOUS
  <2>6. \E a \in Lineage'[t] : parent'[a] = NoTxn
    BY <2>1, <2>4
  <2>7. b \in Lineage'[t] /\ parent'[b] = NoTxn
    BY <2>2, <2>5, <2>6
  <2> QED BY <2>1, <2>3, <2>5, <2>7
<1> QED BY <1>1, <1>4, <1>5

-----------------------------------------------------------------------------
(* Who has committed, by the first n records of a log *)

Closed(s, n, S) == \A m \in 1..n : s[m].type = "child" /\ s[m].txn \in S => s[m].child \in S

\* The transactions whose updates have become those of members of X.
Under(s, n, X) == {t \in Txn : \A S \in SUBSET Txn : X \subseteq S /\ Closed(s, n, S) => t \in S}

Regops(s, n) == {t \in Txn : \E m \in 1..n : s[m].type = "regop" /\ s[m].txn = t}

Com(s, n) == Under(s, n, Regops(s, n))

LEMMA UnderFacts ==
  ASSUME NEW s, WellFormed(s), NEW n \in 0..Len(s), NEW X, X \subseteq Txn
  PROVE  /\ X \subseteq Under(s, n, X) /\ Under(s, n, X) \subseteq Txn
         /\ Closed(s, n, Under(s, n, X))
         /\ \A S \in SUBSET Txn : X \subseteq S /\ Closed(s, n, S) => Under(s, n, X) \subseteq S
<1>1. Closed(s, n, Under(s, n, X))
  <2> SUFFICES ASSUME NEW m \in 1..n, s[m].type = "child", s[m].txn \in Under(s, n, X)
               PROVE  s[m].child \in Under(s, n, X)
    BY DEF Closed
  <2>1. s[m].child \in Txn
    <3>1. m \in 1..Len(s)
      BY DEF WellFormed
    <3> QED BY <3>1, RecFacts DEF WellFormed
  <2>2. ASSUME NEW S \in SUBSET Txn, X \subseteq S, Closed(s, n, S) PROVE s[m].child \in S
    BY <2>2 DEF Under, Closed
  <2> QED BY <2>1, <2>2 DEF Under
<1> QED BY <1>1 DEF Under

\* Whoever is in Under(s, n, X) is in X or was merged into a member.
LEMMA UnderFrom ==
  ASSUME NEW s, WellFormed(s), NEW n \in 0..Len(s), NEW X, X \subseteq Txn, NEW t \in Under(s, n, X)
  PROVE  \/ t \in X
         \/ \E m \in 1..n : s[m].type = "child" /\ s[m].child = t /\ s[m].txn \in Under(s, n, X)
<1> SUFFICES ASSUME t \notin X,
                    ~ \E m \in 1..n : s[m].type = "child" /\ s[m].child = t /\ s[m].txn \in Under(s, n, X)
             PROVE  FALSE
  OBVIOUS
<1>1. PICK U : U = Under(s, n, X)
  OBVIOUS
<1>2. X \subseteq U /\ U \subseteq Txn /\ Closed(s, n, U)
      /\ \A S \in SUBSET Txn : X \subseteq S /\ Closed(s, n, S) => U \subseteq S
  BY <1>1, UnderFacts
<1>3. Closed(s, n, U \ {t})
  BY <1>1, <1>2 DEF Closed
<1>4. U \subseteq U \ {t}
  <2>1. U \ {t} \in SUBSET Txn /\ X \subseteq U \ {t}
    BY <1>2
  <2> QED BY <1>2, <1>3, <2>1
<1> QED BY <1>1, <1>4

LEMMA UnderMonotone ==
  ASSUME NEW s, WellFormed(s), NEW n \in 0..Len(s), NEW k \in n..Len(s), NEW X, NEW Y, X \subseteq Y, Y \subseteq Txn
  PROVE  Under(s, n, X) \subseteq Under(s, k, Y)
<1>1. Y \subseteq Under(s, k, Y) /\ Under(s, k, Y) \in SUBSET Txn /\ Closed(s, k, Under(s, k, Y))
  <2>1. k \in 0..Len(s)
    BY DEF WellFormed
  <2> QED BY <2>1, UnderFacts
<1>2. Closed(s, n, Under(s, k, Y))
  <2>1. Len(s) \in Nat
    BY DEF WellFormed
  <2>2. \A m \in 1..n : m \in 1..k
    BY <2>1
  <2> QED BY <1>1, <2>2 DEF Closed
<1> QED BY <1>1, <1>2, UnderFacts

\* Only the records up to n count.
LEMMA UnderSame ==
  ASSUME NEW s, NEW w, NEW n \in Nat, \A i \in 1..n : w[i] = s[i]
  PROVE  /\ \A X : Under(w, n, X) = Under(s, n, X)
         /\ Regops(w, n) = Regops(s, n) /\ Com(w, n) = Com(s, n)
<1>1. \A S : Closed(w, n, S) <=> Closed(s, n, S)
  BY DEF Closed
<1>2. \A X : Under(w, n, X) = Under(s, n, X)
  BY <1>1 DEF Under
<1>3. Regops(w, n) = Regops(s, n)
  BY DEF Regops
<1> QED BY <1>2, <1>3 DEF Com

\* One record more.
LEMMA UnderNext ==
  ASSUME NEW s, WellFormed(s), NEW n \in 1..Len(s), NEW X, X \subseteq Txn
  PROVE  /\ (s[n].type # "child" \/ s[n].txn \notin Under(s, n - 1, X)) => Under(s, n, X) = Under(s, n - 1, X)
         /\ s[n].type = "child" /\ s[n].txn \in Under(s, n - 1, X) =>
              Under(s, n, X) = Under(s, n - 1, X) \cup Under(s, n - 1, {s[n].child})
<1>0. Len(s) \in Nat /\ n \in 0..Len(s) /\ n - 1 \in 0..Len(s) /\ n \in n - 1..Len(s)
  BY DEF WellFormed
<1>1. PICK U \in SUBSET Txn : U = Under(s, n - 1, X)
  BY <1>0, UnderFacts
<1>2. X \subseteq U /\ Closed(s, n - 1, U)
  BY <1>0, <1>1, UnderFacts
<1>3. U \subseteq Under(s, n, X)
  BY <1>0, <1>1, UnderMonotone
<1>4. \A m \in 1..n : m \in 1..n - 1 \/ m = n
  BY <1>0
<1>5. ASSUME s[n].type # "child" \/ s[n].txn \notin U PROVE Under(s, n, X) = U
  <2>1. Closed(s, n, U)
    BY <1>2, <1>4, <1>5 DEF Closed
  <2>2. Under(s, n, X) \subseteq U
    BY <1>0, <1>2, <2>1, UnderFacts
  <2> QED BY <1>3, <2>2
<1>6. ASSUME s[n].type = "child", s[n].txn \in U
      PROVE  Under(s, n, X) = U \cup Under(s, n - 1, {s[n].child})
  <2>1. PICK c \in Txn : c = s[n].child
    BY <1>6, RecFacts DEF WellFormed
  <2>2. PICK W \in SUBSET Txn : W = Under(s, n - 1, {c})
    BY <1>0, <2>1, UnderFacts
  <2>3. c \in W /\ Closed(s, n - 1, W)
    BY <1>0, <2>1, <2>2, UnderFacts
  <2>4. Closed(s, n, U \cup W)
    BY <1>2, <1>4, <2>1, <2>3 DEF Closed
  <2>5. Under(s, n, X) \subseteq U \cup W
    <3>1. U \cup W \in SUBSET Txn /\ X \subseteq U \cup W
      BY <1>2
    <3> QED BY <1>0, <2>4, <3>1, UnderFacts
  <2>6. c \in Under(s, n, X) /\ Under(s, n, X) \in SUBSET Txn /\ Closed(s, n, Under(s, n, X))
    <3>1. Closed(s, n, Under(s, n, X)) /\ Under(s, n, X) \in SUBSET Txn
      BY <1>0, UnderFacts
    <3>2. n \in 1..n
      BY <1>0
    <3> QED BY <1>3, <1>6, <2>1, <3>1, <3>2 DEF Closed
  <2>7. W \subseteq Under(s, n, X)
    <3>1. Closed(s, n - 1, Under(s, n, X))
      <4>1. \A m \in 1..n - 1 : m \in 1..n
        BY <1>0
      <4> QED BY <2>6, <4>1 DEF Closed
    <3> QED BY <1>0, <2>2, <2>6, <3>1, UnderFacts
  <2> QED BY <1>3, <2>1, <2>2, <2>5, <2>7
<1> QED BY <1>1, <1>5, <1>6

LEMMA UnderBoth ==
  ASSUME NEW s, WellFormed(s), NEW n \in 0..Len(s), NEW X, X \subseteq Txn, NEW Y, Y \subseteq Txn
  PROVE  Under(s, n, X \cup Y) = Under(s, n, X) \cup Under(s, n, Y)
<1>1. /\ X \subseteq Under(s, n, X) /\ Under(s, n, X) \subseteq Txn /\ Closed(s, n, Under(s, n, X))
      /\ Y \subseteq Under(s, n, Y) /\ Under(s, n, Y) \subseteq Txn /\ Closed(s, n, Under(s, n, Y))
  BY UnderFacts
<1>2. PICK S : S = Under(s, n, X) \cup Under(s, n, Y)
  OBVIOUS
<1>3. Closed(s, n, S) /\ S \in SUBSET Txn /\ X \cup Y \subseteq S /\ X \cup Y \subseteq Txn
  BY <1>1, <1>2 DEF Closed
<1>4. Under(s, n, X \cup Y) \subseteq S
  BY <1>3, UnderFacts
<1>5. n \in n..Len(s) /\ X \subseteq X \cup Y /\ Y \subseteq X \cup Y
  BY DEF WellFormed
<1>6. Under(s, n, X) \subseteq Under(s, n, X \cup Y) /\ Under(s, n, Y) \subseteq Under(s, n, X \cup Y)
  BY <1>3, <1>5, UnderMonotone
<1> QED BY <1>2, <1>4, <1>6

-----------------------------------------------------------------------------
(* What a log says of transactions and pages *)

IsRecord(s, n) == n \in 1..Len(s) /\ s[n].type # "ckp"

\* The first record of t.
Starts(r, t) == r.type \in {"update", "child"} /\ r.txn = t /\ r.prev = 0

\* A child is merged into its parent once, and has no record after that.
MergedOnce(s) ==
    \A n \in 1..Len(s) : s[n].type = "child" =>
        /\ parent[s[n].child] = s[n].txn
        /\ \E m \in 1..n - 1 : Starts(s[m], s[n].child)
        /\ \A m \in n + 1..Len(s) : IsRecord(s, m) =>
              s[m].txn # s[n].child /\ (s[m].type = "child" => s[m].child # s[n].child)

\* A commit record is the last of a top-level transaction.
CommittedOnce(s) ==
    \A n \in 1..Len(s) : s[n].type = "regop" =>
        /\ parent[s[n].txn] = NoTxn
        /\ \A m \in n + 1..Len(s) : IsRecord(s, m) => s[m].txn # s[n].txn

\* Every transaction of the log begins in it.
BegunInLog(s) == \A n \in 1..Len(s) : s[n].type # "ckp" => \E m \in 1..n : Starts(s[m], s[n].txn)

UpdatesOf(s, p) == {l \in 1..Len(s) : s[l].type = "update" /\ s[l].page = p}

\* The committed updates of page p, by the first n records.
ComUp(s, n, p) == {l \in UpdatesOf(s, p) : l =< n /\ s[l].txn \in Com(s, n)}

\* x is the greatest of V below k, or 0.
Below(V, x, k) == x \in V \cup {0} /\ x < k /\ \A m \in V : m < k => m =< x

LEMMA BelowMore ==
  ASSUME NEW V, NEW x \in Nat, NEW k \in Nat, Below(V, x, k), \A m \in V : m \in Nat /\ m < k, NEW j \in Nat, k =< j
  PROVE  Below(V, x, j)
BY DEF Below

\* Each update in V was made on the one before it.
Linear(s, V) == \A l \in V : Below(V, s[l].before, l)

CommittedLinear(s) == \A n \in 0..Len(s) : \A p \in Page : Linear(s, ComUp(s, n, p))

LogFacts(s) == MergedOnce(s) /\ CommittedOnce(s) /\ BegunInLog(s) /\ CommittedLinear(s)

\* Record n decides that t has committed, if its parent does.
IsCommit(s, n, t) ==
    (s[n].type = "regop" /\ s[n].txn = t) \/ (s[n].type = "child" /\ s[n].child = t)

LEMMA ComInTxn == ASSUME NEW s, WellFormed(s), NEW n \in 0..Len(s) PROVE Com(s, n) \subseteq Txn /\ Regops(s, n) \subseteq Txn
<1>1. Regops(s, n) \subseteq Txn
  BY DEF Regops
<1> QED BY <1>1, UnderFacts DEF Com

\* Who has committed has a record that says so.
LEMMA ComRecord ==
  ASSUME NEW s, WellFormed(s), NEW n \in 0..Len(s), NEW t \in Com(s, n)
  PROVE  \E m \in 1..n : /\ IsCommit(s, m, t)
                         /\ s[m].type = "child" => s[m].txn \in Com(s, n)
<1>1. Regops(s, n) \subseteq Txn /\ t \in Under(s, n, Regops(s, n))
  BY DEF Regops, Com
<1>2. t \in Regops(s, n) \/ \E m \in 1..n : s[m].type = "child" /\ s[m].child = t /\ s[m].txn \in Com(s, n)
  BY <1>1, UnderFrom DEF Com
<1> QED BY <1>2 DEF Regops, IsCommit

\* A child has committed when its parent has, and only then.
LEMMA ComOfChild ==
  ASSUME NEW s, WellFormed(s), MergedOnce(s), CommittedOnce(s), parent \in Trees,
         NEW n \in 0..Len(s), NEW m \in 1..n, s[m].type = "child"
  PROVE  s[m].child \in Com(s, n) <=> s[m].txn \in Com(s, n)
<1>0. Len(s) \in Nat /\ m \in 1..Len(s) /\ s[m] \in Rec
  BY DEF WellFormed
<1>1. s[m].child \in Txn /\ s[m].txn \in Txn /\ parent[s[m].child] = s[m].txn
  BY <1>0, RecFacts DEF MergedOnce
<1>2. ASSUME s[m].txn \in Com(s, n) PROVE s[m].child \in Com(s, n)
  <2>1. Closed(s, n, Com(s, n))
    <3>1. Regops(s, n) \subseteq Txn
      BY ComInTxn
    <3> QED BY <3>1, UnderFacts DEF Com
  <2> QED BY <1>2, <2>1 DEF Closed
<1>3. ASSUME s[m].child \in Com(s, n) PROVE s[m].txn \in Com(s, n)
  <2>1. PICK k \in 1..n : IsCommit(s, k, s[m].child) /\ (s[k].type = "child" => s[k].txn \in Com(s, n))
    BY <1>3, ComRecord
  <2>2. k \in 1..Len(s) /\ k \in Nat /\ m \in Nat
    BY <1>0
  <2>3. s[k].type # "regop"
    <3>1. s[k].type = "regop" => s[k].txn = s[m].child
      BY <2>1 DEF IsCommit
    <3>2. NoTxn \notin Txn
      BY RecoveryAssumption
    <3> QED BY <1>1, <2>2, <3>1, <3>2 DEF CommittedOnce
  <2>4. s[k].type = "child" /\ s[k].child = s[m].child
    BY <2>1, <2>3 DEF IsCommit
  <2>5. k = m
    <3>1. CASE k < m
      <4>1. m \in k + 1..Len(s) /\ IsRecord(s, m)
        BY <1>0, <2>2, <3>1 DEF IsRecord
      <4> QED BY <2>2, <2>4, <4>1 DEF MergedOnce
    <3>2. CASE m < k
      <4>1. k \in m + 1..Len(s) /\ IsRecord(s, k)
        BY <1>0, <2>2, <2>4, <3>2 DEF IsRecord
      <4> QED BY <1>0, <2>4, <4>1 DEF MergedOnce
    <3> QED BY <2>2, <3>1, <3>2
  <2> QED BY <2>1, <2>4, <2>5
<1> QED BY <1>2, <1>3

\* The record that commits t is the last that tells of it.
LEMMA CommitIsLast ==
  ASSUME NEW s, WellFormed(s), MergedOnce(s), CommittedOnce(s), parent \in Trees,
         NEW t \in Txn, NEW n \in 1..Len(s), IsCommit(s, n, t),
         NEW m, IsRecord(s, m), s[m].txn = t \/ IsCommit(s, m, t)
  PROVE  m =< n /\ (m = n => IsCommit(s, m, t) /\ (s[m].txn = t => s[m].type = "regop"))
                /\ (IsCommit(s, m, t) => m = n)
<1>0. Len(s) \in Nat /\ m \in 1..Len(s) /\ s[m].type # "ckp" /\ s[n].type # "ckp" /\ n \in Nat /\ m \in Nat
  BY DEF WellFormed, IsRecord, IsCommit
<1>1. NoTxn \notin Txn
  BY RecoveryAssumption
<1>2. m =< n
  <2> SUFFICES ASSUME n < m PROVE FALSE
    BY <1>0
  <2>1. m \in n + 1..Len(s)
    BY <1>0
  <2>2. CASE s[n].type = "regop" /\ s[n].txn = t
    <3>1. s[m].txn # t /\ parent[t] = NoTxn
      BY <2>1, <2>2 DEF CommittedOnce
    <3>2. s[m].type = "child" /\ s[m].child = t
      BY <3>1 DEF IsCommit
    <3>3. s[m].txn \in Txn /\ s[m].txn = NoTxn
      BY <1>0, <3>1, <3>2, RecFacts DEF MergedOnce, WellFormed
    <3> QED BY <1>1, <3>3
  <2>3. CASE s[n].type = "child" /\ s[n].child = t
    <3>1. s[m].txn # t /\ (s[m].type = "child" => s[m].child # t)
      BY <2>1, <2>3 DEF MergedOnce
    <3> QED BY <3>1 DEF IsCommit
  <2> QED BY <2>2, <2>3 DEF IsCommit
<1>3. IsCommit(s, m, t) => m = n
  <2> SUFFICES ASSUME IsCommit(s, m, t), m < n PROVE FALSE
    BY <1>0, <1>2
  <2>1. n \in m + 1..Len(s) /\ IsRecord(s, n)
    BY <1>0 DEF IsRecord
  <2>2. CASE s[m].type = "regop" /\ s[m].txn = t
    <3>1. s[n].txn # t /\ parent[t] = NoTxn
      BY <1>0, <2>1, <2>2 DEF CommittedOnce
    <3>2. s[n].type = "child" /\ s[n].child = t
      BY <3>1 DEF IsCommit
    <3>3. s[n].txn \in Txn /\ s[n].txn = NoTxn
      BY <1>0, <3>1, <3>2, RecFacts DEF MergedOnce, WellFormed
    <3> QED BY <1>1, <3>3
  <2>3. CASE s[m].type = "child" /\ s[m].child = t
    <3>1. s[n].txn # t /\ (s[n].type = "child" => s[n].child # t)
      BY <1>0, <2>1, <2>3 DEF MergedOnce
    <3> QED BY <3>1 DEF IsCommit
  <2> QED BY <2>2, <2>3 DEF IsCommit
<1>4. m = n /\ s[m].txn = t => s[m].type = "regop"
  <2> SUFFICES ASSUME m = n, s[m].txn = t, s[m].type = "child", s[m].child = t PROVE FALSE
    BY DEF IsCommit
  <2>1. parent[t] = t
    BY <1>0 DEF MergedOnce
  <2>2. parent[t] # NoTxn
    BY <1>1, <2>1
  <2> QED BY <2>1, <2>2, FamilyFacts
<1> QED BY <1>2, <1>3, <1>4

\* Merging stays within a family: an heir is an ancestor.
LEMMA UnderFamily ==
  ASSUME NEW s, WellFormed(s), MergedOnce(s), parent \in Trees,
         NEW n \in 0..Len(s), NEW X, X \subseteq Txn, NEW t \in Under(s, n, X)
  PROVE  \E x \in X : x \in Lineage[t] /\ Top(t) = Top(x)
<1>0. Len(s) \in Nat
  BY DEF WellFormed
<1>1. PICK S : S = {u \in Txn : \E x \in X : x \in Lineage[u]}
  OBVIOUS
<1>2. X \subseteq S
  BY <1>1, FamilyFacts
<1>3. Closed(s, n, S)
  <2> SUFFICES ASSUME NEW m \in 1..n, s[m].type = "child", s[m].txn \in S PROVE s[m].child \in S
    BY DEF Closed
  <2>1. m \in 1..Len(s)
    BY <1>0
  <2>2. s[m].child \in Txn /\ s[m].txn \in Txn /\ parent[s[m].child] = s[m].txn
    BY <2>1, RecFacts DEF MergedOnce, WellFormed
  <2>3. parent[s[m].child] # NoTxn
    BY <2>2, RecoveryAssumption
  <2>4. Lineage[s[m].txn] \subseteq Lineage[s[m].child]
    BY <2>2, <2>3, FamilyFacts
  <2> QED BY <1>1, <2>2, <2>4
<1>4. t \in S
  <2>1. S \in SUBSET Txn
    BY <1>1
  <2> QED BY <1>2, <1>3, <2>1, UnderFacts
<1>5. PICK x \in X : x \in Lineage[t]
  BY <1>1, <1>4
<1>6. Top(x) = Top(t)
  <2>1. t \in Txn
    BY <1>1, <1>4
  <2> QED BY <1>5, <2>1, FamilyFacts
<1> QED BY <1>5, <1>6

-----------------------------------------------------------------------------
(* The invariant of PagesRight *)

\* Its parts speak of given values - s for the log, x for the transactions, c
\* for the chains, k for the checkpoint, r for recovery - so that they can be
\* said of this state and of the next alike.

\* The family of t has a record before f.
Early(s, t, f) == \E l \in 1..Len(s) : l < f /\ s[l].type # "ckp" /\ Top(s[l].txn) = Top(t)

\* A checkpoint lets recovery begin behind records of the family of t.
Settled(s, t) == \E m \in 1..Len(s) : s[m].type = "ckp" /\ Early(s, t, s[m].lsn)

\* Then all its records are before that checkpoint.
SettledDone(s) ==
    \A m, k \in 1..Len(s) :
        s[m].type = "ckp" /\ s[k].type # "ckp" /\ Early(s, s[k].txn, s[m].lsn) => k < m

\* A transaction in memory, and what the log says of it.
Detail(s, x, t) ==
    /\ x[t].st = "running" /\ x[t].last = 0 =>
         \A n \in 1..Len(s) : s[n].type # "ckp" => s[n].txn # t
    /\ x[t].last # 0 => s[x[t].last].txn = t
    /\ x[t].st \in {"running", "aborting"} => \A n \in 1..Len(s) : ~IsCommit(s, n, t)
    /\ x[t].st = "committing" => t \in Regops(s, Len(s))
    /\ x[t].st \in {"committing", "aborting"} => x[t].last # 0
    /\ x[t].st = "ended" => x[t].last = 0 /\ x[t].begin = 0
    /\ x[t].last # 0 => \A a \in Lineage[t] \ {t} : x[a].st = "running"

\* The root of a family that has records has ended, or begin_lsn is no later.
Begun(s, x) ==
    \A n \in 1..Len(s) : s[n].type # "ckp" =>
        \/ x[Top(s[n].txn)].st = "ended"
        \/ x[Top(s[n].txn)].begin \in 1..n

Details(s, x) == (\A t \in Txn : Detail(s, x, t)) /\ Begun(s, x)

\* The updates of t and of the children merged into it.
Own(s, t) == {l \in Updates(s) : s[l].txn \in Under(s, Len(s), {t})}

Descending(s, u) == \A i, j \in 1..Len(u) : i < j /\ s[u[i]].page = s[u[j]].page => u[j] < u[i]

Holders(x) == {t \in Txn : x[t].st \in {"running", "aborting"}}

\* Held(t), of the transactions x and the chains c.
Holds(x, c, t) == ToSet(IF x[t].st = "aborting" THEN x[t].undo ELSE c[x[t].last])

\* Chains lead to what is owned; the updates of a page latest first.
Chains(s, x, c) ==
    \A t \in Txn :
        /\ x[t].st # "ended" => ToSet(c[x[t].last]) = Own(s, t)
        /\ x[t].st = "running" => Descending(s, c[x[t].last])
        /\ x[t].st = "aborting" =>
              ToSet(x[t].undo) \subseteq ToSet(c[x[t].last]) /\ Descending(s, x[t].undo)

\* Two transactions hold updates of one page: one is the ancestor of the
\* other, and its updates came first.
Apart(s, x, c) ==
    \A t, u \in Holders(x) : \A l \in Holds(x, c, t), m \in Holds(x, c, u) :
        t # u /\ s[l].page = s[m].page =>
            (t \in Lineage[u] /\ l < m) \/ (u \in Lineage[t] /\ m < l)

\* What is committed came before what is held.
Above(s, x, c) ==
    \A t \in Holders(x) : \A l \in Holds(x, c, t) : \A m \in ComUp(s, Len(s), s[l].page) : m < l

\* The updates of page p that count.
Eff(s, x, c, p) ==
    {l \in UpdatesOf(s, p) : \/ s[l].txn \in Com(s, Len(s))
                             \/ \E t \in Holders(x) : l \in Holds(x, c, t)}

CacheRight(s, x, c, pg) ==
    \A p \in Page : /\ Linear(s, Eff(s, x, c, p))
                    /\ Below(Eff(s, x, c, p), pg[p], Len(s) + 1)

UpFacts(s, x, c, pg) == Chains(s, x, c) /\ Apart(s, x, c) /\ Above(s, x, c) /\ CacheRight(s, x, c, pg)

\* Nothing runs that has records, and no checkpoint.
DownFacts(x, k) ==
    /\ \A t \in Txn : x[t].last = 0 /\ x[t].begin = 0 /\ x[t].st \in {"running", "ended"}
    /\ k.st = "none"

\* The families recovery will not look at on page p, should it run now.
Must(s, k, p) == {t \in Txn : \/ Settled(s, t)
                              \/ k.st = "syncing" /\ p \notin k.pages /\ Early(s, t, k.lsn)}

\* v, as the state of page p, shows of the families F what is committed.
Image(s, p, v, F) ==
    \E V \in SUBSET UpdatesOf(s, p) :
        /\ Linear(s, V) /\ Below(V, v, Len(s) + 1)
        /\ \A l \in UpdatesOf(s, p) : s[l].txn \in F => (l \in V <=> s[l].txn \in Com(s, Len(s)))

SettledEnded(s, x, k) ==
    \A t \in Txn : /\ Settled(s, t) => x[Top(t)].st = "ended"
                   /\ k.st = "syncing" /\ Early(s, t, k.lsn) => x[Top(t)].st = "ended"

DiskFacts(s, x, k, pg) ==
    /\ SettledDone(s) /\ SettledEnded(s, x, k)
    /\ \A p \in Page : Image(s, p, pg[p], Must(s, k, p))

AllSettled(s) == {t \in Txn : Settled(s, t)}
Committers(s) == Com(s, Len(s))

RecoveringFacts(s, r) ==
    /\ \A t \in Txn : Early(s, t, r.first) => Settled(s, t)
    /\ \A t \in Txn : r.list[t] = "commit" => t \in Committers(s)

\* Backward: every record behind the cursor has had its say.
BackList(s, r) ==
    /\ \A t \in Committers(s) :
         (\E n \in r.at + 1..Len(s) : IsCommit(s, n, t)) => r.list[t] \in {"commit", "ignore"}
    /\ \A n \in 1..Len(s) :
         s[n].type # "ckp" /\ ~Early(s, s[n].txn, r.first) => r.list[s[n].txn] \in {"ok", "abort", "commit"}
    /\ \A t \in Txn : r.list[t] \in {"abort", "commit"} =>
         \E n \in r.at + 1..Len(s) : IsCommit(s, n, t) \/ (s[n].type # "ckp" /\ s[n].txn = t)
    /\ \A n \in r.at + 1..Len(s) : s[n].type = "child" =>
         \/ r.list[s[n].txn] = "ignore"
         \/ r.list[s[n].txn] # "absent" /\ r.list[s[n].child] # "absent"

BackPages(s, r, pg) ==
    \A p \in Page : /\ Image(s, p, pg[p], AllSettled(s))
                    /\ pg[p] > r.at => s[pg[p]].txn \in Committers(s)

ForwardList(s, r) ==
    /\ \A t \in Committers(s) :
         ~Early(s, t, r.first) /\ (\E n \in r.at..Len(s) : IsCommit(s, n, t)) => r.list[t] = "commit"
    /\ \A n \in r.at..Len(s) : s[n].type = "child" /\ r.list[s[n].txn] = "commit" =>
         r.list[s[n].child] # "absent"

ForwardPages(s, r, pg) ==
    \A p \in Page :
        /\ pg[p] \in {0} \cup ComUp(s, Len(s), p)
        /\ \A l \in ComUp(s, Len(s), p) : (l < r.at \/ Settled(s, s[l].txn)) => l =< pg[p]

Recovering(s, r, pg) ==
    /\ RecoveringFacts(s, r)
    /\ r.pass \in {"backward", "forward"}
    /\ r.pass = "backward" => BackList(s, r) /\ BackPages(s, r, pg)
    /\ r.pass = "forward" => ForwardList(s, r) /\ ForwardPages(s, r, pg)

PageInv ==
    /\ Inv /\ LogFacts(log) /\ Details(log, txn)
    /\ mode = "up" => UpFacts(log, txn, Chain, cache)
    /\ mode # "up" => DownFacts(txn, ckp)
    /\ DiskFacts(log, txn, ckp, disk)
    /\ mode # "failed"
    /\ mode = "down" => cache = disk
    /\ mode = "recovering" => Recovering(log, rec, cache)

\* What is said of the next state's values is said of the next state: families
\* never change.
LEMMA NextEarly ==
  ASSUME parent \in Trees, UNCHANGED parent, WellFormed(log')
  PROVE  /\ \A n \in 1..Len(log') : log'[n].type # "ckp" => log'[n].txn \in Txn /\ Top(log[n].txn)' = Top(log'[n].txn)
         /\ \A t \in Txn : \A f : Early(log, t, f)' <=> Early(log', t, f)
         /\ \A t \in Txn : Settled(log, t)' <=> Settled(log', t)
<1>1. \A n \in 1..Len(log') : log'[n].type # "ckp" => log'[n].txn \in Txn
  BY RecFacts DEF WellFormed
<1>2. ASSUME NEW n \in 1..Len(log'), log'[n].type # "ckp" PROVE Top(log[n].txn)' = Top(log'[n].txn)
  <2>1. PICK x \in Txn : x = log'[n].txn
    BY <1>1, <1>2
  <2>2. Top(x)' = Top(x)
    BY <2>1, SameFamilies
  <2>3. Top(log[n].txn)' = Top(x)'
    BY <2>1 DEF Top
  <2> QED BY <2>1, <2>2, <2>3
<1>3. \A t \in Txn : \A f : Early(log, t, f)' <=> Early(log', t, f)
  <2> SUFFICES ASSUME NEW t \in Txn, NEW f PROVE Early(log, t, f)' <=> Early(log', t, f)
    OBVIOUS
  <2>1. Top(t)' = Top(t)
    BY SameFamilies
  <2>2. Early(log, t, f)' <=> \E l \in 1..Len(log') : l < f /\ log'[l].type # "ckp" /\ Top(log[l].txn)' = Top(t)'
    BY DEF Early
  <2> QED BY <1>2, <2>1, <2>2 DEF Early
<1>4. \A t \in Txn : Settled(log, t)' <=> Settled(log', t)
  <2> SUFFICES ASSUME NEW t \in Txn PROVE Settled(log, t)' <=> Settled(log', t)
    OBVIOUS
  <2>1. Settled(log, t)' <=> \E m \in 1..Len(log') : log'[m].type = "ckp" /\ Early(log, t, log[m].lsn)'
    BY DEF Settled
  <2>2. \A m \in 1..Len(log') : Early(log, t, log[m].lsn)' <=> Early(log', t, log'[m].lsn)
    <3> SUFFICES ASSUME NEW m \in 1..Len(log') PROVE Early(log, t, log[m].lsn)' <=> Early(log', t, log'[m].lsn)
      OBVIOUS
    <3>1. PICK f : f = log'[m].lsn
      OBVIOUS
    <3>2. Early(log, t, f)' <=> Early(log', t, f)
      BY <1>3
    <3>3. Early(log, t, log[m].lsn)' <=> Early(log, t, f)'
      BY <3>1 DEF Early
    <3> QED BY <3>1, <3>2, <3>3
  <2> QED BY <2>1, <2>2 DEF Settled
<1> QED BY <1>1, <1>2, <1>3, <1>4

LEMMA NextPageInv ==
  ASSUME parent \in Trees, UNCHANGED parent, Inv', LogFacts(log'), Details(log', txn'),
         mode' = "up" => UpFacts(log', txn', Chain', cache'),
         mode' # "up" => DownFacts(txn', ckp'),
         DiskFacts(log', txn', ckp', disk'),
         mode' # "failed", mode' = "down" => cache' = disk',
         mode' = "recovering" => Recovering(log', rec', cache')
  PROVE  PageInv'
<1>0. WellFormed(log')
  BY DEF Inv, LogOK, WellFormed
<1>1. /\ \A n \in 1..Len(log') : log'[n].type # "ckp" => log'[n].txn \in Txn /\ Top(log[n].txn)' = Top(log'[n].txn)
      /\ \A t \in Txn : \A f : Early(log, t, f)' <=> Early(log', t, f)
      /\ \A t \in Txn : Settled(log, t)' <=> Settled(log', t)
  BY <1>0, NextEarly
<1>2. \A t \in Txn : Lineage'[t] = Lineage[t] /\ Top(t)' = Top(t)
  BY SameFamilies
<1>3. LogFacts(log)'
  BY DEF LogFacts, MergedOnce, CommittedOnce, BegunInLog, CommittedLinear, IsRecord, Starts, ComUp, UpdatesOf,
         Com, Regops, Under, Closed, Linear, Below
<1>4. Details(log, txn)'
  <2>1. ASSUME NEW t \in Txn PROVE Detail(log, txn, t)'
    <3>1. Detail(log', txn', t)
      BY DEF Details
    <3>2. Lineage'[t] = Lineage[t]
      BY <1>2
    <3> QED BY <3>1, <3>2 DEF Detail, IsCommit, Regops
  <2>2. Begun(log, txn)'
    <3> SUFFICES ASSUME NEW n \in 1..Len(log'), log'[n].type # "ckp"
                 PROVE  \/ txn'[Top(log[n].txn)'].st = "ended"
                        \/ txn'[Top(log[n].txn)'].begin \in 1..n
      BY DEF Begun
    <3> QED BY <1>1 DEF Details, Begun
  <2> QED BY <2>1, <2>2 DEF Details
<1>5. ASSUME mode' = "up" PROVE UpFacts(log, txn, Chain, cache)'
  <2>1. Chains(log, txn, Chain)'
    BY <1>5 DEF UpFacts, Chains, Own, Updates, Under, Closed, Descending
  <2>2. Apart(log, txn, Chain)'
    <3>1. \A t, u \in Holders(txn') : \A l \in Holds(txn', Chain', t), m \in Holds(txn', Chain', u) :
            t # u /\ log'[l].page = log'[m].page =>
              (t \in Lineage[u] /\ l < m) \/ (u \in Lineage[t] /\ m < l)
      BY <1>5 DEF UpFacts, Apart
    <3>2. \A t \in Holders(txn') : Lineage'[t] = Lineage[t]
      BY <1>2 DEF Holders
    <3>3. \A t, u \in Holders(txn') : \A l \in Holds(txn', Chain', t), m \in Holds(txn', Chain', u) :
            t # u /\ log'[l].page = log'[m].page =>
              (t \in Lineage'[u] /\ l < m) \/ (u \in Lineage'[t] /\ m < l)
      BY <3>1, <3>2
    <3> QED BY <3>3 DEF Apart, Holders, Holds
  <2>3. Above(log, txn, Chain)'
    BY <1>5 DEF UpFacts, Above, Holders, Holds, ComUp, UpdatesOf, Com, Regops, Under, Closed
  <2>4. CacheRight(log, txn, Chain, cache)'
    BY <1>5 DEF UpFacts, CacheRight, Eff, Linear, Below, Holders, Holds, UpdatesOf, Com, Regops, Under, Closed
  <2> QED BY <2>1, <2>2, <2>3, <2>4 DEF UpFacts
<1>6. mode' # "up" => DownFacts(txn, ckp)'
  BY DEF DownFacts
<1>7. DiskFacts(log, txn, ckp, disk)'
  <2>1. SettledDone(log)'
    <3> SUFFICES ASSUME NEW m \in 1..Len(log'), NEW k \in 1..Len(log'),
                        log'[m].type = "ckp", log'[k].type # "ckp", Early(log, log[k].txn, log[m].lsn)'
                 PROVE  k < m
      BY DEF SettledDone
    <3>1. PICK t \in Txn : t = log'[k].txn
      BY <1>1
    <3>2. PICK f : f = log'[m].lsn
      OBVIOUS
    <3>3. Early(log, t, f)'
      <4>1. Top(t)' = Top(log[k].txn)'
        BY <3>1 DEF Top
      <4> QED BY <3>2, <4>1 DEF Early
    <3>4. Early(log', t, f)
      BY <1>1, <3>3
    <3> QED BY <3>1, <3>2, <3>4 DEF DiskFacts, SettledDone
  <2>2. SettledEnded(log, txn, ckp)'
    <3> SUFFICES ASSUME NEW t \in Txn
                 PROVE  /\ Settled(log, t)' => txn'[Top(t)'].st = "ended"
                        /\ ckp'.st = "syncing" /\ Early(log, t, ckp.lsn)' => txn'[Top(t)'].st = "ended"
      BY DEF SettledEnded
    <3>1. PICK f : f = ckp'.lsn
      OBVIOUS
    <3>2. Early(log, t, ckp.lsn)' <=> Early(log, t, f)'
      BY <3>1 DEF Early
    <3>3. Early(log, t, ckp.lsn)' <=> Early(log', t, ckp'.lsn)
      BY <1>1, <3>1, <3>2
    <3> QED BY <1>1, <1>2, <3>3 DEF DiskFacts, SettledEnded
  <2>3. ASSUME NEW p \in Page PROVE Image(log, p, disk[p], Must(log, ckp, p))'
    <3>1. Must(log, ckp, p)' = Must(log', ckp', p)
      <4> SUFFICES ASSUME NEW t \in Txn PROVE t \in Must(log, ckp, p)' <=> t \in Must(log', ckp', p)
        BY DEF Must
      <4>1. PICK f : f = ckp'.lsn
        OBVIOUS
      <4>2. Early(log, t, ckp.lsn)' <=> Early(log, t, f)'
        BY <4>1 DEF Early
      <4>3. Early(log, t, ckp.lsn)' <=> Early(log', t, ckp'.lsn)
        BY <1>1, <4>1, <4>2
      <4> QED BY <1>1, <4>3 DEF Must
    <3>2. PICK F : F = Must(log', ckp', p)
      OBVIOUS
    <3>3. Image(log', p, disk'[p], F)
      BY <3>2 DEF DiskFacts
    <3>4. Image(log, p, disk[p], F)'
      BY <3>3 DEF Image, Linear, Below, UpdatesOf, Com, Regops, Under, Closed
    <3> QED BY <3>1, <3>2, <3>4 DEF Image
  <2> QED BY <2>1, <2>2, <2>3 DEF DiskFacts
<1>8. ASSUME mode' = "recovering" PROVE Recovering(log, rec, cache)'
  <2>0. Recovering(log', rec', cache')
    BY <1>8
  <2>1. \A t \in Txn : Early(log, t, rec.first)' <=> Early(log', t, rec'.first)
    <3> SUFFICES ASSUME NEW t \in Txn PROVE Early(log, t, rec.first)' <=> Early(log', t, rec'.first)
      OBVIOUS
    <3>1. PICK f : f = rec'.first
      OBVIOUS
    <3>2. Early(log, t, rec.first)' <=> Early(log, t, f)'
      BY <3>1 DEF Early
    <3> QED BY <1>1, <3>1, <3>2
  <2>2. RecoveringFacts(log, rec)'
    BY <1>1, <2>0, <2>1 DEF Recovering, RecoveringFacts, Committers, Com, Regops, Under, Closed
  <2>3. ASSUME rec'.pass = "backward" PROVE BackList(log, rec)'
    <3>1. BackList(log', rec')
      BY <2>0, <2>3 DEF Recovering
    <3>2. \A n \in 1..Len(log') : log'[n].type # "ckp" =>
            (Early(log, log[n].txn, rec.first)' <=> Early(log', log'[n].txn, rec'.first))
      <4> SUFFICES ASSUME NEW n \in 1..Len(log'), log'[n].type # "ckp"
                   PROVE  Early(log, log[n].txn, rec.first)' <=> Early(log', log'[n].txn, rec'.first)
        OBVIOUS
      <4>1. PICK t \in Txn : t = log'[n].txn
        BY <1>1
      <4>2. Top(t)' = Top(log[n].txn)'
        BY <4>1 DEF Top
      <4>3. Early(log, log[n].txn, rec.first)' <=> Early(log, t, rec.first)'
        BY <4>2 DEF Early
      <4> QED BY <2>1, <4>1, <4>3
    <3> QED BY <3>1, <3>2 DEF BackList, Committers, Com, Regops, Under, Closed, IsCommit
  <2>4. ASSUME rec'.pass = "backward" PROVE BackPages(log, rec, cache)'
    <3>1. BackPages(log', rec', cache')
      BY <2>0, <2>4 DEF Recovering
    <3>2. AllSettled(log)' = AllSettled(log')
      BY <1>1 DEF AllSettled
    <3>3. PICK F : F = AllSettled(log')
      OBVIOUS
    <3>4. ASSUME NEW p \in Page PROVE Image(log, p, cache[p], AllSettled(log))'
      <4>1. Image(log', p, cache'[p], F)
        BY <3>1, <3>3 DEF BackPages
      <4>2. Image(log, p, cache[p], F)'
        BY <4>1 DEF Image, Linear, Below, UpdatesOf, Com, Regops, Under, Closed
      <4> QED BY <3>2, <3>3, <4>2 DEF Image
    <3> QED BY <3>1, <3>4 DEF BackPages, Committers, Com, Regops, Under, Closed
  <2>5. ASSUME rec'.pass = "forward" PROVE ForwardList(log, rec)'
    <3>1. ForwardList(log', rec')
      BY <2>0, <2>5 DEF Recovering
    <3>2. Committers(log)' = Committers(log') /\ Committers(log') \subseteq Txn
      BY DEF Committers, Com, Regops, Under, Closed
    <3>3. \A t \in Committers(log') : Early(log, t, rec.first)' <=> Early(log', t, rec'.first)
      BY <2>1, <3>2
    <3> QED BY <3>1, <3>2, <3>3 DEF ForwardList, IsCommit
  <2>6. ASSUME rec'.pass = "forward" PROVE ForwardPages(log, rec, cache)'
    <3>1. ForwardPages(log', rec', cache')
      BY <2>0, <2>6 DEF Recovering
    <3>2. \A p : ComUp(log, Len(log), p)' = ComUp(log', Len(log'), p)
      BY DEF ComUp, UpdatesOf, Com, Regops, Under, Closed
    <3>3. \A p : \A l \in ComUp(log', Len(log'), p) : Settled(log, log[l].txn)' <=> Settled(log', log'[l].txn)
      <4> SUFFICES ASSUME NEW p, NEW l \in ComUp(log', Len(log'), p)
                   PROVE  Settled(log, log[l].txn)' <=> Settled(log', log'[l].txn)
        OBVIOUS
      <4>1. l \in 1..Len(log') /\ log'[l].type # "ckp"
        BY DEF ComUp, UpdatesOf
      <4>2. PICK t \in Txn : t = log'[l].txn
        BY <1>1, <4>1
      <4>3. Top(t)' = Top(log[l].txn)'
        BY <4>2 DEF Top
      <4>4. Settled(log, log[l].txn)' <=> Settled(log, t)'
        BY <4>3 DEF Settled, Early
      <4> QED BY <1>1, <4>2, <4>4
    <3> QED BY <3>1, <3>2, <3>3 DEF ForwardPages
  <2> QED BY <2>0, <2>2, <2>3, <2>4, <2>5, <2>6 DEF Recovering
<1> QED BY <1>3, <1>4, <1>5, <1>6, <1>7, <1>8 DEF PageInv

-----------------------------------------------------------------------------
(* A record more in the log *)

\* w is s with one record more.
Extends(s, w, r) ==
    /\ WellFormed(s) /\ WellFormed(w) /\ r \in Rec
    /\ Len(w) = Len(s) + 1 /\ w[Len(s) + 1] = r
    /\ \A n \in 1..Len(s) : w[n] = s[n]

LEMMA ExtendsFacts ==
  ASSUME NEW s, NEW w, NEW r, Extends(s, w, r)
  PROVE  /\ Len(s) \in Nat /\ Len(w) = Len(s) + 1
         /\ \A n \in 1..Len(w) : n \in 1..Len(s) \/ n = Len(s) + 1
         /\ \A n \in 1..Len(s) : n \in 1..Len(w) /\ w[n] = s[n]
         /\ Len(s) + 1 \in 1..Len(w) /\ w[Len(s) + 1] = r
         /\ \A n \in 0..Len(s) : Com(w, n) = Com(s, n) /\ \A X : Under(w, n, X) = Under(s, n, X)
<1>1. Len(s) \in Nat /\ Len(w) = Len(s) + 1
  BY DEF Extends, WellFormed
<1>2. ASSUME NEW n \in 0..Len(s) PROVE Com(w, n) = Com(s, n) /\ \A X : Under(w, n, X) = Under(s, n, X)
  <2>1. n \in Nat /\ \A i \in 1..n : w[i] = s[i]
    BY <1>1 DEF Extends
  <2> QED BY <2>1, UnderSame
<1> QED BY <1>1, <1>2 DEF Extends

\* A record that merges nobody into X, or merges a child.
LEMMA UnderStays ==
  ASSUME NEW s, NEW w, NEW r, Extends(s, w, r), NEW X, X \subseteq Txn,
         r.type # "child" \/ r.txn \notin Under(s, Len(s), X)
  PROVE  Under(w, Len(w), X) = Under(s, Len(s), X)
<1>1. PICK n \in 1..Len(w) : n = Len(w) /\ n - 1 = Len(s) /\ w[n] = r
  BY ExtendsFacts
<1>2. WellFormed(w) /\ Len(s) \in 0..Len(s)
  BY ExtendsFacts DEF Extends
<1>3. Under(w, n - 1, X) = Under(s, Len(s), X)
  BY <1>1, <1>2, ExtendsFacts
<1> QED BY <1>1, <1>2, <1>3, UnderNext

LEMMA UnderMerges ==
  ASSUME NEW s, NEW w, NEW r, Extends(s, w, r), NEW X, X \subseteq Txn,
         r.type = "child", r.txn \in Under(s, Len(s), X)
  PROVE  Under(w, Len(w), X) = Under(s, Len(s), X) \cup Under(s, Len(s), {r.child})
<1>1. PICK n \in 1..Len(w) : n = Len(w) /\ n - 1 = Len(s) /\ w[n] = r
  BY ExtendsFacts
<1>2. WellFormed(w) /\ Len(s) \in 0..Len(s)
  BY ExtendsFacts DEF Extends
<1>3. \A Y : Under(w, n - 1, Y) = Under(s, Len(s), Y)
  BY <1>1, <1>2, ExtendsFacts
<1>4. PICK c : c = r.child
  OBVIOUS
<1>5. Under(w, n - 1, X) = Under(s, Len(s), X) /\ Under(w, n - 1, {c}) = Under(s, Len(s), {c})
  BY <1>3
<1> QED BY <1>1, <1>2, <1>4, <1>5, UnderNext

LEMMA ComGrows ==
  ASSUME NEW s, NEW w, NEW r, Extends(s, w, r)
  PROVE  /\ r.type # "regop" => Regops(w, Len(w)) = Regops(s, Len(s))
         /\ r.type # "regop" /\ (r.type = "child" => r.txn \notin Com(s, Len(s))) =>
               Com(w, Len(w)) = Com(s, Len(s))
         /\ r.type = "regop" => Com(w, Len(w)) = Com(s, Len(s)) \cup Under(s, Len(s), {r.txn})
<1>0. /\ Len(s) \in Nat /\ Len(w) = Len(s) + 1 /\ Len(w) \in 1..Len(w) /\ Len(w) - 1 = Len(s) /\ w[Len(w)] = r
      /\ \A n \in 1..Len(w) : n \in 1..Len(s) \/ n = Len(w)
      /\ \A n \in 1..Len(s) : n \in 1..Len(w) /\ w[n] = s[n]
      /\ WellFormed(s) /\ WellFormed(w) /\ r \in Rec /\ Len(s) \in 0..Len(s) /\ Len(s) \in 0..Len(w)
  BY ExtendsFacts DEF Extends
<1>1. \A X : Under(w, Len(s), X) = Under(s, Len(s), X)
  BY <1>0, ExtendsFacts
<1>2. Regops(s, Len(s)) \subseteq Txn /\ Regops(w, Len(w)) \subseteq Txn
  BY DEF Regops
<1>3. ASSUME r.type # "regop"
      PROVE  Regops(w, Len(w)) = Regops(s, Len(s))
  BY <1>0, <1>3 DEF Regops
<1>4. ASSUME r.type # "regop", r.type = "child" => r.txn \notin Com(s, Len(s))
      PROVE  Com(w, Len(w)) = Com(s, Len(s))
  <2>1. Under(w, Len(w), Regops(w, Len(w))) = Under(w, Len(s), Regops(w, Len(w)))
    <3>1. PICK X : X = Regops(s, Len(s))
      OBVIOUS
    <3>2. X \subseteq Txn /\ (r.type = "child" => r.txn \notin Under(s, Len(s), X))
      BY <1>2, <1>4, <3>1 DEF Com
    <3>3. Under(w, Len(w), X) = Under(s, Len(s), X)
      <4>1. r.type # "child" \/ r.txn \notin Under(s, Len(s), X)
        BY <3>2
      <4>2. X \subseteq Txn
        BY <3>2
      <4> QED BY <4>1, <4>2, UnderStays
    <3> QED BY <1>1, <1>3, <1>4, <3>1, <3>3
  <2> QED BY <1>1, <1>3, <1>4, <2>1 DEF Com
<1>5. ASSUME r.type = "regop"
      PROVE  Com(w, Len(w)) = Com(s, Len(s)) \cup Under(s, Len(s), {r.txn})
  <2>1. r.txn \in Txn
    <3>1. r \in Rec
      BY <1>0
    <3> QED BY <1>5, <3>1, RecFacts
  <2>2. Regops(w, Len(w)) = Regops(s, Len(s)) \cup {r.txn}
    BY <1>0, <1>5, <2>1 DEF Regops
  <2>3. Under(w, Len(w), Regops(w, Len(w))) = Under(w, Len(s), Regops(w, Len(w)))
    <3>1. PICK X : X = Regops(w, Len(w))
      OBVIOUS
    <3>2. Under(w, Len(w), X) = Under(s, Len(s), X)
      <4>1. X \subseteq Txn /\ r.type # "child"
        BY <1>2, <1>5, <3>1
      <4> QED BY <4>1, UnderStays
    <3> QED BY <1>1, <3>1, <3>2
  <2>4. Under(s, Len(s), Regops(s, Len(s)) \cup {r.txn}) = Com(s, Len(s)) \cup Under(s, Len(s), {r.txn})
    <3>1. PICK X : X = Regops(s, Len(s))
      OBVIOUS
    <3>2. PICK Y : Y = {r.txn}
      OBVIOUS
    <3>3. X \subseteq Txn /\ Y \subseteq Txn
      BY <1>2, <2>1, <3>1, <3>2
    <3>4. Under(s, Len(s), X \cup Y) = Under(s, Len(s), X) \cup Under(s, Len(s), Y)
      BY <1>0, <3>3, UnderBoth
    <3> QED BY <3>1, <3>2, <3>4 DEF Com
  <2> QED BY <1>1, <2>2, <2>3, <2>4 DEF Com
<1> QED BY <1>3, <1>4, <1>5

\* Nobody who has not committed is in Com.
LEMMA NotYet ==
  ASSUME NEW s, WellFormed(s), NEW t, \A n \in 1..Len(s) : ~IsCommit(s, n, t)
  PROVE  t \notin Com(s, Len(s))
<1>1. Len(s) \in 0..Len(s)
  BY DEF WellFormed
<1> QED BY <1>1, ComRecord

LEMMA LinearSame ==
  ASSUME NEW s, NEW w, NEW V, V \subseteq 1..Len(s), \A n \in 1..Len(s) : w[n] = s[n]
  PROVE  Linear(w, V) <=> Linear(s, V)
BY DEF Linear

LEMMA UpdatesOfGrow ==
  ASSUME NEW s, NEW w, NEW r, Extends(s, w, r), NEW p
  PROVE  /\ UpdatesOf(w, p) = UpdatesOf(s, p) \cup {l \in {Len(s) + 1} : r.type = "update" /\ r.page = p}
         /\ UpdatesOf(s, p) \subseteq 1..Len(s)
         /\ Updates(w) = Updates(s) \cup {l \in {Len(s) + 1} : r.type = "update"}
BY ExtendsFacts DEF UpdatesOf, Updates

\* What the facts about a log ask of the next record.
Follows(s, r) ==
    /\ r.type # "ckp" => \A n \in 1..Len(s) : ~IsCommit(s, n, r.txn)
    /\ r.type = "child" => /\ \A n \in 1..Len(s) : ~IsCommit(s, n, r.child)
                           /\ parent[r.child] = r.txn
                           /\ \E m \in 1..Len(s) : Starts(s[m], r.child)
    /\ r.type = "regop" => parent[r.txn] = NoTxn
    /\ r.type # "ckp" => Starts(r, r.txn) \/ \E m \in 1..Len(s) : Starts(s[m], r.txn)

LEMMA ComUpGrows ==
  ASSUME NEW s, NEW w, NEW r, Extends(s, w, r), Follows(s, r), r.type # "regop", NEW p
  PROVE  Com(w, Len(w)) = Com(s, Len(s)) /\ ComUp(w, Len(w), p) = ComUp(s, Len(s), p)
<1>0. WellFormed(s)
  BY DEF Extends
<1>1. r.type # "ckp" => r.txn \notin Com(s, Len(s))
  BY <1>0, NotYet DEF Follows
<1>2. Com(w, Len(w)) = Com(s, Len(s))
  BY <1>1, ComGrows
<1>3. UpdatesOf(w, p) = UpdatesOf(s, p) \cup {l \in {Len(s) + 1} : r.type = "update" /\ r.page = p}
      /\ UpdatesOf(s, p) \subseteq 1..Len(s)
  BY UpdatesOfGrow
<1>4. Len(s) \in Nat /\ Len(w) = Len(s) + 1 /\ w[Len(s) + 1] = r /\ \A n \in 1..Len(s) : w[n] = s[n]
  BY ExtendsFacts
<1>5. \A l \in ComUp(w, Len(w), p) : l \in ComUp(s, Len(s), p)
  BY <1>1, <1>2, <1>3, <1>4 DEF ComUp
<1>6. \A l \in ComUp(s, Len(s), p) : l \in ComUp(w, Len(w), p)
  BY <1>2, <1>3, <1>4 DEF ComUp
<1> QED BY <1>2, <1>5, <1>6

LEMMA LogFactsGrow ==
  ASSUME NEW s, NEW w, NEW r, Extends(s, w, r), LogFacts(s), Follows(s, r),
         \A p \in Page : Linear(w, ComUp(w, Len(w), p))
  PROVE  LogFacts(w)
<1>0. /\ Len(s) \in Nat /\ Len(w) = Len(s) + 1 /\ Len(s) + 1 \in 1..Len(w) /\ w[Len(s) + 1] = r
      /\ \A n \in 1..Len(w) : n \in 1..Len(s) \/ n = Len(s) + 1
      /\ \A n \in 1..Len(s) : n \in 1..Len(w) /\ w[n] = s[n]
  BY ExtendsFacts
<1>1. MergedOnce(w)
  <2> SUFFICES ASSUME NEW n \in 1..Len(w), w[n].type = "child"
               PROVE  /\ parent[w[n].child] = w[n].txn
                      /\ \E m \in 1..n - 1 : Starts(w[m], w[n].child)
                      /\ \A m \in n + 1..Len(w) : IsRecord(w, m) =>
                            w[m].txn # w[n].child /\ (w[m].type = "child" => w[m].child # w[n].child)
    BY DEF MergedOnce
  <2>1. CASE n = Len(s) + 1
    <3>1. \E m \in 1..n - 1 : Starts(w[m], w[n].child)
      BY <1>0, <2>1 DEF Follows
    <3> QED BY <1>0, <2>1, <3>1 DEF Follows
  <2>2. CASE n \in 1..Len(s)
    <3>1. /\ s[n].type = "child" /\ parent[s[n].child] = s[n].txn
          /\ \E m \in 1..n - 1 : Starts(s[m], s[n].child)
          /\ \A m \in n + 1..Len(s) : IsRecord(s, m) =>
                s[m].txn # s[n].child /\ (s[m].type = "child" => s[m].child # s[n].child)
      BY <1>0, <2>2 DEF LogFacts, MergedOnce
    <3>2. \E m \in 1..n - 1 : Starts(w[m], w[n].child)
      BY <1>0, <2>2, <3>1
    <3>3. ASSUME NEW m \in n + 1..Len(w), IsRecord(w, m)
          PROVE  w[m].txn # w[n].child /\ (w[m].type = "child" => w[m].child # w[n].child)
      <4>1. CASE m = Len(s) + 1
        <5>1. IsCommit(s, n, s[n].child)
          BY <3>1 DEF IsCommit
        <5> QED BY <1>0, <2>2, <3>3, <4>1, <5>1 DEF Follows, IsRecord
      <4>2. CASE m # Len(s) + 1
        <5>1. m \in n + 1..Len(s) /\ w[m] = s[m] /\ IsRecord(s, m)
          BY <1>0, <2>2, <3>3, <4>2 DEF IsRecord
        <5> QED BY <1>0, <2>2, <3>1, <5>1
      <4> QED BY <4>1, <4>2
    <3> QED BY <1>0, <2>2, <3>1, <3>2, <3>3
  <2> QED BY <1>0, <2>1, <2>2
<1>2. CommittedOnce(w)
  <2> SUFFICES ASSUME NEW n \in 1..Len(w), w[n].type = "regop"
               PROVE  /\ parent[w[n].txn] = NoTxn
                      /\ \A m \in n + 1..Len(w) : IsRecord(w, m) => w[m].txn # w[n].txn
    BY DEF CommittedOnce
  <2>1. CASE n = Len(s) + 1
    BY <1>0, <2>1 DEF Follows
  <2>2. CASE n \in 1..Len(s)
    <3>1. /\ s[n].type = "regop" /\ parent[s[n].txn] = NoTxn
          /\ \A m \in n + 1..Len(s) : IsRecord(s, m) => s[m].txn # s[n].txn
      BY <1>0, <2>2 DEF LogFacts, CommittedOnce
    <3>2. ASSUME NEW m \in n + 1..Len(w), IsRecord(w, m) PROVE w[m].txn # w[n].txn
      <4>1. CASE m = Len(s) + 1
        <5>1. IsCommit(s, n, s[n].txn)
          BY <3>1 DEF IsCommit
        <5> QED BY <1>0, <2>2, <3>2, <4>1, <5>1 DEF Follows, IsRecord
      <4>2. CASE m # Len(s) + 1
        <5>1. m \in n + 1..Len(s) /\ w[m] = s[m] /\ IsRecord(s, m)
          BY <1>0, <2>2, <3>2, <4>2 DEF IsRecord
        <5> QED BY <1>0, <2>2, <3>1, <5>1
      <4> QED BY <4>1, <4>2
    <3> QED BY <1>0, <2>2, <3>1, <3>2
  <2> QED BY <1>0, <2>1, <2>2
<1>3. BegunInLog(w)
  <2> SUFFICES ASSUME NEW n \in 1..Len(w), w[n].type # "ckp" PROVE \E m \in 1..n : Starts(w[m], w[n].txn)
    BY DEF BegunInLog
  <2>1. CASE n = Len(s) + 1
    BY <1>0, <2>1 DEF Follows
  <2>2. CASE n \in 1..Len(s)
    BY <1>0, <2>2 DEF LogFacts, BegunInLog
  <2> QED BY <1>0, <2>1, <2>2
<1>4. CommittedLinear(w)
  <2> SUFFICES ASSUME NEW n \in 0..Len(w), NEW p \in Page PROVE Linear(w, ComUp(w, n, p))
    BY DEF CommittedLinear
  <2>1. CASE n = Len(w)
    BY <2>1
  <2>2. CASE n \in 0..Len(s)
    <3>1. Linear(s, ComUp(s, n, p))
      BY <2>2 DEF LogFacts, CommittedLinear
    <3>2. Com(w, n) = Com(s, n)
      BY <2>2, ExtendsFacts
    <3>3. ComUp(w, n, p) = ComUp(s, n, p)
      BY <1>0, <2>2, <3>2 DEF ComUp, UpdatesOf
    <3>4. ComUp(s, n, p) \subseteq 1..Len(s)
      BY DEF ComUp, UpdatesOf
    <3> QED BY <1>0, <3>1, <3>3, <3>4, LinearSame
  <2> QED BY <1>0, <2>1, <2>2
<1> QED BY <1>1, <1>2, <1>3, <1>4 DEF LogFacts

\* Chains keep what they lead to.
LEMMA ChainGrows ==
  ASSUME NEW r, Extends(log, log', r)
  PROVE  /\ \A l : LeadsTo(log, l) => Chain'[l] = Chain[l]
         /\ r.type # "ckp" =>
              Chain'[Len(log) + 1] = (IF r.type = "update" THEN <<Len(log) + 1>>
                                      ELSE IF r.type = "child" THEN Chain'[r.clsn] ELSE <<>>) \o Chain'[r.prev]
<1>1. IsChain(log, Chain) /\ IsChain(log', Chain') /\ WellFormed(log) /\ WellFormed(log')
  BY ChainIs, ChainIsNext DEF Extends
<1>2. PICK c, d : c = Chain /\ d = Chain'
  OBVIOUS
<1>3. Len(log) \in Nat /\ Len(log') = Len(log) + 1 /\ log'[Len(log) + 1] = r
      /\ \A n \in 1..Len(log) : n \in 1..Len(log') /\ log'[n] = log[n]
  BY ExtendsFacts
<1>4. DOMAIN log = 1..Len(log) /\ DOMAIN log' = 1..Len(log')
  BY <1>1 DEF WellFormed
<1>5. LinkedIn(log) \subseteq LinkedIn(log')
  BY <1>3, <1>4 DEF LinkedIn
<1>6. ASSUME NEW l, LeadsTo(log, l) PROVE d[l] = c[l]
  <2>1. l \in LinkedIn(log)
    BY <1>4, <1>6 DEF LinkedIn, LeadsTo
  <2> QED BY <1>1, <1>2, <1>3, <1>5, <2>1, ChainSame
<1>7. ASSUME r.type # "ckp"
      PROVE  d[Len(log) + 1] = (IF r.type = "update" THEN <<Len(log) + 1>>
                                ELSE IF r.type = "child" THEN d[r.clsn] ELSE <<>>) \o d[r.prev]
  <2>1. Len(log) + 1 \in LinkedIn(log') /\ Len(log) + 1 # 0
    BY <1>3, <1>4, <1>7 DEF LinkedIn
  <2>2. d[Len(log) + 1] = ChainStep(log', d, Len(log) + 1)
    BY <1>1, <1>2, <2>1 DEF IsChain
  <2> QED BY <1>3, <2>1, <2>2 DEF ChainStep
<1> QED BY <1>2, <1>6, <1>7

\* The facts about a log that grows are those of families and of committers.
LEMMA EarlyGrows ==
  ASSUME NEW s, NEW w, NEW r, Extends(s, w, r), NEW t, NEW f \in 0..Len(s) + 1
  PROVE  Early(w, t, f) <=> Early(s, t, f)
BY ExtendsFacts DEF Early

LEMMA SettledGrows ==
  ASSUME NEW s, NEW w, NEW r, Extends(s, w, r), NEW t
  PROVE  /\ r.type # "ckp" => (Settled(w, t) <=> Settled(s, t))
         /\ r.type = "ckp" => (Settled(w, t) <=> Settled(s, t) \/ Early(s, t, r.lsn))
<1>0. /\ Len(s) \in Nat /\ Len(w) = Len(s) + 1 /\ Len(s) + 1 \in 1..Len(w) /\ w[Len(s) + 1] = r
      /\ \A n \in 1..Len(w) : n \in 1..Len(s) \/ n = Len(s) + 1
      /\ \A n \in 1..Len(s) : n \in 1..Len(w) /\ w[n] = s[n]
  BY ExtendsFacts
<1>1. \A n \in 1..Len(w) : w[n].type = "ckp" => w[n].lsn \in 0..Len(s) + 1
  <2>1. \A n \in 1..Len(w) : w[n].type = "ckp" => w[n].lsn \in 1..n - 1
    BY DEF Extends, WellFormed, RecordOK
  <2> QED BY <1>0, <2>1
<1>2. \A n \in 1..Len(w) : w[n].type = "ckp" => (Early(w, t, w[n].lsn) <=> Early(s, t, w[n].lsn))
  BY <1>1, EarlyGrows
<1>3. Settled(w, t) <=> \E n \in 1..Len(w) : w[n].type = "ckp" /\ Early(s, t, w[n].lsn)
  BY <1>2 DEF Settled
<1> QED BY <1>0, <1>3 DEF Settled

\* New records of a family that has not ended do not touch an image.
LEMMA ImageGrows ==
  ASSUME NEW s, NEW w, NEW r, Extends(s, w, r), NEW p, NEW x, NEW F, Image(s, p, x, F),
         \A t \in F : t \in Com(w, Len(w)) <=> t \in Com(s, Len(s)),
         r.type = "update" => r.txn \notin F
  PROVE  Image(w, p, x, F)
<1>0. /\ Len(s) \in Nat /\ Len(w) = Len(s) + 1 /\ w[Len(s) + 1] = r
      /\ \A n \in 1..Len(s) : w[n] = s[n]
  BY ExtendsFacts
<1>1. /\ UpdatesOf(w, p) = UpdatesOf(s, p) \cup {l \in {Len(s) + 1} : r.type = "update" /\ r.page = p}
      /\ UpdatesOf(s, p) \subseteq 1..Len(s)
  BY UpdatesOfGrow
<1>2. PICK V \in SUBSET UpdatesOf(s, p) :
        /\ Linear(s, V) /\ Below(V, x, Len(s) + 1)
        /\ \A l \in UpdatesOf(s, p) : s[l].txn \in F => (l \in V <=> s[l].txn \in Com(s, Len(s)))
  BY DEF Image
<1>3. Linear(w, V)
  BY <1>0, <1>1, <1>2, LinearSame
<1>4. Below(V, x, Len(w) + 1)
  BY <1>0, <1>1, <1>2 DEF Below
<1>5. \A l \in UpdatesOf(w, p) : w[l].txn \in F => (l \in V <=> w[l].txn \in Com(w, Len(w)))
  <2> SUFFICES ASSUME NEW l \in UpdatesOf(w, p), w[l].txn \in F
               PROVE  l \in V <=> w[l].txn \in Com(w, Len(w))
    OBVIOUS
  <2>1. CASE l \in UpdatesOf(s, p)
    <3>1. w[l] = s[l]
      BY <1>0, <1>1, <2>1
    <3> QED BY <1>2, <2>1, <3>1
  <2>2. CASE l \notin UpdatesOf(s, p)
    BY <1>0, <1>1, <2>2
  <2> QED BY <2>1, <2>2
<1> QED BY <1>1, <1>3, <1>4, <1>5 DEF Image

\* A family is asked for less: the image is one still.
LEMMA ImageOfFewer ==
  ASSUME NEW s, NEW p, NEW x, NEW F, Image(s, p, x, F), NEW G, G \subseteq F
  PROVE  Image(s, p, x, G)
BY DEF Image

-----------------------------------------------------------------------------
(* What the invariant says of the running system *)

LEMMA PageFacts ==
  ASSUME PageInv
  PROVE  /\ parent \in Trees /\ parent \in [Txn -> Txn \cup {NoTxn}] /\ NoTxn \notin Txn
         /\ txn \in [Txn -> TxnDetail]
         /\ \A t \in Txn : /\ txn[t].st \in {"running", "committing", "aborting", "ended"}
                           /\ txn[t].last \in Nat /\ txn[t].begin \in Nat /\ txn[t].undo \in Seq(Nat)
                           /\ InLog(txn[t], log) /\ Detail(log, txn, t)
         /\ WellFormed(log) /\ Len(log) \in Nat /\ Len(log) \in 0..Len(log)
         /\ MergedOnce(log) /\ CommittedOnce(log) /\ BegunInLog(log) /\ CommittedLinear(log)
         /\ Begun(log, txn)
         /\ cache \in [Page -> Nat] /\ disk \in [Page -> Nat] /\ ckp \in CkpState /\ rec \in RecState
<1>1. txn \in [Txn -> TxnDetail] /\ WellFormed(log)
  BY DEF PageInv, Inv, Types, LogOK, WellFormed
<1>2. \A t \in Txn : /\ txn[t].st \in {"running", "committing", "aborting", "ended"}
                     /\ txn[t].last \in Nat /\ txn[t].begin \in Nat /\ txn[t].undo \in Seq(Nat)
  BY <1>1 DEF TxnDetail
<1> QED BY <1>1, <1>2, RecoveryAssumption DEF PageInv, Inv, Types, TxnsInLog, LogFacts, Details, WellFormed

\* Nobody is his own ancestor.
LEMMA NoCircle ==
  ASSUME parent \in Trees
  PROVE  \A t \in Txn : parent[t] # NoTxn => t \notin Lineage[parent[t]]
<1>1. PICK G : G = {t \in Txn : parent[t] # NoTxn => t \notin Lineage[parent[t]]}
  OBVIOUS
<1>2. ASSUME NEW t \in Txn, parent[t] # NoTxn => parent[t] \in G PROVE t \in G
  <2> SUFFICES ASSUME parent[t] # NoTxn, t \in Lineage[parent[t]] PROVE FALSE
    BY <1>1
  <2>1. PICK q \in Txn : q = parent[t] /\ q # t /\ q \in G
    BY <1>2, FamilyFacts
  <2>2. Lineage[t] = {t} \cup Lineage[q]
    BY <2>1, FamilyFacts
  <2>3. parent[q] # NoTxn
    <3>1. parent[q] = NoTxn => Lineage[q] = {q}
      BY <2>1, FamilyFacts
    <3> QED BY <2>1, <3>1
  <2>4. PICK a \in Txn : a = parent[q] /\ Lineage[q] = {q} \cup Lineage[a]
    BY <2>1, <2>3, FamilyFacts
  <2>5. t \in Lineage[a]
    BY <2>1, <2>4
  <2>6. Lineage[t] \subseteq Lineage[a] /\ q \in Lineage[t]
    BY <2>1, <2>2, <2>4, <2>5, FamilyFacts
  <2> QED BY <1>1, <2>1, <2>3, <2>4, <2>6
<1>3. Txn \subseteq G
  BY <1>2, FamilyInduction
<1> QED BY <1>1, <1>3

LEMMA ToSetConcat ==
  ASSUME NEW S, NEW a \in Seq(S), NEW b \in Seq(S)
  PROVE  ToSet(a \o b) = ToSet(a) \cup ToSet(b)
<1>1. /\ Len(a \o b) = Len(a) + Len(b) /\ DOMAIN (a \o b) = 1..Len(a) + Len(b)
      /\ \A i \in 1..Len(a) + Len(b) : (a \o b)[i] = IF i =< Len(a) THEN a[i] ELSE b[i - Len(a)]
  OBVIOUS
<1>2. DOMAIN a = 1..Len(a) /\ DOMAIN b = 1..Len(b) /\ Len(a) \in Nat /\ Len(b) \in Nat
  OBVIOUS
<1>3. ASSUME NEW i \in 1..Len(b) PROVE i + Len(a) \in 1..Len(a) + Len(b) /\ (a \o b)[i + Len(a)] = b[i]
  BY <1>1, <1>2
<1>4. ToSet(b) \subseteq ToSet(a \o b)
  BY <1>1, <1>2, <1>3, ZenonT(60) DEF ToSet
<1>5. ToSet(a) \subseteq ToSet(a \o b)
  BY <1>1, <1>2 DEF ToSet
<1>6. ToSet(a \o b) \subseteq ToSet(a) \cup ToSet(b)
  <2> SUFFICES ASSUME NEW i \in 1..Len(a) + Len(b) PROVE (a \o b)[i] \in ToSet(a) \cup ToSet(b)
    BY <1>1 DEF ToSet
  <2>1. CASE i =< Len(a)
    BY <1>1, <1>2, <2>1 DEF ToSet
  <2>2. CASE ~(i =< Len(a))
    <3>1. i - Len(a) \in 1..Len(b)
      BY <1>2, <2>2
    <3> QED BY <1>1, <1>2, <2>2, <3>1 DEF ToSet
  <2> QED BY <2>1, <2>2
<1> QED BY <1>4, <1>5, <1>6

\* Who has not committed is under nobody else.
LEMMA UnderOf ==
  ASSUME NEW s, WellFormed(s), NEW t \in Txn, \A n \in 1..Len(s) : ~IsCommit(s, n, t), NEW u \in Txn
  PROVE  t \in Under(s, Len(s), {u}) <=> t = u
<1>1. PICK X : X = {u}
  OBVIOUS
<1>2. X \subseteq Txn /\ Len(s) \in 0..Len(s)
  BY <1>1 DEF WellFormed
<1>3. X \subseteq Under(s, Len(s), X)
  BY <1>2, UnderFacts
<1>4. ASSUME t \in Under(s, Len(s), X) PROVE t \in X
  BY <1>2, <1>4, UnderFrom DEF IsCommit
<1> QED BY <1>1, <1>3, <1>4

\* What is held.
LEMMA HoldFacts ==
  ASSUME PageInv, mode = "up", NEW t \in Holders(txn), NEW l \in Holds(txn, Chain, t)
  PROVE  /\ l \in Own(log, t) /\ l \in ToSet(Chain[txn[t].last]) /\ l \in 1..Len(log) /\ log[l].type = "update"
         /\ log[l].page \in Page /\ l \in UpdatesOf(log, log[l].page)
         /\ t \in Txn /\ t \in Active /\ txn[t].last # 0 /\ log[l].txn \in Txn
         /\ Top(log[l].txn) = Top(t) /\ txn[Top(t)].st # "ended"
<1>0. t \in Txn /\ t \in Active /\ txn[t].st \in {"running", "aborting"}
  BY DEF Holders, Active
<1>1. l \in Own(log, t) /\ l \in ToSet(Chain[txn[t].last])
  BY <1>0 DEF PageInv, UpFacts, Chains, Holds
<1>2. l \in 1..Len(log) /\ log[l].type = "update" /\ log[l].txn \in Under(log, Len(log), {t})
  BY <1>1 DEF Own, Updates
<1>3. log[l].page \in Page /\ log[l].txn \in Txn /\ l \in UpdatesOf(log, log[l].page)
  BY <1>2, PageFacts, RecFacts DEF WellFormed, UpdatesOf
<1>4. txn[t].last # 0
  <2>1. Chain[0] = <<>>
    <3>1. IsChain(log, Chain) /\ 0 \in LinkedIn(log)
      BY PageFacts, ChainIs DEF LinkedIn
    <3>2. PICK c : c = Chain
      OBVIOUS
    <3>3. c[0] = <<>>
      BY <3>1, <3>2 DEF IsChain, ChainStep
    <3> QED BY <3>2, <3>3
  <2>2. ToSet(<<>>) = {}
    BY DEF ToSet
  <2>3. Chain[txn[t].last] # <<>>
    BY <1>1, <2>2
  <2> QED BY <2>1, <2>3
<1>5. Top(log[l].txn) = Top(t)
  <2>1. PICK X : X = {t}
    OBVIOUS
  <2>2. X \subseteq Txn /\ log[l].txn \in Under(log, Len(log), X)
    BY <1>0, <1>2, <2>1
  <2>3. PICK v \in Under(log, Len(log), X) : v = log[l].txn
    BY <2>2
  <2>4. parent \in Trees /\ WellFormed(log) /\ MergedOnce(log) /\ Len(log) \in 0..Len(log)
    BY PageFacts
  <2>5. \E a \in X : a \in Lineage[v] /\ Top(v) = Top(a)
    BY <2>2, <2>4, UnderFamily
  <2> QED BY <2>1, <2>3, <2>5
<1>6. txn[Top(t)].st # "ended"
  <2>1. \A a \in Lineage[t] \ {t} : txn[a].st = "running"
    BY <1>0, <1>4, PageFacts DEF Detail
  <2>2. Top(t) \in Lineage[t]
    BY <1>0, PageFacts, FamilyFacts
  <2>3. Top(t) = t \/ txn[Top(t)].st = "running"
    BY <2>1, <2>2
  <2> QED BY <1>0, <2>3
<1> QED BY <1>0, <1>1, <1>2, <1>3, <1>4, <1>5, <1>6

\* Nobody below a transaction that acts has records.
LEMMA NoKids ==
  ASSUME PageInv, NEW t \in Txn, Kids(t) = {}
  PROVE  \A u \in Txn : txn[u].last # 0 /\ t \in Lineage[u] => u = t
<1> SUFFICES ASSUME NEW u \in Txn, txn[u].last # 0, t \in Lineage[u], u # t PROVE FALSE
  OBVIOUS
<1>1. u \in Active
  BY PageFacts DEF Active, Detail
<1> QED BY <1>1 DEF Kids

\* The disk, while transactions that go on write the log.
LEMMA DiskStays ==
  ASSUME PageInv, NEW w, NEW r, Extends(log, w, r), Follows(log, r), r.type # "ckp",
         txn[Top(r.txn)].st # "ended", NEW y,
         \A t \in Txn : txn[Top(t)].st = "ended" => y[Top(t)].st = "ended"
  PROVE  DiskFacts(w, y, ckp, disk)
<1>0. /\ parent \in Trees /\ ckp.lsn \in 0..Len(log) + 1 /\ WellFormed(log) /\ WellFormed(w) /\ r.txn \in Txn
      /\ Len(log) \in Nat /\ Len(log) \in 0..Len(log) /\ MergedOnce(log)
  BY PageFacts, RecFacts DEF PageInv, Inv, CkpState, CkpInLog, WellFormed, Extends
<1>1. \A t \in Txn : Settled(w, t) <=> Settled(log, t)
  BY SettledGrows
<1>2. \A t \in Txn : Early(w, t, ckp.lsn) <=> Early(log, t, ckp.lsn)
  BY <1>0, EarlyGrows
<1>3. \A t \in Txn : Settled(log, t) => Top(t) # Top(r.txn)
  BY DEF PageInv, DiskFacts, SettledEnded
<1>4. SettledEnded(w, y, ckp)
  BY <1>1, <1>2 DEF PageInv, DiskFacts, SettledEnded
<1>5. SettledDone(w)
  <2> SUFFICES ASSUME NEW m \in 1..Len(w), NEW k \in 1..Len(w),
                      w[m].type = "ckp", w[k].type # "ckp", Early(w, w[k].txn, w[m].lsn)
               PROVE  k < m
    BY DEF SettledDone
  <2>0. /\ Len(log) \in Nat /\ Len(w) = Len(log) + 1 /\ w[Len(log) + 1] = r
        /\ \A n \in 1..Len(w) : n \in 1..Len(log) \/ n = Len(log) + 1
        /\ \A n \in 1..Len(log) : w[n] = log[n]
    BY ExtendsFacts
  <2>1. m \in 1..Len(log) /\ log[m].type = "ckp" /\ w[m] = log[m]
    BY <2>0
  <2>2. log[m].lsn \in 0..Len(log) + 1
    BY <1>0, <2>0, <2>1 DEF WellFormed, RecordOK
  <2>3. Early(log, w[k].txn, log[m].lsn)
    BY <2>1, <2>2, EarlyGrows
  <2>4. k # Len(log) + 1
    BY <1>0, <1>3, <2>0, <2>1, <2>3 DEF Settled
  <2> QED BY <2>0, <2>1, <2>3, <2>4 DEF PageInv, DiskFacts, SettledDone
<1>6. ASSUME NEW p \in Page PROVE Image(w, p, disk[p], Must(w, ckp, p))
  <2>1. Must(w, ckp, p) = Must(log, ckp, p)
    BY <1>1, <1>2 DEF Must
  <2>2. PICK F : F = Must(log, ckp, p)
    OBVIOUS
  <2>3. \A t \in F : t \in Txn /\ txn[Top(t)].st = "ended"
    BY <2>2 DEF Must, PageInv, DiskFacts, SettledEnded
  <2>4. \A t \in F : t \in Com(w, Len(w)) <=> t \in Com(log, Len(log))
    <3>1. CASE r.type # "regop"
      BY <3>1, ComUpGrows
    <3>2. CASE r.type = "regop"
      <4>1. Com(w, Len(w)) = Com(log, Len(log)) \cup Under(log, Len(log), {r.txn})
        BY <3>2, ComGrows
      <4>2. ASSUME NEW t \in F, t \in Under(log, Len(log), {r.txn}) PROVE FALSE
        <5>1. PICK X : X = {r.txn}
          OBVIOUS
        <5>2. X \subseteq Txn /\ t \in Under(log, Len(log), X)
          BY <1>0, <4>2, <5>1
        <5>3. \E x \in X : x \in Lineage[t] /\ Top(t) = Top(x)
          BY <1>0, <5>2, UnderFamily
        <5> QED BY <2>3, <5>1, <5>3
      <4> QED BY <4>1, <4>2
    <3> QED BY <3>1, <3>2
  <2>5. r.txn \notin F
    BY <2>3
  <2>6. Image(log, p, disk[p], F)
    BY <2>2 DEF PageInv, DiskFacts
  <2>7. Image(w, p, disk[p], F)
    BY <2>4, <2>5, <2>6, ImageGrows
  <2> QED BY <2>1, <2>2, <2>7
<1> QED BY <1>4, <1>5, <1>6 DEF DiskFacts

-----------------------------------------------------------------------------
(* The running system writes a record *)

\* A transaction that has a record has a first one.
LEMMA HasStart ==
  ASSUME PageInv, NEW t \in Txn, txn[t].last # 0
  PROVE  \E m \in 1..Len(log) : Starts(log[m], t)
<1>1. txn[t].last \in 1..Len(log) /\ log[txn[t].last].type # "ckp" /\ log[txn[t].last].txn = t
  BY PageFacts DEF Detail, InLog, LeadsTo
<1>2. \E m \in 1..txn[t].last : Starts(log[m], t)
  BY <1>1, PageFacts DEF BegunInLog
<1> QED BY <1>1, <1>2, PageFacts

LEMMA LoggedBegin ==
  ASSUME PageInv, NEW t \in Txn, NEW n \in Nat, NEW x, x = Logged(t, n)
  PROVE  \A u \in Txn : x[u].begin = IF u = Top(t) /\ txn[u].begin = 0 THEN n ELSE txn[u].begin
<1>1. txn \in [Txn -> TxnDetail]
  BY PageFacts
<1>2. PICK y : y = [txn EXCEPT ![t].last = n]
  OBVIOUS
<1>3. y \in [Txn -> TxnDetail] /\ \A u \in Txn : y[u].begin = txn[u].begin
  BY <1>1, <1>2 DEF TxnDetail
<1>4. PICK a : a = Top(t)
  OBVIOUS
<1>5. x = [y EXCEPT ![a].begin = IF @ = 0 THEN n ELSE @]
  BY <1>2, <1>4 DEF Logged
<1>6. ASSUME NEW u \in Txn PROVE x[u].begin = IF u = a /\ y[u].begin = 0 THEN n ELSE y[u].begin
  <2>1. PICK d \in TxnDetail : d = y[u]
    BY <1>3
  <2>2. PICK e : e = [d EXCEPT !.begin = IF @ = 0 THEN n ELSE @]
    OBVIOUS
  <2>3. e.begin = IF d.begin = 0 THEN n ELSE d.begin
    BY <2>2 DEF TxnDetail
  <2>4. x[u] = IF u = a THEN e ELSE d
    BY <1>3, <1>5, <2>1, <2>2
  <2> QED BY <2>1, <2>3, <2>4
<1> QED BY <1>3, <1>4, <1>6

\* The details of transactions after record r of t; not of one it commits.
LEMMA LoggedDetails ==
  ASSUME PageInv, NEW t \in Txn, Lineage[t] \subseteq Running,
         NEW w, NEW r, Extends(log, w, r), r.type # "ckp", r.txn = t,
         NEW x, x = Logged(t, Len(log) + 1)
  PROVE  /\ Begun(w, x)
         /\ \A u \in Txn : ~IsCommit(w, Len(log) + 1, u) => Detail(w, x, u)
<1>0. /\ Len(log) \in Nat /\ Len(w) = Len(log) + 1 /\ w[Len(log) + 1] = r
      /\ \A n \in 1..Len(w) : n \in 1..Len(log) \/ n = Len(log) + 1
      /\ \A n \in 1..Len(log) : n \in 1..Len(w) /\ w[n] = log[n]
  BY ExtendsFacts
<1>1. /\ \A u \in Txn : /\ x[u].st = txn[u].st
                        /\ x[u].last = IF u = t THEN Len(log) + 1 ELSE txn[u].last
  BY <1>0, LoggedFacts DEF PageInv
<1>2. \A u \in Txn : x[u].begin = IF u = Top(t) /\ txn[u].begin = 0 THEN Len(log) + 1 ELSE txn[u].begin
  BY <1>0, LoggedBegin
<1>3. /\ Top(t) \in Txn /\ txn[Top(t)].st = "running" /\ t \in Lineage[t] /\ txn[t].st = "running"
      /\ \A a \in Lineage[t] : a \in Txn /\ txn[a].st = "running"
  BY PageFacts, FamilyFacts DEF Running
<1>4. ASSUME NEW u \in Txn, ~IsCommit(w, Len(log) + 1, u) PROVE Detail(w, x, u)
  <2>0. Detail(log, txn, u) /\ InLog(txn[u], log) /\ Lineage[u] \subseteq Txn
    BY PageFacts, FamilyFacts
  <2>1. x[u].st = "running" /\ x[u].last = 0 => \A n \in 1..Len(w) : w[n].type # "ckp" => w[n].txn # u
    BY <1>0, <1>1, <2>0 DEF Detail
  <2>2. x[u].last # 0 => w[x[u].last].txn = u
    BY <1>0, <1>1, <2>0 DEF Detail, InLog, LeadsTo
  <2>3. x[u].st \in {"running", "aborting"} => \A n \in 1..Len(w) : ~IsCommit(w, n, u)
    BY <1>0, <1>1, <1>4, <2>0 DEF Detail, IsCommit
  <2>4. x[u].st = "committing" => u \in Regops(w, Len(w))
    BY <1>0, <1>1, <2>0 DEF Detail, Regops
  <2>5. x[u].st \in {"committing", "aborting"} => x[u].last # 0
    BY <1>0, <1>1, <2>0 DEF Detail
  <2>6. x[u].st = "ended" => x[u].last = 0 /\ x[u].begin = 0
    BY <1>0, <1>1, <1>2, <1>3, <2>0 DEF Detail
  <2>7. x[u].last # 0 => \A a \in Lineage[u] \ {u} : x[a].st = "running"
    BY <1>1, <1>3, <2>0 DEF Detail
  <2> QED BY <2>1, <2>2, <2>3, <2>4, <2>5, <2>6, <2>7 DEF Detail
<1>5. Begun(w, x)
  <2> SUFFICES ASSUME NEW n \in 1..Len(w), w[n].type # "ckp"
               PROVE  x[Top(w[n].txn)].st = "ended" \/ x[Top(w[n].txn)].begin \in 1..n
    BY DEF Begun
  <2>1. CASE n \in 1..Len(log)
    <3>1. w[n] = log[n] /\ log[n].txn \in Txn
      <4>1. w[n] = log[n]
        BY <1>0, <2>1
      <4> QED BY <2>1, <4>1, PageFacts, RecordFacts
    <3>2. PICK a \in Txn : a = Top(log[n].txn)
      BY <3>1, PageFacts, FamilyFacts
    <3>3. txn[a].st = "ended" \/ txn[a].begin \in 1..n
      BY <2>1, <3>1, <3>2, PageFacts DEF Begun
    <3> QED BY <1>1, <1>2, <3>1, <3>2, <3>3
  <2>2. CASE n = Len(log) + 1
    <3>1. txn[Top(t)].begin \in 0..Len(log)
      BY <1>3, PageFacts DEF InLog
    <3> QED BY <1>0, <1>2, <1>3, <2>2, <3>1
  <2> QED BY <1>0, <2>1, <2>2
<1> QED BY <1>4, <1>5

\* What is owned grows by an update.
LEMMA OwnGrows ==
  ASSUME NEW s, NEW w, NEW r, Extends(s, w, r), NEW u \in Txn,
         r.type # "child" \/ r.txn \notin Under(s, Len(s), {u})
  PROVE  Own(w, u) = Own(s, u) \cup {l \in {Len(s) + 1} : r.type = "update" /\ r.txn \in Under(s, Len(s), {u})}
<1>1. /\ Len(s) \in Nat /\ Len(w) = Len(s) + 1 /\ w[Len(s) + 1] = r
      /\ \A n \in 1..Len(s) : w[n] = s[n]
  BY ExtendsFacts
<1>2. PICK X : X = {u}
  OBVIOUS
<1>3. X \subseteq Txn /\ (r.type # "child" \/ r.txn \notin Under(s, Len(s), X))
  BY <1>2
<1>4. Under(w, Len(w), X) = Under(s, Len(s), X)
  BY <1>3, UnderStays
<1>5. Updates(w) = Updates(s) \cup {l \in {Len(s) + 1} : r.type = "update"} /\ Updates(s) \subseteq 1..Len(s)
  BY UpdatesOfGrow DEF Updates
<1>6. PICK U : U = Under(s, Len(s), X)
  OBVIOUS
<1>7. Own(w, u) = {l \in Updates(w) : w[l].txn \in U} /\ Own(s, u) = {l \in Updates(s) : s[l].txn \in U}
  BY <1>2, <1>4, <1>6 DEF Own
<1>8. \A l \in Updates(s) : w[l] = s[l]
  BY <1>1, <1>5
<1> QED BY <1>1, <1>2, <1>5, <1>6, <1>7, <1>8

LEMMA OwnStays ==
  ASSUME NEW s, NEW w, NEW r, Extends(s, w, r), r.type # "child", r.type # "update", NEW u \in Txn
  PROVE  Own(w, u) = Own(s, u)
<1>1. \A n \in 1..Len(s) : w[n] = s[n]
  BY ExtendsFacts
<1>2. PICK X : X = {u}
  OBVIOUS
<1>3. X \subseteq Txn /\ r.type # "child"
  BY <1>2
<1>4. Under(w, Len(w), X) = Under(s, Len(s), X)
  BY <1>3, UnderStays
<1>5. Updates(w) = Updates(s) \cup {l \in {Len(s) + 1} : r.type = "update"} /\ Updates(s) \subseteq 1..Len(s)
  BY UpdatesOfGrow DEF Updates
<1>6. PICK U : U = Under(s, Len(s), X)
  OBVIOUS
<1>7. Own(w, u) = {l \in Updates(w) : w[l].txn \in U} /\ Own(s, u) = {l \in Updates(s) : s[l].txn \in U}
  BY <1>2, <1>4, <1>6 DEF Own
<1> QED BY <1>1, <1>5, <1>7

\* What is committed is linear still, unless the record commits.
LEMMA CommittedStays ==
  ASSUME PageInv, NEW w, NEW r, Extends(log, w, r), Follows(log, r), r.type # "regop"
  PROVE  LogFacts(w)
<1>1. ASSUME NEW p \in Page PROVE Linear(w, ComUp(w, Len(w), p))
  <2>1. ComUp(w, Len(w), p) = ComUp(log, Len(log), p)
    BY ComUpGrows
  <2>2. Linear(log, ComUp(log, Len(log), p))
    BY PageFacts DEF CommittedLinear
  <2>3. ComUp(log, Len(log), p) \subseteq 1..Len(log) /\ \A n \in 1..Len(log) : w[n] = log[n]
    BY ExtendsFacts DEF ComUp, UpdatesOf
  <2> QED BY <2>1, <2>2, <2>3, LinearSame
<1> QED BY <1>1, LogFactsGrow DEF PageInv

LEMMA ExtendsLog ==
  ASSUME Inv, NEW r \in Rec, log' = Append(log, r),
         /\ r.type # "ckp" => LeadsTo(log, r.prev)
         /\ r.type = "child" => LeadsTo(log, r.clsn)
         /\ r.type = "update" => r.before =< Len(log)
         /\ r.type = "ckp" => r.lsn \in 1..Len(log)
  PROVE  Extends(log, log', r)
<1>1. /\ LogOK' /\ Len(log') = Len(log) + 1 /\ log'[Len(log) + 1] = r
      /\ \A n \in 1..Len(log) : log'[n] = log[n]
  BY Grows
<1> QED BY <1>1 DEF Extends, WellFormed, LogOK, Inv

LEMMA DescendingSame ==
  ASSUME NEW s, NEW w, \A n \in 1..Len(s) : w[n] = s[n], NEW u \in Seq(1..Len(s))
  PROVE  Descending(w, u) <=> Descending(s, u)
<1>1. \A i \in 1..Len(u) : w[u[i]] = s[u[i]]
  OBVIOUS
<1> QED BY <1>1 DEF Descending

\* A new update is the greatest of its page.
LEMMA ChangeGoesRight == ASSUME PageInv, NEW t \in Txn, NEW p \in Page, Change(t, p) PROVE PageInv'
<1>0. /\ mode = "up" /\ t \in Running /\ Lineage[t] \subseteq Running /\ ~LockedByAnother(t, p)
      /\ log' = Append(log, Update(t, p, cache[p], txn[t].last))
      /\ txn' = Logged(t, Len(log) + 1)
      /\ cache' = [cache EXCEPT ![p] = Len(log) + 1]
      /\ UNCHANGED <<parent, flushed, disk, ckp, mode, rec, synced, crashes>>
  BY DEF Change, MayAct, Up
<1>1. InLog(txn[t], log) /\ txn[t].last \in Nat /\ cache[p] \in Nat /\ cache[p] =< Len(log) /\ txn[t].st = "running"
  BY <1>0, PageFacts DEF PageInv, Inv, WriteAhead, Running
<1>2. PICK r : r = Update(t, p, cache[p], txn[t].last)
  OBVIOUS
<1>3. r \in Rec /\ r.type = "update" /\ r.txn = t /\ r.page = p /\ r.prev = txn[t].last /\ r.before = cache[p]
  BY <1>1, <1>2 DEF Update, Rec
<1>4. PICK w : w = log'
  OBVIOUS
<1>5. Extends(log, w, r)
  <2>1. LeadsTo(log, r.prev)
    BY <1>1, <1>3 DEF InLog
  <2> QED BY <1>0, <1>1, <1>2, <1>3, <1>4, <2>1, ExtendsLog DEF PageInv
<1>6. PICK n : n = Len(log) + 1
  OBVIOUS
<1>7. /\ n \in Nat /\ Len(log) \in Nat /\ n = Len(log) + 1 /\ Len(w) = n /\ w[n] = r
      /\ \A i \in 1..Len(log) : i \in 1..Len(w) /\ w[i] = log[i]
  BY <1>5, <1>6, ExtendsFacts
<1>8. Follows(log, r)
  <2>1. \A i \in 1..Len(log) : ~IsCommit(log, i, t)
    BY <1>1, PageFacts DEF Detail
  <2>2. Starts(r, t) \/ \E m \in 1..Len(log) : Starts(log[m], t)
    <3>1. CASE txn[t].last = 0
      BY <1>3, <3>1 DEF Starts
    <3>2. CASE txn[t].last # 0
      BY <3>2, HasStart
    <3> QED BY <3>1, <3>2
  <2> QED BY <1>3, <2>1, <2>2 DEF Follows
<1>9. PICK x : x = Logged(t, n)
  OBVIOUS
<1>10. x = txn' /\ \A u \in Txn : /\ x[u].st = txn[u].st /\ x[u].undo = txn[u].undo
                                  /\ x[u].last = IF u = t THEN n ELSE txn[u].last
  BY <1>0, <1>6, <1>7, <1>9, LoggedFacts DEF PageInv
<1>11. LogFacts(w)
  BY <1>3, <1>5, <1>8, CommittedStays
<1>12. Details(w, x)
  <2>1. \A u \in Txn : ~IsCommit(w, n, u)
    BY <1>3, <1>7 DEF IsCommit
  <2> QED BY <1>0, <1>3, <1>5, <1>6, <1>9, <2>1, LoggedDetails DEF Details
<1>13. DiskFacts(w, x, ckp, disk)
  <2>1. Top(t) \in Txn /\ txn[Top(t)].st = "running"
    BY <1>0, PageFacts, FamilyFacts DEF Running
  <2>2. \A u \in Txn : Top(u) \in Txn
    BY PageFacts, FamilyFacts
  <2>3. \A u \in Txn : txn[Top(u)].st = "ended" => x[Top(u)].st = "ended"
    BY <1>10, <2>2
  <2> QED BY <1>3, <1>5, <1>8, <2>1, <2>3, DiskStays
<1>14. PICK c, d : c = Chain /\ d = Chain'
  OBVIOUS
<1>15. /\ \A u \in Txn : LeadsTo(log, txn[u].last) /\ d[txn[u].last] = c[txn[u].last]
       /\ \A u \in Txn : c[txn[u].last] \in Seq(Updates(log))
       /\ d[n] = <<n>> \o c[txn[t].last]
  <2>1. \A u \in Txn : LeadsTo(log, txn[u].last)
    BY PageFacts DEF InLog
  <2>2. /\ \A l : LeadsTo(log, l) => d[l] = c[l]
        /\ d[n] = <<n>> \o d[txn[t].last]
    BY <1>3, <1>4, <1>5, <1>6, <1>14, ChainGrows
  <2>3. \A u \in Txn : c[txn[u].last] \in Seq(Updates(log))
    BY <1>14, <2>1, PageFacts, ChainFacts
  <2> QED BY <2>1, <2>2, <2>3
<1>16. UpFacts(log, txn, c, cache)
  BY <1>0, <1>14 DEF PageInv
<1>17. /\ d[n] \in Seq(Updates(log) \cup {n}) /\ Len(d[n]) = Len(c[txn[t].last]) + 1 /\ d[n][1] = n
       /\ \A i \in 2..Len(d[n]) : d[n][i] = c[txn[t].last][i - 1]
       /\ ToSet(d[n]) = {n} \cup ToSet(c[txn[t].last])
  <2>1. PICK a : a = c[txn[t].last]
    OBVIOUS
  <2>2. a \in Seq(Updates(log) \cup {n})
    BY <1>15, <2>1
  <2>3. <<n>> \in Seq(Updates(log) \cup {n}) /\ ToSet(<<n>>) = {n}
    BY DEF ToSet
  <2>4. ToSet(<<n>> \o a) = {n} \cup ToSet(a)
    <3>1. PICK S : S = Updates(log) \cup {n}
      OBVIOUS
    <3>2. PICK b : b = <<n>>
      OBVIOUS
    <3>3. a \in Seq(S) /\ b \in Seq(S)
      BY <2>2, <2>3, <3>1, <3>2
    <3>4. ToSet(b \o a) = ToSet(b) \cup ToSet(a)
      BY <3>3, ToSetConcat
    <3> QED BY <2>3, <3>2, <3>4
  <2>5. /\ <<n>> \o a \in Seq(Updates(log) \cup {n}) /\ Len(<<n>> \o a) = Len(a) + 1 /\ (<<n>> \o a)[1] = n
        /\ \A i \in 2..Len(a) + 1 : (<<n>> \o a)[i] = a[i - 1]
    BY <2>2, <2>3
  <2> QED BY <1>15, <2>1, <2>4, <2>5
<1>18. Updates(log) \subseteq 1..Len(log)
  BY DEF Updates
<1>19. Chains(w, x, d)
  <2> SUFFICES ASSUME NEW u \in Txn
               PROVE  /\ x[u].st # "ended" => ToSet(d[x[u].last]) = Own(w, u)
                      /\ x[u].st = "running" => Descending(w, d[x[u].last])
                      /\ x[u].st = "aborting" =>
                            ToSet(x[u].undo) \subseteq ToSet(d[x[u].last]) /\ Descending(w, x[u].undo)
    BY DEF Chains
  <2>1. t \in Under(log, Len(log), {u}) <=> t = u
    BY <1>3, <1>8, PageFacts, UnderOf DEF Follows
  <2>2. Own(w, u) = Own(log, u) \cup {l \in {n} : t = u}
    BY <1>3, <1>5, <1>6, <2>1, OwnGrows
  <2>3. /\ x[u].st # "ended" => ToSet(c[txn[u].last]) = Own(log, u)
        /\ x[u].st = "running" => Descending(log, c[txn[u].last])
        /\ x[u].st = "aborting" =>
              ToSet(x[u].undo) \subseteq ToSet(c[txn[u].last]) /\ Descending(log, x[u].undo)
    BY <1>10, <1>16 DEF UpFacts, Chains
  <2>4. CASE u = t
    <3>1. x[t].last = n /\ x[t].st = "running"
      BY <1>1, <1>10
    <3>2. ToSet(d[n]) = Own(w, t)
      BY <1>17, <2>2, <2>3, <2>4, <3>1
    <3>3. Descending(w, d[n])
      <4> SUFFICES ASSUME NEW i \in 1..Len(d[n]), NEW j \in 1..Len(d[n]), i < j,
                          w[d[n][i]].page = w[d[n][j]].page
                   PROVE  d[n][j] < d[n][i]
        BY DEF Descending
      <4>1. PICK a : a = c[txn[t].last]
        OBVIOUS
      <4>2. a \in Seq(Updates(log)) /\ Len(a) \in Nat
        BY <1>15, <4>1
      <4>3. j \in 2..Len(d[n]) /\ d[n][j] = a[j - 1] /\ j - 1 \in 1..Len(a)
        BY <1>17, <4>1, <4>2
      <4>4. a[j - 1] \in 1..Len(log)
        BY <1>18, <4>2, <4>3
      <4>5. CASE i = 1
        BY <1>7, <1>17, <4>3, <4>4, <4>5
      <4>6. CASE i # 1
        <5>1. d[n][i] = a[i - 1] /\ i - 1 \in 1..Len(a)
          BY <1>17, <4>1, <4>2, <4>3, <4>6, SMTT(30)
        <5>2. a[i - 1] \in 1..Len(log)
          BY <1>18, <4>2, <5>1
        <5>3. log[a[i - 1]].page = log[a[j - 1]].page
          BY <1>7, <4>3, <4>4, <5>1, <5>2
        <5>4. Descending(log, a)
          <6>1. x[u].st = "running"
            BY <2>4, <3>1
          <6> QED BY <2>3, <2>4, <4>1, <6>1
        <5>5. i - 1 < j - 1 /\ j - 1 \in 1..Len(a)
          BY <4>2, <4>3, <5>1
        <5>6. a[j - 1] < a[i - 1]
          BY <5>1, <5>3, <5>4, <5>5 DEF Descending
        <5> QED BY <4>3, <5>1, <5>6
      <4> QED BY <4>5, <4>6
    <3> QED BY <2>4, <3>1, <3>2, <3>3
  <2>5. CASE u # t
    <3>1. x[u].last = txn[u].last /\ d[x[u].last] = c[txn[u].last] /\ c[txn[u].last] \in Seq(1..Len(log))
      BY <1>10, <1>15, <1>18, <2>5
    <3>2. \A v \in Seq(1..Len(log)) : Descending(log, v) => Descending(w, v)
      BY <1>7, SMTT(30) DEF Descending
    <3>3. x[u].undo \in Seq(1..Len(log))
      <4>1. x[u].undo = txn[u].undo /\ txn[u].undo \in Seq(Nat) /\ \A i \in 1..Len(txn[u].undo) : txn[u].undo[i] \in Updates(log)
        BY <1>10, PageFacts DEF InLog
      <4> QED BY <1>18, <4>1, SMTT(30)
    <3> QED BY <2>2, <2>3, <2>5, <3>1, <3>2, <3>3
  <2> QED BY <2>4, <2>5
<1>20. Holders(x) = Holders(txn)
  BY <1>10 DEF Holders
<1>21. \A u \in Holders(x) : Holds(x, d, u) = Holds(txn, c, u) \cup {l \in {n} : u = t}
  BY <1>1, <1>10, <1>15, <1>17 DEF Holders, Holds
<1>22. \A u \in Holders(txn) : \A l \in Holds(txn, c, u) :
         l \in ToSet(c[txn[u].last]) /\ u \in Active /\ l \in 1..Len(log) /\ log[l].type = "update"
  BY <1>0, <1>14, HoldFacts
<1>23. \A u \in Holders(txn) : \A l \in Holds(txn, c, u) : u # t /\ log[l].page = p => u \in Lineage[t]
  BY <1>0, <1>14, <1>22 DEF LockedByAnother
<1>24. Apart(w, x, d)
  <2> SUFFICES ASSUME NEW u \in Holders(txn), NEW v \in Holders(txn), NEW l \in Holds(x, d, u), NEW m \in Holds(x, d, v),
                      u # v, w[l].page = w[m].page
               PROVE  (u \in Lineage[v] /\ l < m) \/ (v \in Lineage[u] /\ m < l)
    BY <1>20 DEF Apart
  <2>1. CASE l \in Holds(txn, c, u) /\ m \in Holds(txn, c, v)
    <3>1. log[l].page = log[m].page
      BY <1>7, <1>22, <2>1
    <3> QED BY <1>16, <2>1, <3>1 DEF UpFacts, Apart
  <2>2. CASE l = n /\ u = t /\ m \in Holds(txn, c, v)
    <3>1. log[m].page = p /\ m < n
      BY <1>3, <1>7, <1>22, <2>2
    <3> QED BY <1>23, <2>2, <3>1
  <2>3. CASE m = n /\ v = t /\ l \in Holds(txn, c, u)
    <3>1. l \in 1..Len(log)
      BY <1>22, <2>3
    <3>2. log[l].page = p /\ l < n
      BY <1>3, <1>7, <2>3, <3>1
    <3> QED BY <1>23, <2>3, <3>2
  <2> QED BY <1>20, <1>21, <2>1, <2>2, <2>3
<1>25. Above(w, x, d)
  <2> SUFFICES ASSUME NEW u \in Holders(txn), NEW l \in Holds(x, d, u), NEW m \in ComUp(w, Len(w), w[l].page)
               PROVE  m < l
    BY <1>20 DEF Above
  <2>1. \A q : ComUp(w, Len(w), q) = ComUp(log, Len(log), q) /\ ComUp(log, Len(log), q) \subseteq 1..Len(log)
    <3>1. \A q : ComUp(log, Len(log), q) \subseteq 1..Len(log)
      BY DEF ComUp, UpdatesOf
    <3>2. r.type # "regop"
      BY <1>3
    <3> QED BY <1>5, <1>8, <3>1, <3>2, ComUpGrows
  <2>2. CASE l \in Holds(txn, c, u)
    <3>1. w[l] = log[l]
      BY <1>7, <1>22, <2>2
    <3> QED BY <1>16, <2>1, <2>2, <3>1 DEF UpFacts, Above
  <2>3. CASE l = n
    BY <1>7, <2>1, <2>3
  <2> QED BY <1>20, <1>21, <2>2, <2>3
<1>26. CacheRight(w, x, d, cache')
  <2> SUFFICES ASSUME NEW q \in Page
               PROVE  Linear(w, Eff(w, x, d, q)) /\ Below(Eff(w, x, d, q), cache'[q], n + 1)
    BY <1>7 DEF CacheRight
  <2>1. Com(w, Len(w)) = Com(log, Len(log)) /\ t \notin Com(log, Len(log))
    BY <1>3, <1>5, <1>8, ComUpGrows, NotYet, PageFacts DEF Follows
  <2>2. UpdatesOf(w, q) = UpdatesOf(log, q) \cup {l \in {n} : q = p} /\ UpdatesOf(log, q) \subseteq 1..Len(log)
    BY <1>3, <1>5, <1>6, UpdatesOfGrow
  <2>3. t \in Holders(txn)
    BY <1>1 DEF Holders
  <2>4. PICK E : E = Eff(log, txn, c, q)
    OBVIOUS
  <2>5. Eff(w, x, d, q) = E \cup {l \in {n} : q = p}
    <3>1. \A l \in 1..Len(log) : l # n
      BY <1>7
    <3>2. \A l \in UpdatesOf(log, q) : l \in Eff(w, x, d, q) <=> l \in E
      BY <1>7, <1>20, <1>21, <2>1, <2>2, <2>4, <3>1 DEF Eff
    <3>3. q = p => n \in Eff(w, x, d, q)
      BY <1>20, <1>21, <2>2, <2>3 DEF Eff
    <3>4. Eff(w, x, d, q) \subseteq UpdatesOf(w, q) /\ E \subseteq UpdatesOf(log, q)
      BY <2>4 DEF Eff
    <3> QED BY <2>2, <3>2, <3>3, <3>4
  <2>6. E \subseteq 1..Len(log) /\ Linear(log, E) /\ Below(E, cache[q], n)
    BY <1>7, <1>16, <2>2, <2>4 DEF UpFacts, CacheRight, Eff
  <2>7. Linear(w, E)
    BY <1>7, <2>6, LinearSame
  <2>8. CASE q = p
    <3>1. Eff(w, x, d, q) = E \cup {n} /\ cache'[q] = n /\ w[n].before = cache[q]
      BY <1>0, <1>3, <1>6, <1>7, <2>5, <2>8, PageFacts
    <3>2. \A l \in E : w[l].before \in Nat
      BY <1>7, <2>6, <2>7 DEF Linear, Below
    <3>3. Linear(w, E \cup {n})
      <4> SUFFICES ASSUME NEW l \in E \cup {n} PROVE Below(E \cup {n}, w[l].before, l)
        BY DEF Linear
      <4>1. CASE l = n
        BY <1>7, <2>6, <3>1, <4>1 DEF Below
      <4>2. CASE l \in E
        BY <1>7, <2>6, <2>7, <4>2 DEF Linear, Below
      <4> QED BY <4>1, <4>2
    <3>4. Below(E \cup {n}, n, n + 1)
      BY <1>7, <2>6 DEF Below
    <3> QED BY <3>1, <3>3, <3>4
  <2>9. CASE q # p
    <3>1. Eff(w, x, d, q) = E /\ cache'[q] = cache[q]
      BY <1>0, <2>5, <2>9, PageFacts
    <3>2. \A m \in E : m \in Nat /\ m < n
      BY <1>7, <2>6
    <3>3. cache[q] \in Nat
      BY PageFacts
    <3>4. Below(E, cache[q], n + 1)
      <4>1. PICK v \in Nat : v = cache[q]
        BY <3>3
      <4>2. PICK j \in Nat : j = n + 1 /\ n =< j /\ n \in Nat
        BY <1>7
      <4>3. Below(E, v, n)
        BY <2>6, <4>1
      <4>4. Below(E, v, j)
        BY <3>2, <4>2, <4>3, BelowMore
      <4> QED BY <4>1, <4>2, <4>4
    <3> QED BY <2>7, <3>1, <3>4
  <2> QED BY <2>8, <2>9
<1>27. UpFacts(w, x, d, cache')
  BY <1>19, <1>24, <1>25, <1>26 DEF UpFacts
<1>28. Inv'
  BY ChangeKeeps DEF PageInv
<1> QED BY <1>0, <1>4, <1>10, <1>11, <1>12, <1>13, <1>14, <1>27, <1>28, PageFacts, NextPageInv

\* What a child holds becomes its parent's.
LEMMA CommitChildGoesRight == ASSUME PageInv, NEW t \in Txn, CommitChild(t) PROVE PageInv'
<1> DEFINE q == parent[t]
<1>0. /\ mode = "up" /\ t \in Running /\ Kids(t) = {} /\ q # NoTxn /\ txn[t].last # 0
      /\ log' = Append(log, ChildRecord(q, t, txn[t].last, txn[q].last))
      /\ txn' = [Logged(q, Len(log) + 1) EXCEPT ![t] = Ended]
      /\ UNCHANGED <<parent, flushed, cache, disk, ckp, mode, rec, synced, crashes>>
  BY DEF CommitChild, MayAct, Up
<1>1. /\ q \in Txn /\ q # t /\ Lineage[t] = {t} \cup Lineage[q] /\ t \notin Lineage[q] /\ q \in Lineage[q]
      /\ Lineage[q] \subseteq Running /\ txn[t].st = "running" /\ txn[q].st = "running"
  <2>1. /\ q \in Txn /\ q # t /\ Lineage[t] = {t} \cup Lineage[q] /\ t \notin Lineage[q] /\ q \in Lineage[q]
        /\ Lineage[q] \subseteq Txn
    BY <1>0, PageFacts, FamilyFacts, NoCircle
  <2>2. \A a \in Lineage[t] \ {t} : txn[a].st = "running"
    BY <1>0, PageFacts DEF Detail
  <2> QED BY <1>0, <2>1, <2>2 DEF Running
<1>2. PICK r : r = ChildRecord(q, t, txn[t].last, txn[q].last)
  OBVIOUS
<1> HIDE DEF q
<1>3. /\ r \in Rec /\ r.type = "child" /\ r.txn = q /\ r.child = t /\ r.prev = txn[q].last /\ r.clsn = txn[t].last
      /\ LeadsTo(log, r.prev) /\ LeadsTo(log, r.clsn)
  <2>1. txn[q].last \in Nat /\ txn[t].last \in Nat /\ LeadsTo(log, txn[q].last) /\ LeadsTo(log, txn[t].last)
    BY <1>1, PageFacts DEF InLog
  <2> QED BY <1>1, <1>2, <2>1 DEF ChildRecord, Rec
<1>4. PICK w : w = log'
  OBVIOUS
<1>5. Extends(log, w, r)
  BY <1>0, <1>2, <1>3, <1>4, ExtendsLog DEF PageInv
<1>6. PICK n : n = Len(log) + 1
  OBVIOUS
<1>7. /\ n \in Nat /\ Len(log) \in Nat /\ n = Len(log) + 1 /\ Len(w) = n /\ w[n] = r
      /\ \A i \in 1..Len(log) : i \in 1..Len(w) /\ w[i] = log[i]
  BY <1>5, <1>6, ExtendsFacts
<1>8. Follows(log, r)
  <2>1. \A i \in 1..Len(log) : ~IsCommit(log, i, t) /\ ~IsCommit(log, i, q)
    BY <1>1, PageFacts DEF Detail
  <2>2. Starts(r, q) \/ \E m \in 1..Len(log) : Starts(log[m], q)
    <3>1. CASE txn[q].last = 0
      BY <1>3, <3>1 DEF Starts
    <3>2. CASE txn[q].last # 0
      BY <1>1, <3>2, HasStart
    <3> QED BY <3>1, <3>2
  <2>3. \E m \in 1..Len(log) : Starts(log[m], t)
    BY <1>0, HasStart
  <2>4. parent[t] = q
    BY DEF q
  <2> QED BY <1>3, <2>1, <2>2, <2>3, <2>4 DEF Follows
<1>9. PICK y : y = Logged(q, n)
  OBVIOUS
<1>10. y \in [Txn -> TxnDetail] /\ \A u \in Txn : /\ y[u].st = txn[u].st /\ y[u].undo = txn[u].undo
                        /\ y[u].last = IF u = q THEN n ELSE txn[u].last
  BY <1>1, <1>7, <1>9, LoggedFacts DEF PageInv
<1>11. PICK x : x = txn'
  OBVIOUS
<1>12. /\ x[t] = Ended /\ \A u \in Txn : u # t => x[u] = y[u]
       /\ x[t].st = "ended" /\ x[t].last = 0 /\ x[t].begin = 0
  <2>1. x = [y EXCEPT ![t] = Ended]
    BY <1>0, <1>6, <1>9, <1>11
  <2>2. x[t] = Ended /\ \A u \in Txn : u # t => x[u] = y[u]
    BY <1>10, <2>1
  <2> QED BY <2>2 DEF Ended
<1>13. LogFacts(w)
  BY <1>3, <1>5, <1>8, CommittedStays
<1>14. \A u \in Txn : txn[u].last # 0 /\ t \in Lineage[u] => u = t
  BY <1>0, NoKids
<1>15. Details(w, x)
  <2>1. Begun(w, y) /\ \A u \in Txn : ~IsCommit(w, n, u) => Detail(w, y, u)
    BY <1>1, <1>3, <1>5, <1>6, <1>9, LoggedDetails
  <2>2. \A u \in Txn : u # t => ~IsCommit(w, n, u)
    BY <1>3, <1>7 DEF IsCommit
  <2>3. ASSUME NEW u \in Txn, u # t PROVE Detail(w, x, u)
    <3>1. Detail(w, y, u) /\ x[u] = y[u]
      BY <1>12, <2>1, <2>2, <2>3
    <3>2. x[u].last # 0 => t \notin Lineage[u]
      BY <1>1, <1>10, <1>14, <2>3, <3>1
    <3>3. Lineage[u] \subseteq Txn
      BY PageFacts, FamilyFacts
    <3>4. x[u].last # 0 => \A a \in Lineage[u] \ {u} : x[a].st = "running"
      BY <1>12, <3>1, <3>2, <3>3 DEF Detail
    <3> QED BY <3>1, <3>4 DEF Detail
  <2>4. Detail(w, x, t)
    BY <1>12 DEF Detail
  <2>5. Begun(w, x)
    <3> SUFFICES ASSUME NEW i \in 1..Len(w), w[i].type # "ckp"
                 PROVE  x[Top(w[i].txn)].st = "ended" \/ x[Top(w[i].txn)].begin \in 1..i
      BY DEF Begun
    <3>1. w[i].txn \in Txn
      BY <1>5, RecordFacts DEF Extends
    <3>2. PICK a \in Txn : a = Top(w[i].txn)
      BY <3>1, PageFacts, FamilyFacts
    <3>3. y[a].st = "ended" \/ y[a].begin \in 1..i
      BY <2>1, <3>2 DEF Begun
    <3> QED BY <1>12, <3>2, <3>3
  <2> QED BY <2>3, <2>4, <2>5 DEF Details
<1>16. DiskFacts(w, x, ckp, disk)
  <2>1. Top(q) \in Txn /\ txn[Top(q)].st = "running"
    BY <1>1, PageFacts, FamilyFacts DEF Running
  <2>2. \A u \in Txn : Top(u) \in Txn
    BY PageFacts, FamilyFacts
  <2>3. \A u \in Txn : txn[Top(u)].st = "ended" => x[Top(u)].st = "ended"
    BY <1>10, <1>12, <2>2
  <2>4. r.type # "ckp" /\ txn[Top(r.txn)].st # "ended"
    BY <1>3, <2>1
  <2> QED BY <1>5, <1>8, <2>3, <2>4, DiskStays
<1>17. PICK c, d : c = Chain /\ d = Chain'
  OBVIOUS
<1>18. /\ \A u \in Txn : LeadsTo(log, txn[u].last) /\ d[txn[u].last] = c[txn[u].last]
       /\ \A u \in Txn : c[txn[u].last] \in Seq(Updates(log))
       /\ d[n] = c[txn[t].last] \o c[txn[q].last]
  <2>1. \A u \in Txn : LeadsTo(log, txn[u].last)
    BY PageFacts DEF InLog
  <2>2. /\ \A l : LeadsTo(log, l) => d[l] = c[l]
        /\ d[n] = d[txn[t].last] \o d[txn[q].last]
    BY <1>3, <1>4, <1>5, <1>6, <1>17, ChainGrows
  <2>3. \A u \in Txn : c[txn[u].last] \in Seq(Updates(log))
    BY <1>17, <2>1, PageFacts, ChainFacts
  <2> QED BY <1>1, <2>1, <2>2, <2>3
<1>19. UpFacts(log, txn, c, cache)
  BY <1>0, <1>17 DEF PageInv
<1>20. Updates(log) \subseteq 1..Len(log)
  BY DEF Updates
<1>21. PICK a, b : a = c[txn[t].last] /\ b = c[txn[q].last]
  OBVIOUS
<1>22. /\ a \in Seq(1..Len(log)) /\ b \in Seq(1..Len(log)) /\ d[n] = a \o b
       /\ ToSet(d[n]) = ToSet(a) \cup ToSet(b)
  <2>1. PICK S : S = 1..Len(log)
    OBVIOUS
  <2>2. a \in Seq(S) /\ b \in Seq(S)
    BY <1>1, <1>18, <1>20, <1>21, <2>1
  <2>3. ToSet(a \o b) = ToSet(a) \cup ToSet(b)
    BY <2>2, ToSetConcat
  <2> QED BY <1>18, <1>21, <2>1, <2>2, <2>3
<1>23. /\ ToSet(a) = Own(log, t) /\ ToSet(b) = Own(log, q) /\ Descending(log, a) /\ Descending(log, b)
       /\ ToSet(a) = Holds(txn, c, t) /\ ToSet(b) = Holds(txn, c, q) /\ t \in Holders(txn) /\ q \in Holders(txn)
  BY <1>1, <1>19, <1>21 DEF UpFacts, Chains, Holds, Holders
<1>24. \A l \in ToSet(a), m \in ToSet(b) : log[l].page = log[m].page => m < l
  <2>1. \A l \in Holds(txn, c, t), m \in Holds(txn, c, q) : log[l].page = log[m].page =>
           (t \in Lineage[q] /\ l < m) \/ (q \in Lineage[t] /\ m < l)
    BY <1>1, <1>19, <1>23 DEF UpFacts, Apart
  <2> QED BY <1>1, <1>23, <2>1
<1>25. \A u \in Txn : /\ q \in Under(log, Len(log), {u}) <=> q = u
                      /\ t \in Under(log, Len(log), {u}) <=> t = u
  <2>1. \A i \in 1..Len(log) : ~IsCommit(log, i, t) /\ ~IsCommit(log, i, q)
    BY <1>3, <1>8 DEF Follows
  <2> QED BY <1>1, <2>1, PageFacts, UnderOf
<1>26. ASSUME NEW u \in Txn, u # q PROVE Own(w, u) = Own(log, u)
  <2>1. r.txn \notin Under(log, Len(log), {u}) /\ r.type # "update"
    BY <1>3, <1>25, <1>26
  <2>2. Own(w, u) = Own(log, u) \cup {l \in {Len(log) + 1} : r.type = "update" /\ r.txn \in Under(log, Len(log), {u})}
    BY <1>5, <2>1, OwnGrows
  <2> QED BY <2>1, <2>2
<1>27. Own(w, q) = Own(log, q) \cup Own(log, t)
  <2>1. PICK X : X = {q}
    OBVIOUS
  <2>2. X \subseteq Txn /\ r.txn \in Under(log, Len(log), X)
    BY <1>1, <1>3, <1>25, <2>1
  <2>3. Under(w, Len(w), X) = Under(log, Len(log), X) \cup Under(log, Len(log), {r.child})
    BY <1>3, <1>5, <2>2, UnderMerges
  <2>4. PICK U, T : U = Under(log, Len(log), X) /\ T = Under(log, Len(log), {t})
    OBVIOUS
  <2>5. Under(w, Len(w), X) = U \cup T
    BY <1>3, <2>3, <2>4
  <2>6. Updates(w) = Updates(log)
    <3>1. Updates(w) = Updates(log) \cup {l \in {Len(log) + 1} : r.type = "update"}
      BY <1>5, UpdatesOfGrow
    <3>2. r.type # "update"
      BY <1>3
    <3> QED BY <3>1, <3>2
  <2>7. /\ Own(w, q) = {l \in Updates(w) : w[l].txn \in U \cup T}
        /\ Own(log, q) = {l \in Updates(log) : log[l].txn \in U}
        /\ Own(log, t) = {l \in Updates(log) : log[l].txn \in T}
    BY <2>1, <2>4, <2>5 DEF Own
  <2> QED BY <1>7, <1>20, <2>6, <2>7
<1>28. \A v \in Seq(1..Len(log)) : Descending(log, v) => Descending(w, v)
  BY <1>7 DEF Descending
<1>29. Chains(w, x, d)
  <2> SUFFICES ASSUME NEW u \in Txn
               PROVE  /\ x[u].st # "ended" => ToSet(d[x[u].last]) = Own(w, u)
                      /\ x[u].st = "running" => Descending(w, d[x[u].last])
                      /\ x[u].st = "aborting" =>
                            ToSet(x[u].undo) \subseteq ToSet(d[x[u].last]) /\ Descending(w, x[u].undo)
    BY DEF Chains
  <2>1. CASE u = t
    BY <1>12, <2>1
  <2>2. CASE u = q
    <3>1. x[u].st = "running" /\ x[u].last = n
      BY <1>1, <1>10, <1>12, <2>2
    <3>2. ToSet(d[n]) = Own(w, u)
      BY <1>22, <1>23, <1>27, <2>2
    <3>3. Descending(w, d[n])
      <4> SUFFICES ASSUME NEW i \in 1..Len(d[n]), NEW j \in 1..Len(d[n]), i < j,
                          w[d[n][i]].page = w[d[n][j]].page
                   PROVE  d[n][j] < d[n][i]
        BY DEF Descending
      <4>1. /\ Len(a) \in Nat /\ Len(b) \in Nat /\ Len(d[n]) = Len(a) + Len(b)
            /\ \A k \in 1..Len(d[n]) : d[n][k] = IF k =< Len(a) THEN a[k] ELSE b[k - Len(a)]
        BY <1>22
      <4>2. /\ \A k \in 1..Len(a) : a[k] \in 1..Len(log) /\ a[k] \in ToSet(a)
            /\ \A k \in 1..Len(b) : b[k] \in 1..Len(log) /\ b[k] \in ToSet(b)
        <5>1. a \in Seq(1..Len(log)) /\ b \in Seq(1..Len(log))
          BY <1>22
        <5>2. DOMAIN a = 1..Len(a) /\ DOMAIN b = 1..Len(b)
          BY <5>1
        <5>3. \A k \in 1..Len(a) : a[k] \in 1..Len(log)
          BY <5>1
        <5>4. \A k \in 1..Len(b) : b[k] \in 1..Len(log)
          BY <5>1
        <5> QED BY <5>2, <5>3, <5>4 DEF ToSet
      <4>3. CASE j =< Len(a)
        <5>1. i \in 1..Len(a) /\ j \in 1..Len(a) /\ d[n][i] = a[i] /\ d[n][j] = a[j]
          BY <4>1, <4>3
        <5>2. log[a[i]].page = log[a[j]].page
          BY <1>7, <4>2, <5>1
        <5> QED BY <1>23, <5>1, <5>2 DEF Descending
      <4>4. CASE i > Len(a)
        <5>1. /\ i - Len(a) \in 1..Len(b) /\ j - Len(a) \in 1..Len(b) /\ i - Len(a) < j - Len(a)
              /\ d[n][i] = b[i - Len(a)] /\ d[n][j] = b[j - Len(a)]
          BY <4>1, <4>4
        <5>2. PICK k \in 1..Len(b), m \in 1..Len(b) : k < m /\ d[n][i] = b[k] /\ d[n][j] = b[m]
          BY <5>1
        <5>3. log[b[k]].page = log[b[m]].page
          BY <1>7, <4>2, <5>2
        <5> QED BY <1>23, <5>2, <5>3 DEF Descending
      <4>5. CASE i =< Len(a) /\ j > Len(a)
        <5>1. /\ i \in 1..Len(a) /\ d[n][i] = a[i]
              /\ j - Len(a) \in 1..Len(b) /\ d[n][j] = b[j - Len(a)]
          BY <4>1, <4>5
        <5>2. PICK l, m : l = d[n][i] /\ m = d[n][j]
          OBVIOUS
        <5>3. l \in ToSet(a) /\ m \in ToSet(b) /\ l \in 1..Len(log) /\ m \in 1..Len(log)
          BY <4>2, <5>1, <5>2
        <5>4. log[l].page = log[m].page
          BY <1>7, <5>2, <5>3
        <5> QED BY <1>24, <5>2, <5>3, <5>4
      <4> QED BY <4>1, <4>3, <4>4, <4>5
    <3> QED BY <3>1, <3>2, <3>3
  <2>3. CASE u # q /\ u # t
    <3>1. x[u].st = txn[u].st /\ x[u].undo = txn[u].undo /\ x[u].last = txn[u].last
      BY <1>10, <1>12, <2>3
    <3>2. d[x[u].last] = c[txn[u].last] /\ c[txn[u].last] \in Seq(1..Len(log))
      BY <1>18, <1>20, <3>1
    <3>3. txn[u].undo \in Seq(1..Len(log))
      <4>1. txn[u].undo \in Seq(Nat) /\ \A i \in 1..Len(txn[u].undo) : txn[u].undo[i] \in Updates(log)
        BY PageFacts DEF InLog
      <4> QED BY <1>20, <4>1
    <3>4. /\ txn[u].st # "ended" => ToSet(c[txn[u].last]) = Own(log, u)
          /\ txn[u].st = "running" => Descending(log, c[txn[u].last])
          /\ txn[u].st = "aborting" =>
                ToSet(txn[u].undo) \subseteq ToSet(c[txn[u].last]) /\ Descending(log, txn[u].undo)
      BY <1>19 DEF UpFacts, Chains
    <3> QED BY <1>26, <1>28, <2>3, <3>1, <3>2, <3>3, <3>4
  <2> QED BY <2>1, <2>2, <2>3
<1>30. Holders(x) = Holders(txn) \ {t}
  BY <1>10, <1>12 DEF Holders
<1>31. /\ \A u \in Holders(x) : u # q => Holds(x, d, u) = Holds(txn, c, u)
       /\ Holds(x, d, q) = Holds(txn, c, q) \cup Holds(txn, c, t)
  <2>1. \A u \in Holders(x) : u # q => Holds(x, d, u) = Holds(txn, c, u)
    BY <1>10, <1>12, <1>18, <1>30 DEF Holders, Holds
  <2>2. Holds(x, d, q) = ToSet(d[n])
    BY <1>1, <1>10, <1>12 DEF Holds
  <2> QED BY <1>22, <1>23, <2>1, <2>2
<1>32. \A u \in Holders(txn) : \A l \in Holds(txn, c, u) : l \in 1..Len(log) /\ txn[u].last # 0 /\ u \in Txn /\ w[l] = log[l]
  BY <1>0, <1>7, <1>17, HoldFacts
<1>33. Apart(w, x, d)
  <2>1. ASSUME NEW u \in Holders(txn) \ {t, q}, NEW l \in Holds(txn, c, t), NEW m \in Holds(txn, c, u),
               log[l].page = log[m].page
        PROVE  u \in Lineage[q] /\ m < l
    <3>1. (t \in Lineage[u] /\ l < m) \/ (u \in Lineage[t] /\ m < l)
      BY <1>19, <1>23, <2>1 DEF UpFacts, Apart
    <3>2. t \notin Lineage[u]
      BY <1>14, <1>32, <2>1
    <3> QED BY <1>1, <2>1, <3>1, <3>2
  <2> SUFFICES ASSUME NEW u \in Holders(x), NEW v \in Holders(x), NEW l \in Holds(x, d, u), NEW m \in Holds(x, d, v),
                      u # v, w[l].page = w[m].page
               PROVE  (u \in Lineage[v] /\ l < m) \/ (v \in Lineage[u] /\ m < l)
    BY DEF Apart
  <2>2. u \in Holders(txn) \ {t} /\ v \in Holders(txn) \ {t}
    BY <1>30
  <2>3. CASE l \in Holds(txn, c, u) /\ m \in Holds(txn, c, v)
    <3>1. log[l].page = log[m].page
      BY <1>32, <2>2, <2>3
    <3> QED BY <1>19, <2>2, <2>3, <3>1 DEF UpFacts, Apart
  <2>4. CASE u = q /\ l \in Holds(txn, c, t) /\ m \in Holds(txn, c, v)
    <3>1. log[l].page = log[m].page
      BY <1>23, <1>32, <2>2, <2>4
    <3> QED BY <2>1, <2>2, <2>4, <3>1
  <2>5. CASE v = q /\ m \in Holds(txn, c, t) /\ l \in Holds(txn, c, u)
    <3>1. log[l].page = log[m].page
      BY <1>23, <1>32, <2>2, <2>5
    <3> QED BY <2>1, <2>2, <2>5, <3>1
  <2> QED BY <1>31, <2>3, <2>4, <2>5
<1>34. Above(w, x, d)
  <2> SUFFICES ASSUME NEW u \in Holders(x), NEW l \in Holds(x, d, u), NEW m \in ComUp(w, Len(w), w[l].page)
               PROVE  m < l
    BY DEF Above
  <2>1. \E v \in Holders(txn) : l \in Holds(txn, c, v)
    BY <1>23, <1>30, <1>31
  <2>2. w[l] = log[l]
    BY <1>32, <2>1
  <2>3. ComUp(w, Len(w), log[l].page) = ComUp(log, Len(log), log[l].page)
    <3>1. PICK g : g = log[l].page
      OBVIOUS
    <3>2. r.type # "regop"
      BY <1>3
    <3> QED BY <1>5, <1>8, <3>1, <3>2, ComUpGrows
  <2> QED BY <1>19, <2>1, <2>2, <2>3 DEF UpFacts, Above
<1>35. CacheRight(w, x, d, cache)
  <2> SUFFICES ASSUME NEW g \in Page
               PROVE  Linear(w, Eff(w, x, d, g)) /\ Below(Eff(w, x, d, g), cache[g], n + 1)
    BY <1>7 DEF CacheRight
  <2>1. Com(w, Len(w)) = Com(log, Len(log))
    <3>1. r.type # "regop"
      BY <1>3
    <3> QED BY <1>5, <1>8, <3>1, ComUpGrows
  <2>2. UpdatesOf(w, g) = UpdatesOf(log, g) /\ UpdatesOf(log, g) \subseteq 1..Len(log)
    <3>1. /\ UpdatesOf(w, g) = UpdatesOf(log, g) \cup {l \in {Len(log) + 1} : r.type = "update" /\ r.page = g}
          /\ UpdatesOf(log, g) \subseteq 1..Len(log)
      BY <1>5, UpdatesOfGrow
    <3>2. r.type # "update"
      BY <1>3
    <3> QED BY <3>1, <3>2
  <2>3. PICK E : E = Eff(log, txn, c, g)
    OBVIOUS
  <2>4. \A l : (\E u \in Holders(x) : l \in Holds(x, d, u)) <=> (\E u \in Holders(txn) : l \in Holds(txn, c, u))
    <3>1. q \in Holders(x)
      BY <1>1, <1>23, <1>30
    <3> QED BY <1>23, <1>30, <1>31, <3>1
  <2>5. Eff(w, x, d, g) = E
    BY <1>7, <2>1, <2>2, <2>3, <2>4 DEF Eff
  <2>6. E \subseteq 1..Len(log) /\ Linear(log, E) /\ Below(E, cache[g], n)
    BY <1>7, <1>19, <2>2, <2>3 DEF UpFacts, CacheRight, Eff
  <2>7. Linear(w, E)
    BY <1>7, <2>6, LinearSame
  <2>8. Below(E, cache[g], n + 1)
    <3>1. PICK v \in Nat : v = cache[g]
      BY PageFacts
    <3>2. PICK j \in Nat : j = n + 1 /\ n =< j /\ n \in Nat
      BY <1>7
    <3>3. \A m \in E : m \in Nat /\ m < n
      BY <1>7, <2>6
    <3>4. Below(E, v, n)
      BY <2>6, <3>1
    <3>5. Below(E, v, j)
      BY <3>2, <3>3, <3>4, BelowMore
    <3> QED BY <3>1, <3>2, <3>5
  <2> QED BY <2>5, <2>7, <2>8
<1>36. UpFacts(w, x, d, cache)
  BY <1>29, <1>33, <1>34, <1>35 DEF UpFacts
<1>37. Inv'
  BY CommitChildKeeps DEF PageInv
<1> QED BY <1>0, <1>4, <1>11, <1>13, <1>15, <1>16, <1>17, <1>36, <1>37, PageFacts, NextPageInv

\* A record that is no update leaves the updates of a page.
LEMMA UpdatesOfStay ==
  ASSUME NEW s, NEW w, NEW r, Extends(s, w, r), r.type # "update", NEW p
  PROVE  UpdatesOf(w, p) = UpdatesOf(s, p) /\ UpdatesOf(s, p) \subseteq 1..Len(s) /\ Updates(w) = Updates(s)
<1>1. /\ UpdatesOf(w, p) = UpdatesOf(s, p) \cup {l \in {Len(s) + 1} : r.type = "update" /\ r.page = p}
      /\ UpdatesOf(s, p) \subseteq 1..Len(s)
      /\ Updates(w) = Updates(s) \cup {l \in {Len(s) + 1} : r.type = "update"}
  BY UpdatesOfGrow
<1> QED BY <1>1

\* Nor does it touch what a page shows.
LEMMA BelowGrows ==
  ASSUME NEW n \in Nat, NEW E, E \subseteq 1..n, NEW v \in Nat, Below(E, v, n + 1)
  PROVE  Below(E, v, n + 2)
<1>1. PICK k \in Nat, j \in Nat : k = n + 1 /\ j = n + 2 /\ k =< j
  OBVIOUS
<1>2. Below(E, v, k)
  BY <1>1
<1>3. \A m \in E : m \in Nat /\ m < k
  BY <1>1
<1>4. Below(E, v, j)
  BY <1>1, <1>2, <1>3, BelowMore
<1> QED BY <1>1, <1>4

\* What a top-level transaction holds is committed, and was the greatest.
LEMMA CommitTopGoesRight == ASSUME PageInv, NEW t \in Txn, NEW sync \in BOOLEAN, CommitTop(t, sync) PROVE PageInv'
<1>0. /\ mode = "up" /\ t \in Running /\ Kids(t) = {} /\ parent[t] = NoTxn /\ txn[t].last # 0
      /\ log' = Append(log, Regop(t, txn[t].last))
      /\ txn' = [Logged(t, Len(log) + 1) EXCEPT ![t].st = "committing"]
      /\ UNCHANGED <<parent, cache, disk, ckp, mode, rec, crashes>>
  BY DEF CommitTop, MayAct, Up
<1>1. txn[t].st = "running" /\ Lineage[t] = {t} /\ Top(t) = t /\ Lineage[t] \subseteq Running
  BY <1>0, PageFacts, FamilyFacts DEF Running
<1>2. PICK r : r = Regop(t, txn[t].last)
  OBVIOUS
<1>3. r \in Rec /\ r.type = "regop" /\ r.txn = t /\ r.prev = txn[t].last /\ LeadsTo(log, r.prev)
  <2>1. txn[t].last \in Nat /\ LeadsTo(log, txn[t].last)
    BY PageFacts DEF InLog
  <2> QED BY <1>2, <2>1 DEF Regop, Rec
<1>4. PICK w : w = log'
  OBVIOUS
<1>5. Extends(log, w, r)
  BY <1>0, <1>2, <1>3, <1>4, ExtendsLog DEF PageInv
<1>6. PICK n : n = Len(log) + 1
  OBVIOUS
<1>7. /\ n \in Nat /\ Len(log) \in Nat /\ n = Len(log) + 1 /\ Len(w) = n /\ w[n] = r
      /\ \A i \in 1..Len(log) : i \in 1..Len(w) /\ w[i] = log[i]
  BY <1>5, <1>6, ExtendsFacts
<1>8. Follows(log, r)
  <2>1. \A i \in 1..Len(log) : ~IsCommit(log, i, t)
    BY <1>1, PageFacts DEF Detail
  <2>2. \E m \in 1..Len(log) : Starts(log[m], t)
    BY <1>0, HasStart
  <2> QED BY <1>0, <1>3, <2>1, <2>2 DEF Follows
<1>9. PICK y : y = Logged(t, n)
  OBVIOUS
<1>10. y \in [Txn -> TxnDetail] /\ \A u \in Txn : /\ y[u].st = txn[u].st /\ y[u].undo = txn[u].undo
                        /\ y[u].last = IF u = t THEN n ELSE txn[u].last
  BY <1>7, <1>9, LoggedFacts DEF PageInv
<1>11. PICK x : x = txn'
  OBVIOUS
<1>12. /\ \A u \in Txn : u # t => x[u] = y[u]
       /\ x[t].st = "committing" /\ x[t].last = n /\ x[t].begin = y[t].begin
  <2>1. x = [y EXCEPT ![t].st = "committing"]
    BY <1>0, <1>6, <1>9, <1>11
  <2>2. y[t] \in TxnDetail
    BY <1>10
  <2> QED BY <1>10, <2>1, <2>2 DEF TxnDetail
<1>13. \A u \in Txn : txn[u].last # 0 /\ t \in Lineage[u] => u = t
  BY <1>0, NoKids
<1>14. PICK c, d : c = Chain /\ d = Chain'
  OBVIOUS
<1>15. UpFacts(log, txn, c, cache)
  BY <1>0, <1>14 DEF PageInv
<1>16. \A u \in Holders(txn) : \A l \in Holds(txn, c, u) :
         l \in 1..Len(log) /\ txn[u].last # 0 /\ u \in Txn /\ w[l] = log[l] /\ l \in Own(log, u)
  BY <1>0, <1>7, <1>14, HoldFacts
<1>17. t \in Holders(txn) /\ Holds(txn, c, t) = Own(log, t)
  BY <1>1, <1>15 DEF UpFacts, Chains, Holds, Holders
<1>18. \A u \in Holders(txn) : \A l \in Holds(txn, c, t), m \in Holds(txn, c, u) : u # t => log[l].page # log[m].page
  <2>1. \A u \in Holders(txn) : \A l \in Holds(txn, c, t), m \in Holds(txn, c, u) :
          t # u /\ log[l].page = log[m].page => t \in Lineage[u] \/ u \in Lineage[t]
    BY <1>15, <1>17 DEF UpFacts, Apart
  <2> QED BY <1>1, <1>13, <1>16, <2>1
<1>19. PICK T : T = Under(log, Len(log), {t})
  OBVIOUS
<1>20. Com(w, Len(w)) = Com(log, Len(log)) \cup T
  BY <1>3, <1>5, <1>19, ComGrows
<1>21. Own(log, t) = {l \in Updates(log) : log[l].txn \in T}
  BY <1>19 DEF Own
<1>22. \A p : UpdatesOf(w, p) = UpdatesOf(log, p) /\ UpdatesOf(log, p) \subseteq 1..Len(log) /\ Updates(w) = Updates(log)
  <2>1. r.type # "update"
    BY <1>3
  <2> QED BY <1>5, <2>1, UpdatesOfStay
<1>23. \A p : ComUp(w, Len(w), p) = ComUp(log, Len(log), p) \cup {l \in Own(log, t) : log[l].page = p}
  <2> SUFFICES ASSUME NEW p, NEW l
               PROVE  l \in ComUp(w, Len(w), p) <=> l \in ComUp(log, Len(log), p) \/ (l \in Own(log, t) /\ log[l].page = p)
    OBVIOUS
  <2>1. l \in ComUp(w, Len(w), p) <=> l \in UpdatesOf(log, p) /\ log[l].txn \in Com(log, Len(log)) \cup T
    BY <1>7, <1>20, <1>22 DEF ComUp
  <2>2. l \in ComUp(log, Len(log), p) <=> l \in UpdatesOf(log, p) /\ log[l].txn \in Com(log, Len(log))
    BY <1>7, <1>22 DEF ComUp
  <2>3. l \in Own(log, t) /\ log[l].page = p <=> l \in UpdatesOf(log, p) /\ log[l].txn \in T
    BY <1>21 DEF Updates, UpdatesOf
  <2> QED BY <2>1, <2>2, <2>3
<1>24. LogFacts(w)
  <2>1. ASSUME NEW p \in Page PROVE Linear(w, ComUp(w, Len(w), p))
    <3>1. Linear(log, ComUp(w, Len(w), p))
      <4>1. CASE \E l \in Own(log, t) : log[l].page = p
        <5>1. PICK k \in Own(log, t) : log[k].page = p
          BY <4>1
        <5>2. ASSUME NEW l \in Eff(log, txn, c, p) PROVE l \in ComUp(w, Len(w), p)
          <6>1. l \in UpdatesOf(log, p) /\ log[l].page = p
            BY <5>2 DEF Eff, UpdatesOf
          <6>2. CASE log[l].txn \in Com(log, Len(log))
            BY <1>7, <1>20, <1>22, <6>1, <6>2 DEF ComUp
          <6>3. CASE \E u \in Holders(txn) : l \in Holds(txn, c, u)
            BY <1>17, <1>18, <1>23, <5>1, <6>1, <6>3
          <6> QED BY <5>2, <6>2, <6>3 DEF Eff
        <5>3. ASSUME NEW l \in ComUp(w, Len(w), p) PROVE l \in Eff(log, txn, c, p)
          BY <1>17, <1>22, <1>23, <5>3 DEF ComUp, Eff
        <5>4. ComUp(w, Len(w), p) = Eff(log, txn, c, p)
          BY <5>2, <5>3
        <5> QED BY <1>15, <5>4 DEF UpFacts, CacheRight
      <4>2. CASE ~\E l \in Own(log, t) : log[l].page = p
        <5>1. ComUp(w, Len(w), p) = ComUp(log, Len(log), p)
          BY <1>23, <4>2
        <5> QED BY <5>1, PageFacts DEF CommittedLinear
      <4> QED BY <4>1, <4>2
    <3>2. ComUp(w, Len(w), p) \subseteq 1..Len(log) /\ \A i \in 1..Len(log) : w[i] = log[i]
      BY <1>7, <1>22 DEF ComUp
    <3> QED BY <3>1, <3>2, LinearSame
  <2> QED BY <1>5, <1>8, <2>1, LogFactsGrow DEF PageInv
<1>25. Details(w, x)
  <2>1. Begun(w, y) /\ \A u \in Txn : ~IsCommit(w, n, u) => Detail(w, y, u)
    BY <1>1, <1>3, <1>5, <1>6, <1>9, LoggedDetails
  <2>2. \A u \in Txn : u # t => ~IsCommit(w, n, u)
    BY <1>3, <1>7 DEF IsCommit
  <2>3. ASSUME NEW u \in Txn, u # t PROVE Detail(w, x, u)
    <3>1. Detail(w, y, u) /\ x[u] = y[u]
      BY <1>12, <2>1, <2>2, <2>3
    <3>2. x[u].last # 0 => t \notin Lineage[u]
      BY <1>10, <1>13, <2>3, <3>1
    <3>3. Lineage[u] \subseteq Txn
      BY PageFacts, FamilyFacts
    <3>4. x[u].last # 0 => \A a \in Lineage[u] \ {u} : x[a].st = "running"
      BY <1>12, <3>1, <3>2, <3>3 DEF Detail
    <3> QED BY <3>1, <3>4 DEF Detail
  <2>4. Detail(w, x, t)
    <3>1. t \in Regops(w, Len(w))
      BY <1>3, <1>7 DEF Regops
    <3>2. n # 0
      BY <1>7
    <3> QED BY <1>1, <1>3, <1>7, <1>12, <3>1, <3>2 DEF Detail
  <2>5. Begun(w, x)
    <3> SUFFICES ASSUME NEW i \in 1..Len(w), w[i].type # "ckp"
                 PROVE  x[Top(w[i].txn)].st = "ended" \/ x[Top(w[i].txn)].begin \in 1..i
      BY DEF Begun
    <3>1. w[i].txn \in Txn
      BY <1>5, RecordFacts DEF Extends
    <3>2. PICK a \in Txn : a = Top(w[i].txn)
      BY <3>1, PageFacts, FamilyFacts
    <3>3. y[a].st = "ended" \/ y[a].begin \in 1..i
      BY <2>1, <3>2 DEF Begun
    <3>4. y[t].st # "ended"
      BY <1>1, <1>10
    <3> QED BY <1>12, <3>2, <3>3, <3>4
  <2> QED BY <2>3, <2>4, <2>5 DEF Details
<1>26. DiskFacts(w, x, ckp, disk)
  <2>1. \A u \in Txn : Top(u) \in Txn
    BY PageFacts, FamilyFacts
  <2>2. \A u \in Txn : txn[Top(u)].st = "ended" => x[Top(u)].st = "ended"
    BY <1>1, <1>10, <1>12, <2>1
  <2>3. r.type # "ckp" /\ txn[Top(r.txn)].st # "ended"
    BY <1>1, <1>3
  <2> QED BY <1>5, <1>8, <2>2, <2>3, DiskStays
<1>27. Updates(log) \subseteq 1..Len(log)
  BY DEF Updates
<1>28. /\ \A u \in Txn : LeadsTo(log, txn[u].last) /\ d[txn[u].last] = c[txn[u].last]
       /\ \A u \in Txn : c[txn[u].last] \in Seq(1..Len(log))
       /\ d[n] = c[txn[t].last]
  <2>1. \A u \in Txn : LeadsTo(log, txn[u].last)
    BY PageFacts DEF InLog
  <2>2. /\ \A l : LeadsTo(log, l) => d[l] = c[l]
        /\ d[n] = <<>> \o d[txn[t].last]
    BY <1>3, <1>4, <1>5, <1>6, <1>14, ChainGrows
  <2>3. \A u \in Txn : c[txn[u].last] \in Seq(Updates(log))
    BY <1>14, <2>1, PageFacts, ChainFacts
  <2>4. \A u \in Txn : c[txn[u].last] \in Seq(1..Len(log))
    BY <1>27, <2>3
  <2>5. <<>> \o c[txn[t].last] = c[txn[t].last]
    BY <2>4
  <2> QED BY <2>1, <2>2, <2>4, <2>5
<1>29. \A v \in Seq(1..Len(log)) : Descending(log, v) => Descending(w, v)
  BY <1>7, DescendingSame
<1>30. \A u \in Txn : Own(w, u) = Own(log, u)
  <2>1. r.type # "child" /\ r.type # "update"
    BY <1>3
  <2> QED BY <1>5, <2>1, OwnStays
<1>31. Chains(w, x, d)
  <2> SUFFICES ASSUME NEW u \in Txn
               PROVE  /\ x[u].st # "ended" => ToSet(d[x[u].last]) = Own(w, u)
                      /\ x[u].st = "running" => Descending(w, d[x[u].last])
                      /\ x[u].st = "aborting" =>
                            ToSet(x[u].undo) \subseteq ToSet(d[x[u].last]) /\ Descending(w, x[u].undo)
    BY DEF Chains
  <2>0. /\ txn[u].st # "ended" => ToSet(c[txn[u].last]) = Own(log, u)
        /\ txn[u].st = "running" => Descending(log, c[txn[u].last])
        /\ txn[u].st = "aborting" =>
              ToSet(txn[u].undo) \subseteq ToSet(c[txn[u].last]) /\ Descending(log, txn[u].undo)
    BY <1>15 DEF UpFacts, Chains
  <2>1. CASE u = t
    BY <1>1, <1>12, <1>28, <1>30, <2>0, <2>1
  <2>2. CASE u # t
    <3>1. x[u].st = txn[u].st /\ x[u].undo = txn[u].undo /\ x[u].last = txn[u].last
      BY <1>10, <1>12, <2>2
    <3>2. txn[u].undo \in Seq(1..Len(log))
      <4>1. txn[u].undo \in Seq(Nat) /\ \A i \in 1..Len(txn[u].undo) : txn[u].undo[i] \in Updates(log)
        BY PageFacts DEF InLog
      <4> QED BY <1>27, <4>1
    <3> QED BY <1>28, <1>29, <1>30, <2>0, <2>2, <3>1, <3>2
  <2> QED BY <2>1, <2>2
<1>32. Holders(x) = Holders(txn) \ {t}
  BY <1>10, <1>12 DEF Holders
<1>33. \A u \in Holders(x) : Holds(x, d, u) = Holds(txn, c, u)
  BY <1>10, <1>12, <1>28, <1>32 DEF Holders, Holds
<1>34. Apart(w, x, d)
  <2> SUFFICES ASSUME NEW u \in Holders(x), NEW v \in Holders(x), NEW l \in Holds(txn, c, u), NEW m \in Holds(txn, c, v),
                      u # v, w[l].page = w[m].page
               PROVE  (u \in Lineage[v] /\ l < m) \/ (v \in Lineage[u] /\ m < l)
    BY <1>33 DEF Apart
  <2>1. u \in Holders(txn) /\ v \in Holders(txn)
    BY <1>32
  <2>2. log[l].page = log[m].page
    BY <1>16, <2>1
  <2> QED BY <1>15, <2>1, <2>2 DEF UpFacts, Apart
<1>35. Above(w, x, d)
  <2> SUFFICES ASSUME NEW u \in Holders(x), NEW l \in Holds(txn, c, u), NEW m \in ComUp(w, Len(w), w[l].page)
               PROVE  m < l
    BY <1>33 DEF Above
  <2>1. u \in Holders(txn) /\ u # t
    BY <1>32
  <2>2. w[l] = log[l]
    BY <1>16, <2>1
  <2>3. m \in ComUp(log, Len(log), log[l].page)
    BY <1>17, <1>18, <1>23, <2>1, <2>2
  <2> QED BY <1>15, <2>1, <2>3 DEF UpFacts, Above
<1>36. CacheRight(w, x, d, cache)
  <2> SUFFICES ASSUME NEW p \in Page
               PROVE  Linear(w, Eff(w, x, d, p)) /\ Below(Eff(w, x, d, p), cache[p], Len(w) + 1)
    BY DEF CacheRight
  <2>1. ASSUME NEW l \in UpdatesOf(log, p)
        PROVE  l \in Eff(w, x, d, p) <=> l \in Eff(log, txn, c, p)
    <3>1. l \in 1..Len(log) /\ w[l] = log[l] /\ l \in Updates(log)
      BY <1>7, <1>22, <2>1 DEF UpdatesOf, Updates
    <3>2. l \in Eff(w, x, d, p) <=> \/ log[l].txn \in Com(log, Len(log)) \cup T
                                    \/ \E u \in Holders(txn) \ {t} : l \in Holds(txn, c, u)
      BY <1>20, <1>22, <1>32, <1>33, <2>1, <3>1 DEF Eff
    <3>3. log[l].txn \in T <=> l \in Holds(txn, c, t)
      BY <1>17, <1>21, <3>1
    <3>4. l \in Eff(log, txn, c, p) <=> \/ log[l].txn \in Com(log, Len(log))
                                        \/ \E u \in Holders(txn) : l \in Holds(txn, c, u)
      BY <2>1 DEF Eff
    <3> QED BY <1>17, <3>2, <3>3, <3>4
  <2>2. PICK E : E = Eff(log, txn, c, p)
    OBVIOUS
  <2>3. E \subseteq UpdatesOf(log, p) /\ Eff(w, x, d, p) \subseteq UpdatesOf(log, p)
    BY <1>22, <2>2 DEF Eff
  <2>4. Eff(w, x, d, p) = E
    BY <2>1, <2>2, <2>3
  <2>5. E \subseteq 1..Len(log) /\ Linear(log, E) /\ Below(E, cache[p], Len(log) + 1)
    BY <1>15, <1>22, <2>2, <2>3 DEF UpFacts, CacheRight
  <2>6. Linear(w, E)
    BY <1>7, <2>5, LinearSame
  <2>7. Below(E, cache[p], Len(log) + 2)
    BY <1>7, <2>5, PageFacts, BelowGrows
  <2>8. Len(w) + 1 = Len(log) + 2
    BY <1>7
  <2> QED BY <2>4, <2>6, <2>7, <2>8
<1>37. UpFacts(w, x, d, cache)
  BY <1>31, <1>34, <1>35, <1>36 DEF UpFacts
<1>38. Inv'
  BY CommitTopKeeps DEF PageInv
<1> QED BY <1>0, <1>4, <1>11, <1>14, <1>24, <1>25, <1>26, <1>37, <1>38, PageFacts, NextPageInv

\* Everything dirty is on disk: the checkpoint settles what it spares.
\* A checkpoint record tells of no transaction.
LEMMA CheckpointRest ==
  ASSUME PageInv, NEW w, NEW r, Extends(log, w, r), r.type = "ckp"
  PROVE  Details(w, txn) /\ SettledDone(w)
<1>1. PICK n \in Nat :
        /\ Len(log) \in Nat /\ n = Len(log) + 1 /\ Len(w) = n /\ w[n] = r
        /\ \A i \in 1..Len(log) : i \in 1..Len(w) /\ w[i] = log[i]
        /\ \A i \in 1..Len(w) : i \in 1..Len(log) \/ i = n
  BY ExtendsFacts
<1>2. Details(w, txn)
  <2>1. ASSUME NEW u \in Txn PROVE Detail(w, txn, u)
    <3>1. Detail(log, txn, u) /\ InLog(txn[u], log)
      BY PageFacts
    <3>2. Regops(w, Len(w)) = Regops(log, Len(log))
      BY <1>1 DEF Regops
    <3>3. \A i \in 1..Len(w) : ~IsCommit(w, i, u) \/ (i \in 1..Len(log) /\ IsCommit(log, i, u))
      BY <1>1 DEF IsCommit
    <3>4. txn[u].last # 0 => w[txn[u].last].txn = u
      BY <1>1, <3>1 DEF Detail, InLog, LeadsTo
    <3>5. \A i \in 1..Len(w) : w[i].type # "ckp" => i \in 1..Len(log) /\ w[i] = log[i]
      BY <1>1
    <3> QED BY <3>1, <3>2, <3>3, <3>4, <3>5 DEF Detail
  <2>2. Begun(w, txn)
    <3> SUFFICES ASSUME NEW i \in 1..Len(w), w[i].type # "ckp"
                 PROVE  txn[Top(w[i].txn)].st = "ended" \/ txn[Top(w[i].txn)].begin \in 1..i
      BY DEF Begun
    <3>1. i \in 1..Len(log) /\ w[i] = log[i]
      BY <1>1
    <3> QED BY <3>1, PageFacts DEF Begun
  <2> QED BY <2>1, <2>2 DEF Details
<1>3. SettledDone(w)
  <2> SUFFICES ASSUME NEW m \in 1..Len(w), NEW k \in 1..Len(w),
                      w[m].type = "ckp", w[k].type # "ckp", Early(w, w[k].txn, w[m].lsn)
               PROVE  k < m
    BY DEF SettledDone
  <2>1. k \in 1..Len(log) /\ w[k] = log[k]
    BY <1>1
  <2>2. CASE m = n
    BY <1>1, <2>1, <2>2
  <2>3. CASE m \in 1..Len(log)
    <3>1. w[m] = log[m] /\ log[m].lsn \in 0..Len(log) + 1
      <4>1. w[m] = log[m]
        BY <1>1, <2>3
      <4>2. log[m].lsn \in 1..m - 1
        BY <2>3, <4>1, PageFacts, RecordFacts
      <4> QED BY <1>1, <2>3, <4>1, <4>2
    <3>2. Early(log, w[k].txn, log[m].lsn)
      BY <3>1, EarlyGrows
    <3> QED BY <2>1, <2>3, <3>1, <3>2 DEF PageInv, DiskFacts, SettledDone
  <2> QED BY <1>1, <2>2, <2>3
<1> QED BY <1>2, <1>3

LEMMA EndCheckpointGoesRight == ASSUME PageInv, EndCheckpoint PROVE PageInv'
<1>0. /\ mode = "up" /\ ckp.st = "syncing" /\ ckp.pages = {}
      /\ log' = Append(log, Checkpoint(ckp.lsn)) /\ ckp' = NoCheckpoint
      /\ UNCHANGED <<parent, txn, cache, disk, mode, rec, synced, crashes>>
  BY DEF EndCheckpoint, Up
<1>1. ckp.lsn \in 1..Len(log) /\ ckp.lsn \in Nat
  BY <1>0, PageFacts DEF PageInv, Inv, CkpInLog, CkpState
<1>2. PICK r : r = Checkpoint(ckp.lsn)
  OBVIOUS
<1>3. r \in Rec /\ r.type = "ckp" /\ r.lsn = ckp.lsn
  BY <1>1, <1>2 DEF Checkpoint, Rec
<1>4. PICK w : w = log'
  OBVIOUS
<1>5. Extends(log, w, r)
  BY <1>0, <1>1, <1>2, <1>3, <1>4, ExtendsLog DEF PageInv
<1>6. PICK n : n = Len(log) + 1
  OBVIOUS
<1>7. /\ n \in Nat /\ Len(log) \in Nat /\ n = Len(log) + 1 /\ Len(w) = n /\ w[n] = r
      /\ \A i \in 1..Len(log) : i \in 1..Len(w) /\ w[i] = log[i]
      /\ \A i \in 1..Len(w) : i \in 1..Len(log) \/ i = n
  BY <1>5, <1>6, ExtendsFacts
<1>8. Follows(log, r)
  BY <1>3 DEF Follows
<1>9. LogFacts(w)
  BY <1>3, <1>5, <1>8, CommittedStays
<1>10. /\ Com(w, Len(w)) = Com(log, Len(log))
       /\ \A p : ComUp(w, Len(w), p) = ComUp(log, Len(log), p)
       /\ \A p : UpdatesOf(w, p) = UpdatesOf(log, p) /\ UpdatesOf(log, p) \subseteq 1..Len(log)
       /\ \A u \in Txn : Own(w, u) = Own(log, u)
  <2>1. r.type # "regop" /\ r.type # "update" /\ r.type # "child"
    BY <1>3
  <2>2. Com(w, Len(w)) = Com(log, Len(log)) /\ \A p : ComUp(w, Len(w), p) = ComUp(log, Len(log), p)
    BY <1>5, <1>8, <2>1, ComUpGrows
  <2>3. \A p : UpdatesOf(w, p) = UpdatesOf(log, p) /\ UpdatesOf(log, p) \subseteq 1..Len(log)
    BY <1>5, <2>1, UpdatesOfStay
  <2>4. \A u \in Txn : Own(w, u) = Own(log, u)
    BY <1>5, <2>1, OwnStays
  <2> QED BY <2>2, <2>3, <2>4
<1>11. Details(w, txn) /\ SettledDone(w)
  BY <1>3, <1>5, CheckpointRest
<1>12. /\ \A t \in Txn : Settled(w, t) <=> Settled(log, t) \/ Early(log, t, ckp.lsn)
  BY <1>3, <1>5, SettledGrows
<1>13. DiskFacts(w, txn, NoCheckpoint, disk)
  <2>0. NoCheckpoint.st = "none"
    BY NoCheckpointFacts
  <2>1. SettledDone(w)
    BY <1>11
  <2>2. SettledEnded(w, txn, NoCheckpoint)
    BY <1>0, <1>12, <2>0 DEF SettledEnded, PageInv, DiskFacts
  <2>3. ASSUME NEW p \in Page PROVE Image(w, p, disk[p], Must(w, NoCheckpoint, p))
    <3>1. PICK F : F = Must(log, ckp, p)
      OBVIOUS
    <3>2. Must(w, NoCheckpoint, p) = F
      BY <1>0, <1>12, <2>0, <3>1 DEF Must
    <3>3. Image(log, p, disk[p], F)
      BY <3>1 DEF PageInv, DiskFacts
    <3>4. r.type # "update" /\ \A t \in F : t \in Com(w, Len(w)) <=> t \in Com(log, Len(log))
      BY <1>3, <1>10
    <3>5. Image(w, p, disk[p], F)
      BY <1>5, <3>3, <3>4, ImageGrows
    <3> QED BY <3>2, <3>5
  <2> QED BY <2>1, <2>2, <2>3 DEF DiskFacts
<1>14. PICK c, d : c = Chain /\ d = Chain'
  OBVIOUS
<1>15. UpFacts(log, txn, c, cache)
  BY <1>0, <1>14 DEF PageInv
<1>16. Updates(log) \subseteq 1..Len(log)
  BY DEF Updates
<1>17. \A u \in Txn : d[txn[u].last] = c[txn[u].last] /\ c[txn[u].last] \in Seq(1..Len(log)) /\ txn[u].undo \in Seq(1..Len(log))
  <2> SUFFICES ASSUME NEW u \in Txn
               PROVE  d[txn[u].last] = c[txn[u].last] /\ c[txn[u].last] \in Seq(1..Len(log)) /\ txn[u].undo \in Seq(1..Len(log))
    OBVIOUS
  <2>1. LeadsTo(log, txn[u].last)
    BY PageFacts DEF InLog
  <2>2. d[txn[u].last] = c[txn[u].last]
    BY <1>4, <1>5, <1>14, <2>1, ChainGrows
  <2>3. c[txn[u].last] \in Seq(Updates(log))
    BY <1>14, <2>1, PageFacts, ChainFacts
  <2>4. txn[u].undo \in Seq(Nat) /\ \A i \in 1..Len(txn[u].undo) : txn[u].undo[i] \in Updates(log)
    BY PageFacts DEF InLog
  <2>5. txn[u].undo \in Seq(1..Len(log))
    BY <1>16, <2>4
  <2> QED BY <1>16, <2>2, <2>3, <2>5
<1>18. \A v \in Seq(1..Len(log)) : Descending(log, v) => Descending(w, v)
  BY <1>7, DescendingSame
<1>19. Chains(w, txn, d)
  BY <1>10, <1>15, <1>17, <1>18 DEF UpFacts, Chains
<1>20. \A u \in Holders(txn) : Holds(txn, d, u) = Holds(txn, c, u)
  BY <1>17 DEF Holders, Holds
<1>21. \A u \in Holders(txn) : \A l \in Holds(txn, c, u) : w[l] = log[l]
  BY <1>0, <1>7, <1>14, HoldFacts
<1>22. Apart(w, txn, d) /\ Above(w, txn, d)
  BY <1>10, <1>15, <1>20, <1>21 DEF UpFacts, Apart, Above
<1>23. CacheRight(w, txn, d, cache)
  <2> SUFFICES ASSUME NEW p \in Page
               PROVE  Linear(w, Eff(w, txn, d, p)) /\ Below(Eff(w, txn, d, p), cache[p], Len(w) + 1)
    BY DEF CacheRight
  <2>1. PICK E : E = Eff(log, txn, c, p)
    OBVIOUS
  <2>2. \A l \in UpdatesOf(log, p) : w[l] = log[l]
    BY <1>7, <1>10
  <2>3. Eff(w, txn, d, p) = E
    BY <1>10, <1>20, <2>1, <2>2 DEF Eff
  <2>4. E \subseteq 1..Len(log) /\ Linear(log, E) /\ Below(E, cache[p], Len(log) + 1)
    BY <1>10, <1>15, <2>1 DEF UpFacts, CacheRight, Eff
  <2>5. Linear(w, E)
    BY <1>7, <2>4, LinearSame
  <2>6. Below(E, cache[p], Len(log) + 2)
    BY <1>7, <2>4, PageFacts, BelowGrows
  <2>7. Len(w) + 1 = Len(log) + 2
    BY <1>7
  <2> QED BY <2>3, <2>5, <2>6, <2>7
<1>24. UpFacts(w, txn, d, cache)
  BY <1>19, <1>22, <1>23 DEF UpFacts
<1>25. Inv'
  BY EndCheckpointKeeps DEF PageInv
<1> QED BY <1>0, <1>4, <1>9, <1>11, <1>13, <1>14, <1>24, <1>25, PageFacts, NextPageInv

-----------------------------------------------------------------------------
(* The running system writes no record *)

LEMMA ChainStays == ASSUME WellFormed(log), UNCHANGED log PROVE Chain' = Chain
<1>1. PICK c, d : c = Chain /\ d = Chain'
  OBVIOUS
<1>2. IsChain(log, c) /\ IsChain(log, d)
  <2>1. WellFormed(log')
    OBVIOUS
  <2> QED BY <1>1, <2>1, ChainIs, ChainIsNext
<1>3. \A l \in LinkedIn(log) : d[l] = c[l]
  BY <1>2, ChainSame
<1>4. c = [l \in LinkedIn(log) |-> c[l]] /\ d = [l \in LinkedIn(log) |-> d[l]]
  <2>1. c = [l \in LinkedIn(log) |-> ChainStep(log, c, l)] /\ d = [l \in LinkedIn(log) |-> ChainStep(log, d, l)]
    BY <1>2, Zenon DEF IsChain
  <2> QED BY <2>1
<1> QED BY <1>1, <1>3, <1>4

\* A transaction leaves that holds nothing, or nothing but what it committed.
LEMMA EndsGoRight == ASSUME PageInv, NEW t \in Txn, CommitEnds(t) \/ AbortEnds(t) PROVE PageInv'
<1>0. /\ mode = "up" /\ txn' = [txn EXCEPT ![t] = Ended]
      /\ txn[t].st = "committing" \/ (txn[t].st = "aborting" /\ txn[t].undo = <<>>)
      /\ UNCHANGED <<parent, log, flushed, cache, disk, ckp, mode, rec, synced, crashes>>
  BY DEF CommitEnds, AbortEnds, Up
<1>1. PICK x : x = txn'
  OBVIOUS
<1>2. /\ \A u \in Txn : u # t => x[u] = txn[u]
      /\ x[t].st = "ended" /\ x[t].last = 0 /\ x[t].begin = 0
  <2>1. x[t] = Ended /\ \A u \in Txn : u # t => x[u] = txn[u]
    BY <1>0, <1>1, PageFacts
  <2> QED BY <2>1 DEF Ended
<1>3. Details(log, x)
  <2>1. ASSUME NEW u \in Txn, u # t PROVE Detail(log, x, u)
    <3>1. Detail(log, txn, u) /\ x[u] = txn[u] /\ Lineage[u] \subseteq Txn
      BY <1>2, <2>1, PageFacts, FamilyFacts
    <3>2. x[u].last # 0 => t \notin Lineage[u]
      BY <1>0, <2>1, <3>1 DEF Detail
    <3>3. x[u].last # 0 => \A a \in Lineage[u] \ {u} : x[a].st = "running"
      BY <1>2, <3>1, <3>2 DEF Detail
    <3> QED BY <3>1, <3>3 DEF Detail
  <2>2. Detail(log, x, t)
    BY <1>2 DEF Detail
  <2>3. Begun(log, x)
    <3> SUFFICES ASSUME NEW i \in 1..Len(log), log[i].type # "ckp"
                 PROVE  x[Top(log[i].txn)].st = "ended" \/ x[Top(log[i].txn)].begin \in 1..i
      BY DEF Begun
    <3>1. log[i].txn \in Txn
      BY PageFacts, RecordFacts
    <3>2. PICK a \in Txn : a = Top(log[i].txn)
      BY <3>1, PageFacts, FamilyFacts
    <3>3. txn[a].st = "ended" \/ txn[a].begin \in 1..i
      BY <3>2, PageFacts DEF Begun
    <3> QED BY <1>2, <3>2, <3>3
  <2> QED BY <2>1, <2>2, <2>3 DEF Details
<1>4. DiskFacts(log, x, ckp, disk)
  <2>1. \A u \in Txn : Top(u) \in Txn
    BY PageFacts, FamilyFacts
  <2>2. \A u \in Txn : txn[Top(u)].st = "ended" => x[Top(u)].st = "ended"
    BY <1>2, <2>1
  <2> QED BY <2>2 DEF PageInv, DiskFacts, SettledEnded
<1>5. PICK c : c = Chain
  OBVIOUS
<1>6. UpFacts(log, txn, c, cache)
  BY <1>0, <1>5 DEF PageInv
<1>7. Holders(x) = Holders(txn) \ {t} /\ \A u \in Holders(x) : Holds(x, c, u) = Holds(txn, c, u)
  BY <1>2 DEF Holders, Holds
<1>8. t \in Holders(txn) => Holds(txn, c, t) = {}
  BY <1>0 DEF Holders, Holds, ToSet
<1>9. Chains(log, x, c)
  BY <1>2, <1>6 DEF UpFacts, Chains
<1>10. Apart(log, x, c) /\ Above(log, x, c)
  BY <1>6, <1>7 DEF UpFacts, Apart, Above
<1>11. \A p : Eff(log, x, c, p) = Eff(log, txn, c, p)
  BY <1>7, <1>8 DEF Eff
<1>12. UpFacts(log, x, c, cache)
  BY <1>6, <1>9, <1>10, <1>11 DEF UpFacts, CacheRight
<1>13. Inv'
  BY CommitEndsKeeps DEF PageInv
<1>14. Chain' = c
  BY <1>0, <1>5, PageFacts, ChainStays
<1> QED BY <1>0, <1>1, <1>3, <1>4, <1>12, <1>13, <1>14, PageFacts, NextPageInv DEF PageInv

\* An abort holds what it has not undone yet.
LEMMA AbortGoesRight == ASSUME PageInv, NEW t \in Txn, Abort(t) PROVE PageInv'
<1>0. /\ mode = "up" /\ txn' = [txn EXCEPT ![t].st = "aborting", ![t].undo = Chain[txn[t].last]]
      /\ t \in Running /\ Kids(t) = {} /\ txn[t].last # 0
      /\ UNCHANGED <<parent, log, flushed, cache, disk, ckp, mode, rec, synced, crashes>>
  BY DEF Abort, MayAct, Up
<1>1. PICK x : x = txn'
  OBVIOUS
<1>2. PICK c : c = Chain
  OBVIOUS
<1>3. /\ \A u \in Txn : u # t => x[u] = txn[u]
      /\ x[t].st = "aborting" /\ x[t].last = txn[t].last /\ x[t].begin = txn[t].begin /\ x[t].undo = c[txn[t].last]
  BY <1>0, <1>1, <1>2, PageFacts DEF TxnDetail
<1>4. txn[t].st = "running"
  BY <1>0 DEF Running
<1>5. \A u \in Txn : txn[u].last # 0 /\ t \in Lineage[u] => u = t
  BY <1>0, NoKids
<1>6. Details(log, x)
  <2>1. ASSUME NEW u \in Txn PROVE Detail(log, x, u)
    <3>1. Detail(log, txn, u) /\ Lineage[u] \subseteq Txn /\ x[u].last = txn[u].last /\ x[u].begin = txn[u].begin
      BY <1>3, PageFacts, FamilyFacts
    <3>2. x[u].last # 0 => \A a \in Lineage[u] \ {u} : x[a].st = "running"
      BY <1>3, <1>5, <3>1 DEF Detail
    <3>3. x[u].st = txn[u].st \/ (u = t /\ x[u].st = "aborting" /\ txn[u].st = "running")
      BY <1>3, <1>4
    <3> QED BY <1>0, <3>1, <3>2, <3>3 DEF Detail
  <2>2. Begun(log, x)
    <3> SUFFICES ASSUME NEW i \in 1..Len(log), log[i].type # "ckp"
                 PROVE  x[Top(log[i].txn)].st = "ended" \/ x[Top(log[i].txn)].begin \in 1..i
      BY DEF Begun
    <3>1. log[i].txn \in Txn
      BY PageFacts, RecordFacts
    <3>2. PICK a \in Txn : a = Top(log[i].txn)
      BY <3>1, PageFacts, FamilyFacts
    <3>3. txn[a].st = "ended" \/ txn[a].begin \in 1..i
      BY <3>2, PageFacts DEF Begun
    <3> QED BY <1>3, <1>4, <3>2, <3>3
  <2> QED BY <2>1, <2>2 DEF Details
<1>7. DiskFacts(log, x, ckp, disk)
  <2>1. \A u \in Txn : Top(u) \in Txn
    BY PageFacts, FamilyFacts
  <2>2. \A u \in Txn : txn[Top(u)].st = "ended" => x[Top(u)].st = "ended"
    BY <1>3, <1>4, <2>1
  <2> QED BY <2>2 DEF PageInv, DiskFacts, SettledEnded
<1>8. UpFacts(log, txn, c, cache)
  BY <1>0, <1>2 DEF PageInv
<1>9. Holders(x) = Holders(txn) /\ \A u \in Txn : u \in Holders(x) => Holds(x, c, u) = Holds(txn, c, u)
  BY <1>3, <1>4 DEF Holders, Holds
<1>10. Chains(log, x, c)
  <2> SUFFICES ASSUME NEW u \in Txn
               PROVE  /\ x[u].st # "ended" => ToSet(c[x[u].last]) = Own(log, u)
                      /\ x[u].st = "running" => Descending(log, c[x[u].last])
                      /\ x[u].st = "aborting" =>
                            ToSet(x[u].undo) \subseteq ToSet(c[x[u].last]) /\ Descending(log, x[u].undo)
    BY DEF Chains
  <2>1. /\ txn[u].st # "ended" => ToSet(c[txn[u].last]) = Own(log, u)
        /\ txn[u].st = "running" => Descending(log, c[txn[u].last])
        /\ txn[u].st = "aborting" =>
              ToSet(txn[u].undo) \subseteq ToSet(c[txn[u].last]) /\ Descending(log, txn[u].undo)
    BY <1>8 DEF UpFacts, Chains
  <2>2. CASE u = t
    BY <1>3, <1>4, <2>1, <2>2
  <2>3. CASE u # t
    BY <1>3, <2>1, <2>3
  <2> QED BY <2>2, <2>3
<1>11. Apart(log, x, c) /\ Above(log, x, c)
  <2>1. Holders(txn) \subseteq Txn
    BY DEF Holders
  <2> QED BY <1>8, <1>9, <2>1 DEF UpFacts, Apart, Above
<1>12. \A p : Eff(log, x, c, p) = Eff(log, txn, c, p)
  <2>1. Holders(txn) \subseteq Txn
    BY DEF Holders
  <2> QED BY <1>9, <2>1 DEF Eff
<1>13. UpFacts(log, x, c, cache)
  BY <1>8, <1>10, <1>11, <1>12 DEF UpFacts, CacheRight
<1>14. Inv'
  BY AbortKeeps DEF PageInv
<1>15. Chain' = c
  BY <1>0, <1>2, PageFacts, ChainStays
<1> QED BY <1>0, <1>1, <1>6, <1>7, <1>13, <1>14, <1>15, PageFacts, NextPageInv DEF PageInv

\* What is undone was the greatest that counts.
LEMMA UndoOneGoesRight == ASSUME PageInv, NEW t \in Txn, UndoOne(t) PROVE PageInv'
<1>0. /\ mode = "up" /\ txn[t].st = "aborting" /\ txn[t].undo # <<>>
      /\ cache' = UndoneIn(cache, Head(txn[t].undo))
      /\ txn' = [txn EXCEPT ![t].undo = Tail(@)]
      /\ UNCHANGED <<parent, log, flushed, disk, ckp, mode, rec, synced, crashes>>
  BY DEF UndoOne, Up
<1>1. PICK x, v, h : x = txn' /\ v = txn[t].undo /\ h = Head(txn[t].undo)
  OBVIOUS
<1>2. PICK c : c = Chain
  OBVIOUS
<1>3. /\ \A u \in Txn : u # t => x[u] = txn[u]
      /\ x[t].st = "aborting" /\ x[t].last = txn[t].last /\ x[t].begin = txn[t].begin /\ x[t].undo = Tail(v)
  BY <1>0, <1>1, PageFacts DEF TxnDetail
<1>4. Details(log, x)
  <2>1. ASSUME NEW u \in Txn PROVE Detail(log, x, u)
    <3>1. /\ Detail(log, txn, u) /\ Lineage[u] \subseteq Txn
          /\ x[u].last = txn[u].last /\ x[u].begin = txn[u].begin /\ x[u].st = txn[u].st
      BY <1>0, <1>3, PageFacts, FamilyFacts
    <3>2. \A a \in Lineage[u] : x[a].st = txn[a].st
      BY <1>0, <1>3, <3>1
    <3> QED BY <3>1, <3>2 DEF Detail
  <2>2. Begun(log, x)
    <3> SUFFICES ASSUME NEW i \in 1..Len(log), log[i].type # "ckp"
                 PROVE  x[Top(log[i].txn)].st = "ended" \/ x[Top(log[i].txn)].begin \in 1..i
      BY DEF Begun
    <3>1. log[i].txn \in Txn
      BY PageFacts, RecordFacts
    <3>2. PICK a \in Txn : a = Top(log[i].txn)
      BY <3>1, PageFacts, FamilyFacts
    <3>3. txn[a].st = "ended" \/ txn[a].begin \in 1..i
      BY <3>2, PageFacts DEF Begun
    <3> QED BY <1>0, <1>3, <3>2, <3>3
  <2> QED BY <2>1, <2>2 DEF Details
<1>5. DiskFacts(log, x, ckp, disk)
  <2>1. \A u \in Txn : Top(u) \in Txn
    BY PageFacts, FamilyFacts
  <2>2. \A u \in Txn : txn[Top(u)].st = "ended" => x[Top(u)].st = "ended"
    BY <1>0, <1>3, <2>1
  <2> QED BY <2>2 DEF PageInv, DiskFacts, SettledEnded
<1>6. UpFacts(log, txn, c, cache)
  BY <1>0, <1>2 DEF PageInv
<1>7. /\ v \in Seq(1..Len(log)) /\ v # <<>> /\ h = v[1] /\ h \in 1..Len(log)
      /\ Len(v) \in Nat /\ 1 \in 1..Len(v) /\ Tail(v) \in Seq(1..Len(log)) /\ Len(Tail(v)) = Len(v) - 1
      /\ \A i \in 1..Len(v) - 1 : Tail(v)[i] = v[i + 1]
  <2>1. v \in Seq(Nat) /\ \A i \in 1..Len(v) : v[i] \in Updates(log)
    BY <1>1, PageFacts DEF InLog
  <2>2. v \in Seq(1..Len(log))
    BY <2>1 DEF Updates
  <2>3. v # <<>> /\ h = Head(v)
    BY <1>0, <1>1
  <2> QED BY <2>2, <2>3
<1>8. t \in Holders(txn) /\ Holds(txn, c, t) = ToSet(v) /\ h \in ToSet(v) /\ Descending(log, v)
  <2>1. t \in Holders(txn) /\ Holds(txn, c, t) = ToSet(v) /\ Descending(log, v)
    BY <1>0, <1>1, <1>6 DEF UpFacts, Chains, Holders, Holds
  <2> QED BY <1>7, <2>1 DEF ToSet
<1>9. \A m \in ToSet(v) : m # h /\ log[m].page = log[h].page => m < h
  <2> SUFFICES ASSUME NEW i \in 1..Len(v), v[i] # h, log[v[i]].page = log[h].page PROVE v[i] < h
    BY <1>7 DEF ToSet
  <2>1. i # 1 /\ 1 < i
    BY <1>7
  <2> QED BY <1>7, <1>8, <2>1 DEF Descending
<1>10. ToSet(Tail(v)) = ToSet(v) \ {h}
  <2>1. \A i \in 2..Len(v) : v[i] # h
    <3> SUFFICES ASSUME NEW i \in 2..Len(v), v[i] = h PROVE FALSE
      OBVIOUS
    <3>1. i \in 1..Len(v) /\ 1 < i /\ log[v[1]].page = log[v[i]].page
      BY <1>7
    <3>2. v[i] < v[1]
      BY <1>7, <1>8, <3>1 DEF Descending
    <3> QED BY <1>7, <3>2
  <2>2. DOMAIN Tail(v) = 1..Len(v) - 1 /\ DOMAIN v = 1..Len(v)
    BY <1>7
  <2>3. ASSUME NEW i \in 1..Len(v) - 1 PROVE Tail(v)[i] \in ToSet(v) \ {h}
    <3>1. i + 1 \in 2..Len(v) /\ i + 1 \in 1..Len(v) /\ Tail(v)[i] = v[i + 1]
      BY <1>7
    <3> QED BY <2>1, <2>2, <3>1 DEF ToSet
  <2>4. ASSUME NEW i \in 1..Len(v), v[i] # h PROVE v[i] \in ToSet(Tail(v))
    <3>1. i - 1 \in 1..Len(v) - 1 /\ i = (i - 1) + 1
      BY <1>7, <2>4
    <3>2. Tail(v)[i - 1] = v[i]
      BY <1>7, <3>1
    <3> QED BY <2>2, <3>1, <3>2 DEF ToSet
  <2> QED BY <2>2, <2>3, <2>4 DEF ToSet
<1>11. Descending(log, Tail(v))
  <2> SUFFICES ASSUME NEW i \in 1..Len(Tail(v)), NEW j \in 1..Len(Tail(v)), i < j,
                      log[Tail(v)[i]].page = log[Tail(v)[j]].page
               PROVE  Tail(v)[j] < Tail(v)[i]
    BY DEF Descending
  <2>1. /\ i + 1 \in 1..Len(v) /\ j + 1 \in 1..Len(v) /\ i + 1 < j + 1
        /\ Tail(v)[i] = v[i + 1] /\ Tail(v)[j] = v[j + 1]
    BY <1>7
  <2>2. PICK a \in 1..Len(v), b \in 1..Len(v) : a < b /\ Tail(v)[i] = v[a] /\ Tail(v)[j] = v[b]
    BY <2>1
  <2> QED BY <1>8, <2>2 DEF Descending
<1>12. Holders(x) = Holders(txn) /\ Holders(txn) \subseteq Txn
  BY <1>0, <1>3 DEF Holders
<1>13. /\ \A u \in Holders(txn) : u # t => Holds(x, c, u) = Holds(txn, c, u)
       /\ Holds(x, c, t) = Holds(txn, c, t) \ {h}
  BY <1>3, <1>8, <1>10, <1>12 DEF Holds
<1>14. \A u \in Holders(txn) : Holds(x, c, u) \subseteq Holds(txn, c, u)
  BY <1>13
<1>15. Chains(log, x, c)
  <2> SUFFICES ASSUME NEW u \in Txn
               PROVE  /\ x[u].st # "ended" => ToSet(c[x[u].last]) = Own(log, u)
                      /\ x[u].st = "running" => Descending(log, c[x[u].last])
                      /\ x[u].st = "aborting" =>
                            ToSet(x[u].undo) \subseteq ToSet(c[x[u].last]) /\ Descending(log, x[u].undo)
    BY DEF Chains
  <2>1. /\ txn[u].st # "ended" => ToSet(c[txn[u].last]) = Own(log, u)
        /\ txn[u].st = "running" => Descending(log, c[txn[u].last])
        /\ txn[u].st = "aborting" =>
              ToSet(txn[u].undo) \subseteq ToSet(c[txn[u].last]) /\ Descending(log, txn[u].undo)
    BY <1>6 DEF UpFacts, Chains
  <2>2. CASE u = t
    BY <1>0, <1>1, <1>3, <1>10, <1>11, <2>1, <2>2
  <2>3. CASE u # t
    BY <1>3, <2>1, <2>3
  <2> QED BY <2>2, <2>3
<1>16. Apart(log, x, c)
  <2> SUFFICES ASSUME NEW u \in Holders(txn), NEW w \in Holders(txn), NEW l \in Holds(x, c, u), NEW m \in Holds(x, c, w),
                      u # w, log[l].page = log[m].page
               PROVE  (u \in Lineage[w] /\ l < m) \/ (w \in Lineage[u] /\ m < l)
    BY <1>12 DEF Apart
  <2>1. l \in Holds(txn, c, u) /\ m \in Holds(txn, c, w)
    BY <1>14
  <2> QED BY <1>6, <2>1 DEF UpFacts, Apart
<1>17. Above(log, x, c)
  <2> SUFFICES ASSUME NEW u \in Holders(txn), NEW l \in Holds(x, c, u), NEW m \in ComUp(log, Len(log), log[l].page)
               PROVE  m < l
    BY <1>12 DEF Above
  <2>1. l \in Holds(txn, c, u)
    BY <1>14
  <2> QED BY <1>6, <2>1 DEF UpFacts, Above
<1>18. log[h].type = "update" /\ log[h].page \in Page /\ h \in UpdatesOf(log, log[h].page)
  BY <1>0, <1>2, <1>8, HoldFacts
<1>19. PICK p \in Page : p = log[h].page
  BY <1>18
<1>20. \A u \in Holders(txn) : \A m \in Holds(txn, c, u) : u # t /\ log[m].page = p => m < h
  <2> SUFFICES ASSUME NEW u \in Holders(txn), NEW m \in Holds(txn, c, u), u # t, log[m].page = p PROVE m < h
    OBVIOUS
  <2>1. (t \in Lineage[u] /\ h < m) \/ (u \in Lineage[t] /\ m < h)
    BY <1>6, <1>8, <1>19 DEF UpFacts, Apart
  <2>2. txn[u].last # 0 /\ u \in Txn
    BY <1>0, <1>2, HoldFacts
  <2>3. t \notin Lineage[u]
    BY <1>0, <2>2, PageFacts DEF Detail
  <2> QED BY <2>1, <2>3
<1>21. \A m \in ComUp(log, Len(log), p) : m < h
  BY <1>6, <1>8, <1>19 DEF UpFacts, Above
<1>22. PICK E : E = Eff(log, txn, c, p)
  OBVIOUS
<1>23. h \in E /\ E \subseteq 1..Len(log) /\ Linear(log, E) /\ Below(E, cache[p], Len(log) + 1)
  BY <1>6, <1>8, <1>18, <1>19, <1>22 DEF UpFacts, CacheRight, Eff, UpdatesOf
<1>24. \A m \in E : m # h => m < h
  <2> SUFFICES ASSUME NEW m \in E, m # h PROVE m < h
    OBVIOUS
  <2>1. m \in UpdatesOf(log, p) /\ log[m].page = p /\ m \in 1..Len(log)
    BY <1>22 DEF Eff, UpdatesOf
  <2>2. CASE log[m].txn \in Com(log, Len(log))
    BY <1>21, <2>1, <2>2 DEF ComUp
  <2>3. CASE \E u \in Holders(txn) : m \in Holds(txn, c, u)
    <3>1. PICK u \in Holders(txn) : m \in Holds(txn, c, u)
      BY <2>3
    <3>2. CASE u = t
      BY <1>8, <1>9, <1>19, <2>1, <3>1, <3>2
    <3>3. CASE u # t
      BY <1>20, <2>1, <3>1, <3>3
    <3> QED BY <3>2, <3>3
  <2> QED BY <1>22, <2>2, <2>3 DEF Eff
<1>25. cache[p] = h
  <2>1. Len(log) \in Nat /\ h < Len(log) + 1 /\ h =< cache[p] /\ cache[p] \in E \cup {0}
    BY <1>7, <1>23, PageFacts DEF Below
  <2>2. PICK z : z = cache[p]
    OBVIOUS
  <2>3. z \in E
    BY <1>7, <2>1, <2>2
  <2>4. ~(z < h)
    BY <1>7, <1>23, <2>1, <2>2, <2>3
  <2> QED BY <1>24, <2>2, <2>3, <2>4
<1>26. h \notin Eff(log, x, c, p)
  <2>1. log[h].txn \notin Com(log, Len(log))
    BY <1>7, <1>18, <1>19, <1>21 DEF ComUp, UpdatesOf
  <2>2. \A u \in Holders(txn) : h \notin Holds(x, c, u)
    BY <1>7, <1>13, <1>19, <1>20
  <2> QED BY <1>12, <2>1, <2>2 DEF Eff
<1>27. Eff(log, x, c, p) = E \ {h}
  <2>1. \A m \in UpdatesOf(log, p) : m # h => (m \in Eff(log, x, c, p) <=> m \in E)
    BY <1>12, <1>13, <1>22 DEF Eff
  <2>2. E \subseteq UpdatesOf(log, p) /\ Eff(log, x, c, p) \subseteq UpdatesOf(log, p)
    BY <1>22 DEF Eff
  <2> QED BY <1>26, <2>1, <2>2
<1>28. \A g \in Page : g # p => Eff(log, x, c, g) = Eff(log, txn, c, g)
  <2> SUFFICES ASSUME NEW g \in Page, g # p PROVE Eff(log, x, c, g) = Eff(log, txn, c, g)
    OBVIOUS
  <2>1. \A m \in UpdatesOf(log, g) : m # h
    BY <1>19 DEF UpdatesOf
  <2> QED BY <1>12, <1>13, <2>1 DEF Eff
<1>29. cache' = [cache EXCEPT ![p] = log[h].before]
  BY <1>0, <1>1, <1>19, <1>25 DEF UndoneIn
<1>30. CacheRight(log, x, c, cache')
  <2> SUFFICES ASSUME NEW g \in Page
               PROVE  Linear(log, Eff(log, x, c, g)) /\ Below(Eff(log, x, c, g), cache'[g], Len(log) + 1)
    BY DEF CacheRight
  <2>1. CASE g # p
    BY <1>6, <1>28, <1>29, <2>1, PageFacts DEF UpFacts, CacheRight
  <2>2. CASE g = p
    <3>1. PICK b : b = log[h].before /\ Below(E, b, h)
      BY <1>23 DEF Linear
    <3>2. cache'[g] = b
      BY <1>29, <2>2, <3>1, PageFacts
    <3>0. PICK D : D = E \ {h}
      OBVIOUS
    <3>3. D = E \ {h} /\ D \subseteq 1..Len(log) /\ \A m \in D : m < h
      BY <1>23, <1>24, <3>0
    <3>4. Below(D, b, Len(log) + 1)
      <4>1. b \in E \cup {0} /\ b < h /\ \A m \in E : m < h => m =< b
        BY <3>1 DEF Below
      <4>2. b \in D \cup {0} /\ \A m \in D : m =< b
        BY <1>7, <3>3, <4>1
      <4>3. b < Len(log) + 1
        BY <1>7, <1>23, <4>1, PageFacts
      <4> QED BY <4>2, <4>3 DEF Below
    <3>5. Linear(log, D)
      <4> SUFFICES ASSUME NEW m \in D PROVE Below(D, log[m].before, m)
        BY DEF Linear
      <4>1. m \in E /\ m < h /\ m \in Nat /\ h \in Nat
        BY <1>7, <3>3
      <4>2. PICK e : e = log[m].before /\ Below(E, e, m)
        BY <1>23, <4>1 DEF Linear
      <4>3. e \in E \cup {0} /\ e < m /\ \A k \in E : k < m => k =< e
        BY <4>2 DEF Below
      <4>4. e # h \/ e = 0
        BY <1>23, <4>1, <4>3
      <4>5. e \in D \cup {0}
        BY <3>3, <4>3, <4>4
      <4> QED BY <3>3, <4>2, <4>3, <4>5 DEF Below
    <3> QED BY <1>27, <2>2, <3>2, <3>3, <3>4, <3>5
  <2> QED BY <2>1, <2>2
<1>31. UpFacts(log, x, c, cache')
  BY <1>15, <1>16, <1>17, <1>30 DEF UpFacts
<1>32. Inv'
  BY UndoOneKeeps DEF PageInv
<1>33. Chain' = c
  BY <1>0, <1>2, PageFacts, ChainStays
<1> QED BY <1>0, <1>1, <1>4, <1>5, <1>31, <1>32, <1>33, PageFacts, NextPageInv DEF PageInv

-----------------------------------------------------------------------------
(* Pages are written, and checkpoints begin *)

\* The cache shows of ended families what is committed, as a disk has to.
LEMMA UpImage ==
  ASSUME PageInv, mode = "up", NEW p \in Page, NEW F, \A t \in F : t \in Txn /\ txn[Top(t)].st = "ended"
  PROVE  Image(log, p, cache[p], F)
<1>1. PICK V : V = Eff(log, txn, Chain, p)
  OBVIOUS
<1>2. Linear(log, V) /\ Below(V, cache[p], Len(log) + 1)
  BY <1>1 DEF PageInv, UpFacts, CacheRight
<1>3. V \in SUBSET UpdatesOf(log, p)
  BY <1>1 DEF Eff
<1>4. ASSUME NEW l \in UpdatesOf(log, p), log[l].txn \in F
      PROVE  l \in V <=> log[l].txn \in Com(log, Len(log))
  <2>1. ASSUME NEW t \in Holders(txn), l \in Holds(txn, Chain, t) PROVE FALSE
    <3>1. Top(log[l].txn) = Top(t) /\ txn[Top(t)].st # "ended"
      BY <2>1, HoldFacts
    <3> QED BY <1>4, <3>1
  <2> QED BY <1>1, <1>4, <2>1 DEF Eff
<1> QED BY <1>2, <1>3, <1>4 DEF Image

\* So do the pages in the midst of recovery, of the families it skips.
LEMMA RecoveringImage ==
  ASSUME PageInv, mode = "recovering", NEW p \in Page
  PROVE  Image(log, p, cache[p], AllSettled(log))
<1>0. Recovering(log, rec, cache)
  BY DEF PageInv
<1>1. CASE rec.pass = "backward"
  BY <1>0, <1>1 DEF Recovering, BackPages
<1>2. CASE rec.pass = "forward"
  <2>1. PICK C : C = ComUp(log, Len(log), p)
    OBVIOUS
  <2>2. PICK v \in Nat : v = cache[p]
    BY PageFacts
  <2>3. /\ v \in {0} \cup C
        /\ \A l \in C : Settled(log, log[l].txn) => l =< v
    BY <1>0, <1>2, <2>1, <2>2 DEF Recovering, ForwardPages
  <2>4. C \subseteq UpdatesOf(log, p) /\ C \subseteq 1..Len(log) /\ Linear(log, C) /\ v < Len(log) + 1
    <3>1. Linear(log, C)
      BY <2>1, PageFacts DEF CommittedLinear
    <3>2. v =< Len(log)
      BY <2>2 DEF PageInv, Inv, WriteAhead
    <3> QED BY <2>1, <2>2, <3>1, <3>2, PageFacts DEF ComUp, UpdatesOf
  <2>5. PICK V : V = {l \in C : l =< v}
    OBVIOUS
  <2>6. Below(V, v, Len(log) + 1)
    <3>1. v \in V \cup {0}
      BY <2>2, <2>3, <2>5
    <3> QED BY <2>4, <2>5, <3>1 DEF Below
  <2>7. Linear(log, V)
    <3> SUFFICES ASSUME NEW m \in V PROVE Below(V, log[m].before, m)
      BY DEF Linear
    <3>1. m \in C /\ m =< v /\ m \in Nat
      BY <2>4, <2>5
    <3>2. PICK b : b = log[m].before /\ Below(C, b, m)
      BY <2>4, <3>1 DEF Linear
    <3>3. b \in C \cup {0} /\ b < m /\ \A k \in C : k < m => k =< b
      BY <3>2 DEF Below
    <3>4. b \in V \cup {0}
      BY <2>2, <2>4, <2>5, <3>1, <3>3
    <3>5. \A k \in V : k < m => k =< b
      BY <2>5, <3>3
    <3> QED BY <3>2, <3>3, <3>4, <3>5 DEF Below
  <2>8. ASSUME NEW l \in UpdatesOf(log, p), log[l].txn \in AllSettled(log)
        PROVE  l \in V <=> log[l].txn \in Com(log, Len(log))
    <3>1. l \in C <=> log[l].txn \in Com(log, Len(log))
      BY <2>1, PageFacts DEF ComUp, UpdatesOf
    <3>2. l \in C => l =< v
      BY <2>3, <2>8 DEF AllSettled
    <3> QED BY <2>5, <3>1, <3>2
  <2> QED BY <2>2, <2>4, <2>5, <2>6, <2>7, <2>8 DEF Image
<1> QED BY <1>0, <1>1, <1>2 DEF Recovering

\* A page is written that shows what the disk has to.
LEMMA WritePageGoesRight == ASSUME PageInv, NEW p \in Page, WritePage(p) PROVE PageInv'
<1>0. /\ mode \in {"up", "recovering"} /\ disk' = [disk EXCEPT ![p] = cache[p]]
      /\ ckp' = [ckp EXCEPT !.pages = @ \ {p}]
      /\ UNCHANGED <<parent, txn, log, cache, mode, rec, synced, crashes>>
  BY DEF WritePage
<1>1. PICK k : k = ckp'
  OBVIOUS
<1>2. k.st = ckp.st /\ k.lsn = ckp.lsn /\ k.pages = ckp.pages \ {p}
  BY <1>0, <1>1, PageFacts DEF CkpState
<1>3. DiskFacts(log, txn, ckp, disk)
  BY DEF PageInv
<1>4. SettledEnded(log, txn, k)
  BY <1>2, <1>3 DEF DiskFacts, SettledEnded
<1>5. ASSUME NEW q \in Page PROVE Image(log, q, disk'[q], Must(log, k, q))
  <2>1. CASE q # p
    <3>1. Must(log, k, q) = Must(log, ckp, q)
      BY <1>2, <2>1 DEF Must
    <3>2. disk'[q] = disk[q]
      BY <1>0, <2>1, PageFacts
    <3> QED BY <1>3, <3>1, <3>2 DEF DiskFacts
  <2>2. CASE q = p
    <3>1. disk'[q] = cache[p]
      BY <1>0, <2>2, PageFacts
    <3>2. PICK F : F = Must(log, k, q)
      OBVIOUS
    <3>3. CASE mode = "up"
      <4>1. \A t \in F : t \in Txn /\ txn[Top(t)].st = "ended"
        BY <1>4, <3>2 DEF Must, SettledEnded
      <4> QED BY <2>2, <3>1, <3>2, <3>3, <4>1, UpImage
    <3>4. CASE mode = "recovering"
      <4>1. k.st = "none"
        BY <1>2, <3>4 DEF PageInv, DownFacts
      <4>2. F = AllSettled(log)
        BY <3>2, <4>1 DEF Must, AllSettled
      <4> QED BY <2>2, <3>1, <3>2, <3>4, <4>2, RecoveringImage
    <3> QED BY <1>0, <3>3, <3>4
  <2> QED BY <2>1, <2>2
<1>6. DiskFacts(log, txn, k, disk')
  BY <1>3, <1>4, <1>5 DEF DiskFacts
<1>7. mode # "up" => DownFacts(txn, k)
  BY <1>2 DEF PageInv, DownFacts
<1>8. Inv'
  BY WritePageKeeps DEF PageInv
<1>9. Chain' = Chain
  BY <1>0, PageFacts, ChainStays
<1> QED BY <1>0, <1>1, <1>6, <1>7, <1>8, <1>9, PageFacts, NextPageInv DEF PageInv

LEMMA StartCheckpointGoesRight == ASSUME PageInv, StartCheckpoint PROVE PageInv'
<1>0. /\ mode = "up" /\ ckp.st = "none" /\ ckp' = [ckp EXCEPT !.st = "guessed", !.lsn = Len(log)]
      /\ UNCHANGED <<parent, txn, log, flushed, cache, disk, mode, rec, synced, crashes>>
  BY DEF StartCheckpoint, Up
<1>1. PICK k : k = ckp'
  OBVIOUS
<1>2. k.st = "guessed"
  BY <1>0, <1>1, PageFacts DEF CkpState
<1>3. DiskFacts(log, txn, k, disk)
  <2>1. \A p : Must(log, k, p) = Must(log, ckp, p)
    BY <1>0, <1>2 DEF Must
  <2>2. SettledEnded(log, txn, k)
    BY <1>0, <1>2 DEF PageInv, DiskFacts, SettledEnded
  <2> QED BY <2>1, <2>2 DEF PageInv, DiskFacts
<1>4. Inv'
  BY StartCheckpointKeeps DEF PageInv
<1>5. Chain' = Chain
  BY <1>0, PageFacts, ChainStays
<1> QED BY <1>0, <1>1, <1>3, <1>4, <1>5, PageFacts, NextPageInv DEF PageInv

\* No active family began before the LSN of the checkpoint.
LEMMA CheckpointLsnLow ==
  ASSUME Inv, ckp.st = "guessed", NEW t \in Active, txn[t].begin # 0
  PROVE  CheckpointLsn =< txn[t].begin
<1>1. PICK S : S = {ckp.lsn} \cup {txn[u].begin : u \in {a \in Active : txn[a].begin # 0}}
  OBVIOUS
<1>2. S \subseteq Nat /\ S # {} /\ txn[t].begin \in S
  BY <1>1 DEF Inv, Types, TxnDetail, CkpState, Active
<1>3. PICK m \in S : \A n \in S : m =< n
  BY <1>2, LeastNat
<1>4. CheckpointLsn \in S /\ \A n \in S : CheckpointLsn =< n
  BY <1>1, <1>3 DEF CheckpointLsn, Min
<1> QED BY <1>2, <1>4

\* From here on the checkpoint answers for the families that began before its
\* LSN: they have ended, and the pages it does not write show them.
LEMMA GetActiveGoesRight == ASSUME PageInv, GetActive PROVE PageInv'
<1>0. /\ mode = "up" /\ ckp.st = "guessed"
      /\ ckp' = [st |-> "syncing", lsn |-> CheckpointLsn, pages |-> Dirty]
      /\ UNCHANGED <<parent, txn, log, flushed, cache, disk, mode, rec, synced, crashes>>
  BY DEF GetActive, Up, BuffersToSync
<1>1. PICK k, f : k = ckp' /\ f = CheckpointLsn
  OBVIOUS
<1>2. k.st = "syncing" /\ k.lsn = f /\ k.pages = Dirty /\ f \in Nat
  <2>1. f \in Nat
    BY <1>0, <1>1, CheckpointLsnFacts, PageFacts DEF PageInv, CkpState
  <2> QED BY <1>0, <1>1, <2>1
<1>3. DiskFacts(log, txn, ckp, disk)
  BY DEF PageInv
<1>4. ASSUME NEW t \in Txn, Early(log, t, f) PROVE txn[Top(t)].st = "ended"
  <2>1. PICK l \in 1..Len(log) : l < f /\ log[l].type # "ckp" /\ Top(log[l].txn) = Top(t)
    BY <1>4 DEF Early
  <2>2. PICK a \in Txn : a = Top(t)
    BY PageFacts, FamilyFacts
  <2>3. txn[a].st = "ended" \/ txn[a].begin \in 1..l
    BY <2>1, <2>2, PageFacts DEF Begun
  <2>4. ASSUME txn[a].st # "ended", txn[a].begin \in 1..l PROVE FALSE
    <3>1. a \in Active /\ txn[a].begin # 0
      BY <2>4, PageFacts DEF Active
    <3>2. f =< txn[a].begin
      BY <1>0, <1>1, <3>1, CheckpointLsnLow DEF PageInv
    <3> QED BY <1>2, <2>1, <2>4, <3>2
  <2> QED BY <2>2, <2>3, <2>4
<1>5. SettledEnded(log, txn, k)
  BY <1>2, <1>3, <1>4 DEF DiskFacts, SettledEnded
<1>6. ASSUME NEW p \in Page PROVE Image(log, p, disk[p], Must(log, k, p))
  <2>1. CASE p \in Dirty
    <3>1. Must(log, k, p) = Must(log, ckp, p)
      BY <1>0, <1>2, <2>1 DEF Must
    <3> QED BY <1>3, <3>1 DEF DiskFacts
  <2>2. CASE p \notin Dirty
    <3>1. disk[p] = cache[p]
      BY <2>2 DEF Dirty
    <3>2. PICK F : F = Must(log, k, p)
      OBVIOUS
    <3>3. \A t \in F : t \in Txn /\ txn[Top(t)].st = "ended"
      BY <1>5, <3>2 DEF Must, SettledEnded
    <3> QED BY <1>0, <3>1, <3>2, <3>3, UpImage
  <2> QED BY <2>1, <2>2
<1>7. DiskFacts(log, txn, k, disk)
  BY <1>3, <1>5, <1>6 DEF DiskFacts
<1>8. Inv'
  BY GetActiveKeeps DEF PageInv
<1>9. Chain' = Chain
  BY <1>0, PageFacts, ChainStays
<1> QED BY <1>0, <1>1, <1>7, <1>8, <1>9, PageFacts, NextPageInv DEF PageInv

-----------------------------------------------------------------------------
(* A crash cuts the log off *)

\* w is what is left of s.
Cut(s, w) ==
    /\ WellFormed(s) /\ WellFormed(w)
    /\ Len(w) \in 0..Len(s) /\ \A n \in 1..Len(w) : w[n] = s[n]

LEMMA CutFacts ==
  ASSUME NEW s, NEW w, Cut(s, w)
  PROVE  /\ Len(s) \in Nat /\ Len(w) \in Nat /\ Len(w) =< Len(s)
         /\ \A n \in 1..Len(w) : n \in 1..Len(s) /\ w[n] = s[n]
         /\ \A n \in 0..Len(w) : n \in 0..Len(s) /\ Com(w, n) = Com(s, n)
         /\ \A p : UpdatesOf(w, p) = {l \in UpdatesOf(s, p) : l =< Len(w)}
<1>1. /\ Len(s) \in Nat /\ Len(w) \in Nat /\ Len(w) =< Len(s)
      /\ \A n \in 1..Len(w) : n \in 1..Len(s) /\ w[n] = s[n]
  BY DEF Cut, WellFormed
<1>2. ASSUME NEW n \in 0..Len(w) PROVE n \in 0..Len(s) /\ Com(w, n) = Com(s, n)
  <2>1. n \in Nat /\ n \in 0..Len(s) /\ \A i \in 1..n : w[i] = s[i]
    BY <1>1
  <2> QED BY <2>1, UnderSame
<1>3. ASSUME NEW p PROVE UpdatesOf(w, p) = {l \in UpdatesOf(s, p) : l =< Len(w)}
  BY <1>1 DEF UpdatesOf
<1> QED BY <1>1, <1>2, <1>3

LEMMA CutLogFacts ==
  ASSUME NEW s, NEW w, Cut(s, w), LogFacts(s)
  PROVE  LogFacts(w)
<1>0. /\ Len(s) \in Nat /\ Len(w) \in Nat /\ Len(w) =< Len(s)
      /\ \A n \in 1..Len(w) : n \in 1..Len(s) /\ w[n] = s[n]
      /\ \A n \in 0..Len(w) : n \in 0..Len(s) /\ Com(w, n) = Com(s, n)
      /\ \A p : UpdatesOf(w, p) = {l \in UpdatesOf(s, p) : l =< Len(w)}
  BY CutFacts
<1>1. \A n \in 1..Len(w) : \A m \in n + 1..Len(w) : m \in n + 1..Len(s) /\ w[m] = s[m] /\ (IsRecord(w, m) => IsRecord(s, m))
  BY <1>0 DEF IsRecord
<1>2. \A n \in 1..Len(w) : \A m \in 1..n : w[m] = s[m]
  BY <1>0
<1>3. MergedOnce(w)
  <2> SUFFICES ASSUME NEW n \in 1..Len(w), w[n].type = "child"
               PROVE  /\ parent[w[n].child] = w[n].txn
                      /\ \E m \in 1..n - 1 : Starts(w[m], w[n].child)
                      /\ \A m \in n + 1..Len(w) : IsRecord(w, m) =>
                            w[m].txn # w[n].child /\ (w[m].type = "child" => w[m].child # w[n].child)
    BY DEF MergedOnce
  <2>1. n \in 1..Len(s) /\ w[n] = s[n]
    BY <1>0
  <2>2. /\ parent[s[n].child] = s[n].txn
        /\ \E m \in 1..n - 1 : Starts(s[m], s[n].child)
        /\ \A m \in n + 1..Len(s) : IsRecord(s, m) =>
              s[m].txn # s[n].child /\ (s[m].type = "child" => s[m].child # s[n].child)
    BY <2>1 DEF LogFacts, MergedOnce
  <2>3. PICK m \in 1..n - 1 : Starts(s[m], s[n].child)
    BY <2>2
  <2>4. w[m] = s[m]
    BY <1>0
  <2>5. Starts(w[m], w[n].child)
    BY <2>1, <2>3, <2>4
  <2> QED BY <1>1, <2>1, <2>2, <2>5
<1>4. CommittedOnce(w)
  BY <1>0, <1>1 DEF LogFacts, CommittedOnce
<1>5. BegunInLog(w)
  <2> SUFFICES ASSUME NEW n \in 1..Len(w), w[n].type # "ckp" PROVE \E m \in 1..n : Starts(w[m], w[n].txn)
    BY DEF BegunInLog
  <2>1. n \in 1..Len(s) /\ w[n] = s[n]
    BY <1>0
  <2>2. PICK m \in 1..n : Starts(s[m], s[n].txn)
    BY <2>1 DEF LogFacts, BegunInLog
  <2>3. w[m] = s[m]
    BY <1>2
  <2>4. Starts(w[m], w[n].txn)
    BY <2>1, <2>2, <2>3
  <2> QED BY <2>4
<1>6. CommittedLinear(w)
  <2> SUFFICES ASSUME NEW n \in 0..Len(w), NEW p \in Page PROVE Linear(w, ComUp(w, n, p))
    BY DEF CommittedLinear
  <2>1. PICK C : C = ComUp(s, n, p)
    OBVIOUS
  <2>2. ComUp(w, n, p) = C
    <3>1. UpdatesOf(w, p) = {l \in UpdatesOf(s, p) : l =< Len(w)} /\ UpdatesOf(s, p) \subseteq Nat
      BY <1>0 DEF UpdatesOf
    <3>2. \A l \in UpdatesOf(w, p) : w[l] = s[l]
      BY <1>0 DEF UpdatesOf
    <3>3. \A l \in Nat : l =< n => l =< Len(w)
      BY <1>0
    <3> QED BY <1>0, <2>1, <3>1, <3>2, <3>3 DEF ComUp
  <2>3. Linear(s, C)
    BY <1>0, <2>1 DEF LogFacts, CommittedLinear
  <2>4. \A l \in C : w[l] = s[l]
    BY <1>0, <2>2 DEF ComUp, UpdatesOf
  <2> QED BY <2>2, <2>3, <2>4 DEF Linear
<1> QED BY <1>3, <1>4, <1>5, <1>6 DEF LogFacts

\* A family that is settled in what is left had all its records there: whether
\* it has committed does not change.
LEMMA CutSettled ==
  ASSUME NEW s, NEW w, Cut(s, w), MergedOnce(s), SettledDone(s), parent \in Trees,
         NEW t \in Txn, Settled(w, t)
  PROVE  Settled(s, t) /\ (t \in Com(w, Len(w)) <=> t \in Com(s, Len(s)))
<1>0. /\ Len(s) \in Nat /\ Len(w) \in Nat /\ Len(w) =< Len(s)
      /\ \A n \in 1..Len(w) : n \in 1..Len(s) /\ w[n] = s[n]
      /\ \A n \in 0..Len(w) : n \in 0..Len(s) /\ Com(w, n) = Com(s, n)
      /\ WellFormed(s) /\ WellFormed(w)
  BY CutFacts DEF Cut
<1>1. PICK n \in Nat, N \in Nat : n = Len(w) /\ N = Len(s) /\ n \in 0..N
  BY <1>0
<1>2. PICK m \in 1..n : s[m].type = "ckp" /\ Early(w, t, s[m].lsn)
  BY <1>0, <1>1 DEF Settled
<1>3. PICK f : f = s[m].lsn /\ Early(w, t, f)
  BY <1>2
<1>4. Early(s, t, f) /\ Settled(s, t)
  <2>1. Early(s, t, f)
    BY <1>0, <1>3 DEF Early
  <2> QED BY <1>0, <1>1, <1>2, <1>3, <2>1 DEF Settled
<1>5. \A k \in n + 1..N : s[k].type # "ckp" => Top(s[k].txn) # Top(t)
  <2> SUFFICES ASSUME NEW k \in n + 1..N, s[k].type # "ckp", Top(s[k].txn) = Top(t) PROVE FALSE
    OBVIOUS
  <2>1. Early(s, s[k].txn, f)
    BY <1>4 DEF Early
  <2>2. k \in 1..N /\ m \in 1..N
    BY <1>1
  <2>3. k < m
    BY <1>1, <1>2, <1>3, <2>1, <2>2 DEF SettledDone
  <2> QED BY <1>1, <2>3
<1>6. PICK S : S = Com(s, n) \cup {u \in Txn : \E k \in n + 1..N : s[k].type # "ckp" /\ Top(s[k].txn) = Top(u)}
  OBVIOUS
<1>7. PICK R : R = Regops(s, n)
  OBVIOUS
<1>8. R \subseteq Txn /\ R \subseteq Com(s, n) /\ Com(s, n) \subseteq Txn /\ Closed(s, n, Com(s, n))
  <2>1. n \in 0..Len(s) /\ R \subseteq Txn
    BY <1>1, <1>7 DEF Regops
  <2> QED BY <1>0, <1>7, <2>1, UnderFacts DEF Com
<1>9. S \in SUBSET Txn
  BY <1>6, <1>8
<1>10. Regops(s, N) \subseteq S
  <2> SUFFICES ASSUME NEW u \in Txn, NEW k \in 1..N, s[k].type = "regop", s[k].txn = u PROVE u \in S
    BY DEF Regops
  <2>1. CASE k \in 1..n
    <3>1. u \in R
      BY <1>7, <2>1 DEF Regops
    <3> QED BY <1>6, <1>8, <3>1
  <2>2. CASE k \in n + 1..N
    <3>1. s[k].type # "ckp"
      OBVIOUS
    <3> QED BY <1>6, <2>2, <3>1
  <2> QED BY <1>1, <2>1, <2>2
<1>11. Closed(s, N, S)
  <2> SUFFICES ASSUME NEW k \in 1..N, s[k].type = "child", s[k].txn \in S PROVE s[k].child \in S
    BY DEF Closed
  <2>1. s[k].txn \in Txn /\ s[k].child \in Txn
    BY <1>0, <1>1, RecordFacts
  <2>2. Top(s[k].child) = Top(s[k].txn)
    <3>1. parent[s[k].child] = s[k].txn /\ s[k].txn # NoTxn
      BY <1>1, <2>1, RecoveryAssumption DEF MergedOnce
    <3> QED BY <2>1, <3>1, FamilyFacts
  <2>3. CASE k \in n + 1..N
    <3>1. s[k].type # "ckp"
      OBVIOUS
    <3> QED BY <1>6, <2>1, <2>2, <2>3, <3>1
  <2>4. CASE k \in 1..n /\ s[k].txn \in Com(s, n)
    BY <1>6, <1>8, <2>4 DEF Closed
  <2>5. CASE \E j \in n + 1..N : s[j].type # "ckp" /\ Top(s[j].txn) = Top(s[k].txn)
    BY <1>6, <2>1, <2>2, <2>5
  <2>6. k \in 1..n \/ k \in n + 1..N
    BY <1>1
  <2> QED BY <1>6, <2>3, <2>4, <2>5, <2>6
<1>12. Com(s, N) \subseteq S
  <2>1. N \in 0..Len(s) /\ Regops(s, N) \subseteq Txn
    BY <1>1 DEF Regops
  <2>2. PICK X : X = Regops(s, N)
    OBVIOUS
  <2>3. Under(s, N, X) \subseteq S
    BY <1>0, <1>9, <1>10, <1>11, <2>1, <2>2, UnderFacts
  <2> QED BY <2>2, <2>3 DEF Com
<1>13. t \in Com(s, N) => t \in Com(s, n)
  BY <1>5, <1>6, <1>12
<1>14. t \in Com(s, n) => t \in Com(s, N)
  <2>1. n \in 0..Len(s) /\ N \in n..Len(s)
    BY <1>1
  <2>2. PICK X, Y : X = Regops(s, n) /\ Y = Regops(s, N)
    OBVIOUS
  <2>3. X \subseteq Y /\ Y \subseteq Txn
    BY <1>1, <2>2 DEF Regops
  <2>4. Under(s, n, X) \subseteq Under(s, N, Y)
    BY <1>0, <2>1, <2>3, UnderMonotone
  <2> QED BY <2>2, <2>4 DEF Com
<1>15. Com(w, Len(w)) = Com(s, n)
  BY <1>0, <1>1
<1> QED BY <1>1, <1>4, <1>13, <1>14, <1>15

\* No page on disk shows what the crash cut off.
LEMMA CrashGoesRight == ASSUME PageInv, NEW n \in 0..Len(log), Crash(n) PROVE PageInv'
<1>0. /\ n >= flushed
      /\ log' = SubSeq(log, 1, n)
      /\ txn' = [t \in Txn |-> IF txn[t].last # 0 \/ txn[t].begin # 0 THEN Ended ELSE txn[t]]
      /\ cache' = disk
      /\ ckp' = NoCheckpoint /\ mode' = "down"
      /\ UNCHANGED <<parent, disk>>
  BY DEF Crash
<1>1. PICK w, x, k : w = log' /\ x = txn' /\ k = ckp'
  OBVIOUS
<1>2. WellFormed(w) /\ Len(w) = n /\ n \in Nat /\ Cut(log, w)
  <2>1. WellFormed(log) /\ Len(log) \in Nat /\ w = SubSeq(log, 1, n)
    BY <1>0, <1>1, PageFacts
  <2>2. WellFormed(w) /\ Len(w) = n /\ \A i \in 1..n : w[i] = log[i]
    BY <2>1, LogCut
  <2> QED BY <2>1, <2>2 DEF Cut
<1>3. /\ Len(log) \in Nat /\ n =< Len(log)
      /\ \A i \in 1..Len(w) : i \in 1..Len(log) /\ w[i] = log[i]
      /\ \A p : UpdatesOf(w, p) = {l \in UpdatesOf(log, p) : l =< Len(w)}
  BY <1>2, CutFacts
<1>4. k.st = "none"
  BY <1>0, <1>1, NoCheckpointFacts
<1>5. ASSUME NEW t \in Txn
      PROVE  /\ x[t].last = 0 /\ x[t].begin = 0 /\ x[t].st \in {"running", "ended"}
             /\ x[t].st = "running" => txn[t].st = "running" /\ txn[t].last = 0
             /\ txn[t].st = "ended" \/ txn[t].begin # 0 => x[t].st = "ended"
  <2>1. Ended.last = 0 /\ Ended.begin = 0 /\ Ended.st = "ended"
    BY DEF Ended
  <2>2. CASE txn[t].last # 0 \/ txn[t].begin # 0
    <3>1. x[t] = Ended
      BY <1>0, <1>1, <2>2
    <3> QED BY <2>1, <3>1
  <2>3. CASE txn[t].last = 0 /\ txn[t].begin = 0
    <3>1. x[t] = txn[t]
      BY <1>0, <1>1, <2>3
    <3>2. txn[t].st \in {"running", "ended"}
      BY <2>3, PageFacts DEF Detail
    <3> QED BY <2>3, <3>1, <3>2
  <2> QED BY <2>2, <2>3
<1>6. DownFacts(x, k)
  BY <1>4, <1>5 DEF DownFacts
<1>7. LogFacts(w)
  BY <1>2, CutLogFacts DEF PageInv
<1>8. Details(w, x)
  <2>1. ASSUME NEW t \in Txn PROVE Detail(w, x, t)
    <3>1. Detail(log, txn, t)
      BY PageFacts
    <3>2. x[t].st = "running" => \A i \in 1..Len(w) : w[i].type # "ckp" => w[i].txn # t
      BY <1>3, <1>5, <3>1 DEF Detail
    <3>3. x[t].st = "running" => \A i \in 1..Len(w) : ~IsCommit(w, i, t)
      BY <1>3, <1>5, <3>1 DEF Detail, IsCommit
    <3>4. x[t].last = 0 /\ x[t].begin = 0 /\ x[t].st # "committing" /\ x[t].st # "aborting"
      BY <1>5
    <3> QED BY <3>2, <3>3, <3>4 DEF Detail
  <2>2. Begun(w, x)
    <3> SUFFICES ASSUME NEW i \in 1..Len(w), w[i].type # "ckp" PROVE x[Top(w[i].txn)].st = "ended"
      BY DEF Begun
    <3>1. i \in 1..Len(log) /\ w[i] = log[i] /\ log[i].txn \in Txn
      BY <1>3, PageFacts, RecordFacts
    <3>2. PICK a \in Txn : a = Top(log[i].txn)
      BY <3>1, PageFacts, FamilyFacts
    <3>3. txn[a].st = "ended" \/ txn[a].begin \in 1..i
      BY <3>1, <3>2, PageFacts DEF Begun
    <3> QED BY <1>5, <3>1, <3>2, <3>3
  <2> QED BY <2>1, <2>2 DEF Details
<1>9. DiskFacts(log, txn, ckp, disk)
  BY DEF PageInv
<1>10. \A t \in Txn : Settled(w, t) => Settled(log, t) /\ (t \in Com(w, Len(w)) <=> t \in Com(log, Len(log)))
  BY <1>2, <1>9, PageFacts, CutSettled DEF DiskFacts
<1>11. SettledDone(w)
  <2> SUFFICES ASSUME NEW m \in 1..Len(w), NEW j \in 1..Len(w),
                      w[m].type = "ckp", w[j].type # "ckp", Early(w, w[j].txn, w[m].lsn)
               PROVE  j < m
    BY DEF SettledDone
  <2>1. m \in 1..Len(log) /\ j \in 1..Len(log) /\ w[m] = log[m] /\ w[j] = log[j]
    BY <1>3
  <2>2. Early(log, w[j].txn, w[m].lsn)
    BY <1>3 DEF Early
  <2> QED BY <1>9, <2>1, <2>2 DEF DiskFacts, SettledDone
<1>12. SettledEnded(w, x, k)
  <2>1. ASSUME NEW t \in Txn, Settled(w, t) PROVE x[Top(t)].st = "ended"
    <3>1. txn[Top(t)].st = "ended"
      BY <1>9, <1>10, <2>1 DEF DiskFacts, SettledEnded
    <3>2. Top(t) \in Txn
      BY PageFacts, FamilyFacts
    <3> QED BY <1>5, <3>1, <3>2
  <2> QED BY <1>4, <2>1 DEF SettledEnded
<1>13. ASSUME NEW p \in Page PROVE Image(w, p, disk[p], Must(w, k, p))
  <2>1. PICK F : F = Must(w, k, p)
    OBVIOUS
  <2>2. \A t \in F : t \in Txn /\ Settled(w, t)
    BY <1>4, <2>1 DEF Must
  <2>3. F \subseteq Must(log, ckp, p)
    BY <1>10, <2>2 DEF Must
  <2>4. Image(log, p, disk[p], F)
    BY <1>9, <2>3, ImageOfFewer DEF DiskFacts
  <2>5. PICK v \in Nat : v = disk[p] /\ v =< n
    <3>1. disk[p] \in Nat /\ disk[p] =< flushed /\ flushed \in Nat
      BY PageFacts DEF PageInv, Inv, Types, WriteAhead
    <3> QED BY <1>0, <1>2, <3>1
  <2>6. PICK V \in SUBSET UpdatesOf(log, p) :
          /\ Linear(log, V) /\ Below(V, v, Len(log) + 1)
          /\ \A l \in UpdatesOf(log, p) : log[l].txn \in F => (l \in V <=> log[l].txn \in Com(log, Len(log)))
    BY <2>4, <2>5 DEF Image
  <2>7. v \in V \cup {0} /\ \A l \in V : l \in 1..Len(log) /\ l =< v
    BY <1>3, <2>6 DEF Below, UpdatesOf
  <2>8. V \subseteq UpdatesOf(w, p)
    BY <1>2, <1>3, <2>5, <2>6, <2>7
  <2>9. Linear(w, V)
    <3>1. \A l \in V : w[l] = log[l]
      BY <1>3, <2>8 DEF UpdatesOf
    <3> QED BY <2>6, <3>1 DEF Linear
  <2>10. Below(V, v, Len(w) + 1)
    BY <1>2, <2>5, <2>7 DEF Below
  <2>11. \A l \in UpdatesOf(w, p) : w[l].txn \in F => (l \in V <=> w[l].txn \in Com(w, Len(w)))
    <3> SUFFICES ASSUME NEW l \in UpdatesOf(w, p), w[l].txn \in F PROVE l \in V <=> w[l].txn \in Com(w, Len(w))
      OBVIOUS
    <3>1. l \in UpdatesOf(log, p) /\ w[l] = log[l]
      BY <1>3 DEF UpdatesOf
    <3>2. PICK t \in F : t = w[l].txn
      OBVIOUS
    <3>3. t \in Com(w, Len(w)) <=> t \in Com(log, Len(log))
      BY <1>10, <2>2
    <3> QED BY <2>6, <3>1, <3>2, <3>3
  <2> QED BY <2>1, <2>5, <2>8, <2>9, <2>10, <2>11 DEF Image
<1>14. DiskFacts(w, x, k, disk)
  BY <1>11, <1>12, <1>13 DEF DiskFacts
<1>15. Inv'
  BY CrashKeeps DEF PageInv
<1> QED BY <1>0, <1>1, <1>6, <1>7, <1>8, <1>14, <1>15, PageFacts, NextPageInv

-----------------------------------------------------------------------------
(* After a crash nothing is held *)

LEMMA DownHolds ==
  ASSUME NEW s, WellFormed(s), NEW c, IsChain(s, c), NEW x, NEW k, DownFacts(x, k), \A t \in Txn : Detail(s, x, t)
  PROVE  /\ Chains(s, x, c) /\ Apart(s, x, c) /\ Above(s, x, c)
         /\ \A p : Eff(s, x, c, p) = ComUp(s, Len(s), p)
<1>1. c[0] = <<>> /\ ToSet(<<>>) = {} /\ Descending(s, <<>>)
  <2>1. 0 \in LinkedIn(s)
    BY DEF LinkedIn
  <2>2. c[0] = ChainStep(s, c, 0)
    BY <2>1 DEF IsChain
  <2> QED BY <2>2 DEF ChainStep, ToSet, Descending
<1>2. \A t \in Txn : x[t].last = 0 /\ x[t].st \in {"running", "ended"}
  BY DEF DownFacts
<1>3. \A t \in Holders(x) : Holds(x, c, t) = {}
  BY <1>1, <1>2 DEF Holders, Holds
<1>4. ASSUME NEW t \in Txn, x[t].st = "running" PROVE Own(s, t) = {}
  <2>1. \A n \in 1..Len(s) : s[n].type # "ckp" => s[n].txn # t
    BY <1>2, <1>4 DEF Detail
  <2>2. PICK X : X = {t}
    OBVIOUS
  <2>3. Closed(s, Len(s), X)
    BY <2>1, <2>2 DEF Closed
  <2>4. Under(s, Len(s), X) \subseteq X
    <3>1. X \in SUBSET Txn /\ Len(s) \in 0..Len(s)
      BY <2>2 DEF WellFormed
    <3> QED BY <2>3, <3>1, UnderFacts
  <2> QED BY <2>1, <2>2, <2>4 DEF Own, Updates
<1>5. Chains(s, x, c)
  BY <1>1, <1>2, <1>4 DEF Chains
<1>6. Apart(s, x, c) /\ Above(s, x, c)
  BY <1>3 DEF Apart, Above
<1>7. ASSUME NEW p PROVE Eff(s, x, c, p) = ComUp(s, Len(s), p)
  <2>1. \A l \in UpdatesOf(s, p) : l =< Len(s)
    BY DEF UpdatesOf, WellFormed
  <2>2. \A l \in UpdatesOf(s, p) : l \in Eff(s, x, c, p) <=> l \in ComUp(s, Len(s), p)
    BY <1>3, <2>1 DEF Eff, ComUp
  <2>3. Eff(s, x, c, p) \subseteq UpdatesOf(s, p) /\ ComUp(s, Len(s), p) \subseteq UpdatesOf(s, p)
    BY DEF Eff, ComUp
  <2> QED BY <2>2, <2>3
<1> QED BY <1>5, <1>6, <1>7

\* With no log at all, nothing is committed and no page shows anything.
LEMMA EmptyRight ==
  ASSUME NEW s, WellFormed(s), Len(s) = 0, NEW c, IsChain(s, c), NEW x, NEW k, DownFacts(x, k),
         \A t \in Txn : Detail(s, x, t), NEW pg, \A p \in Page : pg[p] = 0
  PROVE  UpFacts(s, x, c, pg)
<1>1. /\ Chains(s, x, c) /\ Apart(s, x, c) /\ Above(s, x, c)
      /\ \A p : Eff(s, x, c, p) = ComUp(s, Len(s), p)
  BY DownHolds
<1>2. \A p : ComUp(s, Len(s), p) = {}
  BY DEF ComUp, UpdatesOf
<1>3. CacheRight(s, x, c, pg)
  BY <1>1, <1>2 DEF CacheRight, Linear, Below
<1> QED BY <1>1, <1>3 DEF UpFacts

\* The greatest update is taken away.
LEMMA LinearLess ==
  ASSUME NEW s, NEW E, NEW h \in E, E \subseteq Nat \ {0}, \A m \in E : m # h => m < h, Linear(s, E),
         NEW D, D = E \ {h}, NEW k \in Nat, h < k
  PROVE  Linear(s, D) /\ Below(D, s[h].before, k)
<1>1. PICK b : b = s[h].before /\ Below(E, b, h)
  BY DEF Linear
<1>2. b \in E \cup {0} /\ b < h /\ \A m \in E : m < h => m =< b
  BY <1>1 DEF Below
<1>3. D \subseteq E /\ h \in Nat \ {0} /\ b \in Nat /\ b \in D \cup {0} /\ \A m \in D : m < h
  BY <1>2
<1>4. Below(D, b, k)
  BY <1>2, <1>3 DEF Below
<1>5. Linear(s, D)
  <2> SUFFICES ASSUME NEW m \in D PROVE Below(D, s[m].before, m)
    BY DEF Linear
  <2>1. m \in E /\ m < h /\ m \in Nat
    BY <1>3
  <2>2. PICK e : e = s[m].before /\ Below(E, e, m)
    BY <2>1 DEF Linear
  <2>3. e \in E \cup {0} /\ e < m /\ \A j \in E : j < m => j =< e
    BY <2>2 DEF Below
  <2>4. e # h \/ e = 0
    BY <1>3, <2>1, <2>3
  <2>5. e \in D \cup {0}
    BY <2>3, <2>4
  <2> QED BY <1>3, <2>2, <2>3, <2>5 DEF Below
<1> QED BY <1>1, <1>4, <1>5

-----------------------------------------------------------------------------
(* Recovery *)

\* Where recovery is, and what it goes by.
LEMMA RecoveringIs ==
  ASSUME PageInv, mode = "recovering"
  PROVE  /\ Recovering(log, rec, cache) /\ RecoveringFacts(log, rec) /\ rec.list \in [Txn -> Status]
         /\ rec.first \in 1..Len(log) /\ rec.at \in Nat /\ rec.at =< Len(log) + 1
         /\ rec.pass = "backward" => rec.at =< Len(log) /\ BackList(log, rec) /\ BackPages(log, rec, cache)
         /\ rec.pass = "forward" => rec.at > 0 /\ ForwardList(log, rec) /\ ForwardPages(log, rec, cache)
         /\ Committers(log) \subseteq Txn /\ Committers(log) = Com(log, Len(log))
         /\ \A p \in Page : cache[p] =< Len(log)
         /\ DownFacts(txn, ckp) /\ ckp.st = "none"
<1>1. Recovering(log, rec, cache) /\ DownFacts(txn, ckp)
  BY DEF PageInv
<1>2. Committers(log) \subseteq Txn
  BY PageFacts, ComInTxn DEF Committers
<1>3. rec.list \in [Txn -> Status] /\ rec.at \in Nat
  BY PageFacts DEF RecState
<1> QED BY <1>1, <1>2, <1>3 DEF Recovering, DownFacts, Committers, PageInv, Inv, RecInLog, WriteAhead

\* Only the cache, the list and the cursor change.
LEMMA RecoveryGoesRight ==
  ASSUME PageInv, mode = "recovering", mode' = "recovering", UNCHANGED <<parent, txn, log, disk, ckp>>,
         Inv', Recovering(log, rec', cache')
  PROVE  PageInv'
<1>1. DownFacts(txn, ckp) /\ DiskFacts(log, txn, ckp, disk) /\ LogFacts(log) /\ Details(log, txn)
  BY DEF PageInv
<1> QED BY <1>1, PageFacts, NextPageInv

\* The record that commits t comes behind all that tells of it.
LEMMA CommittedLater ==
  ASSUME PageInv, NEW t \in Com(log, Len(log)), NEW m \in 1..Len(log), log[m].type # "ckp", log[m].txn = t
  PROVE  \E n \in m..Len(log) : IsCommit(log, n, t) /\ (log[m].type # "regop" => m < n)
<1>1. t \in Txn /\ Len(log) \in 0..Len(log) /\ Len(log) \in Nat
  BY PageFacts, ComInTxn
<1>2. PICK n \in 1..Len(log) : IsCommit(log, n, t)
  BY <1>1, PageFacts, ComRecord
<1>3. IsRecord(log, m)
  BY DEF IsRecord
<1>4. m =< n /\ (m = n => log[m].type = "regop")
  BY <1>1, <1>2, <1>3, PageFacts, CommitIsLast
<1> QED BY <1>1, <1>2, <1>4

\* Who is committed has a record of his own.
LEMMA CommitterBegan ==
  ASSUME PageInv, NEW t \in Txn, NEW n \in 1..Len(log), IsCommit(log, n, t)
  PROVE  \E m \in 1..Len(log) : log[m].type # "ckp" /\ log[m].txn = t
<1>1. CASE log[n].type = "regop" /\ log[n].txn = t
  BY <1>1
<1>2. CASE log[n].type = "child" /\ log[n].child = t
  <2>1. PICK m \in 1..n - 1 : Starts(log[m], t)
    BY <1>2, PageFacts DEF MergedOnce
  <2>2. m \in 1..Len(log)
    BY PageFacts
  <2>3. log[m].type # "ckp" /\ log[m].txn = t
    BY <2>1 DEF Starts
  <2> QED BY <2>2, <2>3
<1> QED BY <1>1, <1>2 DEF IsCommit

\* The backward pass leaves on every page committed updates alone.
LEMMA TurnForwardGoesRight == ASSUME PageInv, TurnForward PROVE PageInv'
<1>0. /\ mode = "recovering" /\ rec.pass = "backward" /\ rec.at < rec.first
      /\ rec' = [rec EXCEPT !.pass = "forward", !.at = rec.first]
      /\ UNCHANGED <<parent, txn, log, flushed, cache, disk, ckp, mode, synced, crashes>>
  BY DEF TurnForward
<1>1. PICK r : r = rec'
  OBVIOUS
<1>2. PICK f : f = rec.first
  OBVIOUS
<1>3. r.pass = "forward" /\ r.at = f /\ r.first = f /\ r.list = rec.list
  BY <1>0, <1>1, <1>2, PageFacts DEF RecState
<1>4. /\ RecoveringFacts(log, rec) /\ BackList(log, rec) /\ BackPages(log, rec, cache)
      /\ f \in 1..Len(log) /\ f \in Nat /\ rec.at \in Nat /\ rec.at < f /\ Committers(log) \subseteq Txn
      /\ Len(log) \in Nat
  BY <1>0, <1>2, RecoveringIs, PageFacts
<1>5. RecoveringFacts(log, r)
  BY <1>2, <1>3, <1>4 DEF RecoveringFacts
<1>6. ForwardList(log, r)
  <2>1. ASSUME NEW t \in Committers(log), ~Early(log, t, f), NEW n \in f..Len(log), IsCommit(log, n, t)
        PROVE  rec.list[t] = "commit"
    <3>1. n \in rec.at + 1..Len(log) /\ n \in 1..Len(log) /\ t \in Txn
      BY <1>4
    <3>2. rec.list[t] \in {"commit", "ignore"}
      BY <1>4, <2>1, <3>1 DEF BackList
    <3>3. PICK m \in 1..Len(log) : log[m].type # "ckp" /\ log[m].txn = t
      BY <2>1, <3>1, CommitterBegan
    <3>4. rec.list[t] \in {"ok", "abort", "commit"}
      BY <1>2, <1>4, <2>1, <3>3 DEF BackList
    <3> QED BY <3>2, <3>4
  <2>2. ASSUME NEW n \in f..Len(log), log[n].type = "child", rec.list[log[n].txn] = "commit"
        PROVE  rec.list[log[n].child] # "absent"
    <3>1. n \in rec.at + 1..Len(log)
      BY <1>4
    <3> QED BY <1>4, <2>2, <3>1 DEF BackList
  <2> QED BY <1>3, <2>1, <2>2 DEF ForwardList
<1>7. ASSUME NEW p \in Page
      PROVE  /\ cache[p] \in {0} \cup ComUp(log, Len(log), p)
             /\ \A l \in ComUp(log, Len(log), p) : (l < f \/ Settled(log, log[l].txn)) => l =< cache[p]
  <2>1. PICK v \in Nat : v = cache[p]
    BY PageFacts
  <2>2. Image(log, p, v, AllSettled(log)) /\ (v > rec.at => log[v].txn \in Committers(log))
    BY <1>4, <2>1 DEF BackPages
  <2>3. PICK V \in SUBSET UpdatesOf(log, p) :
          /\ Below(V, v, Len(log) + 1)
          /\ \A l \in UpdatesOf(log, p) : log[l].txn \in AllSettled(log) => (l \in V <=> log[l].txn \in Com(log, Len(log)))
    BY <2>2 DEF Image
  <2>4. \A l \in UpdatesOf(log, p) : l \in 1..Len(log) /\ log[l].type = "update" /\ log[l].txn \in Txn
    BY PageFacts, RecordFacts DEF UpdatesOf
  <2>5. \A l \in UpdatesOf(log, p) : l < f => log[l].txn \in AllSettled(log)
    <3> SUFFICES ASSUME NEW l \in UpdatesOf(log, p), l < f PROVE log[l].txn \in AllSettled(log)
      OBVIOUS
    <3>1. Early(log, log[l].txn, f)
      BY <2>4 DEF Early
    <3> QED BY <1>2, <1>4, <2>4, <3>1 DEF RecoveringFacts, AllSettled
  <2>6. \A l \in ComUp(log, Len(log), p) : l \in UpdatesOf(log, p) /\ log[l].txn \in Com(log, Len(log))
    BY DEF ComUp
  <2>7. \A l \in UpdatesOf(log, p) : log[l].txn \in Com(log, Len(log)) => l \in ComUp(log, Len(log), p)
    BY <1>4, <2>4 DEF ComUp
  <2>8. v \in {0} \cup ComUp(log, Len(log), p)
    <3>1. v \in V \cup {0}
      BY <2>3 DEF Below
    <3>2. CASE v > rec.at
      BY <2>2, <2>7, <3>1, <3>2 DEF Committers
    <3>3. CASE ~(v > rec.at)
      BY <1>4, <2>3, <2>5, <2>7, <3>1, <3>3
    <3> QED BY <3>2, <3>3
  <2>9. ASSUME NEW l \in ComUp(log, Len(log), p), l < f \/ Settled(log, log[l].txn) PROVE l =< v
    <3>1. log[l].txn \in AllSettled(log)
      BY <2>4, <2>5, <2>6, <2>9 DEF AllSettled
    <3>2. l \in V /\ l < Len(log) + 1
      BY <1>4, <2>3, <2>4, <2>6, <3>1
    <3> QED BY <2>3, <3>2 DEF Below
  <2> QED BY <2>1, <2>8, <2>9
<1>8. ForwardPages(log, r, cache)
  BY <1>3, <1>7 DEF ForwardPages
<1>9. Recovering(log, r, cache)
  BY <1>3, <1>5, <1>6, <1>8 DEF Recovering
<1>10. Inv'
  BY TurnForwardKeeps DEF PageInv
<1>11. Recovering(log, rec', cache')
  BY <1>0, <1>1, <1>9
<1> QED BY <1>0, <1>10, <1>11, RecoveryGoesRight

\* Redo never meets a page that misses an update, and puts on every page the
\* committed updates in their order.
LEMMA ForwardGoesRight == ASSUME PageInv, Forward PROVE PageInv'
<1>0. /\ mode = "recovering" /\ rec.pass = "forward" /\ rec.at =< Len(log)
      /\ UNCHANGED <<parent, txn, log, flushed, disk, ckp, synced, crashes>>
  BY DEF Forward
<1>1. PICK l, f : l = rec.at /\ f = rec.first
  OBVIOUS
<1>2. /\ RecoveringFacts(log, rec) /\ ForwardList(log, rec) /\ ForwardPages(log, rec, cache)
      /\ f \in 1..Len(log) /\ l \in 1..Len(log) /\ l \in Nat /\ Committers(log) \subseteq Txn
      /\ Committers(log) = Com(log, Len(log)) /\ Len(log) \in Nat /\ rec.list \in [Txn -> Status]
  BY <1>0, <1>1, RecoveringIs, PageFacts
<1>3. PICK R : R = log[l]
  OBVIOUS
<1>4. /\ R \in Rec /\ R.type \in {"update", "child", "regop", "ckp"}
      /\ R.type # "ckp" => R.txn \in Txn
      /\ R.type = "update" => R.page \in Page /\ R.before \in 0..l - 1
      /\ R.type = "child" => R.child \in Txn
  BY <1>2, <1>3, PageFacts, RecordFacts
<1>5. Redone(R) => R.type # "ckp" /\ R.txn \in Txn /\ rec.list[R.txn] = "commit" /\ R.txn \in Com(log, Len(log))
  BY <1>2, <1>4 DEF Redone, RecoveringFacts
<1>6. ASSUME R.type = "update", R.txn \in Com(log, Len(log))
      PROVE  Redone(R) \/ Settled(log, R.txn)
  <2> SUFFICES ASSUME ~Settled(log, R.txn) PROVE rec.list[R.txn] = "commit"
    BY <1>6 DEF Redone
  <2>1. PICK t \in Com(log, Len(log)) : t = R.txn
    BY <1>6
  <2>2. log[l].type # "ckp" /\ log[l].txn = t
    BY <1>3, <1>6, <2>1
  <2>3. PICK n \in l..Len(log) : IsCommit(log, n, t)
    BY <1>2, <2>2, CommittedLater
  <2>4. ~Early(log, t, rec.first) /\ t \in Committers(log)
    BY <1>2, <2>1 DEF RecoveringFacts
  <2> QED BY <1>1, <1>2, <2>1, <2>3, <2>4 DEF ForwardList
<1>7. ASSUME NEW p \in Page
      PROVE  \E C \in SUBSET UpdatesOf(log, p), v \in Nat :
               /\ C = ComUp(log, Len(log), p) /\ v = cache[p] /\ C \subseteq Nat \ {0} /\ Linear(log, C)
               /\ v \in {0} \cup C /\ \A m \in C : (m < l \/ Settled(log, log[m].txn)) => m =< v
  <2>1. PICK C : C = ComUp(log, Len(log), p)
    OBVIOUS
  <2>2. C \in SUBSET UpdatesOf(log, p) /\ C \subseteq Nat \ {0} /\ Linear(log, C)
    <3>1. Linear(log, C)
      BY <2>1, PageFacts DEF CommittedLinear
    <3>2. C \in SUBSET UpdatesOf(log, p) /\ C \subseteq Nat \ {0}
      BY <2>1, PageFacts DEF ComUp, UpdatesOf
    <3> QED BY <3>1, <3>2
  <2>3. PICK v \in Nat : v = cache[p]
    BY PageFacts
  <2>4. v \in {0} \cup C /\ \A m \in C : (m < l \/ Settled(log, log[m].txn)) => m =< v
    BY <1>1, <1>2, <2>1, <2>3 DEF ForwardPages
  <2> QED BY <2>1, <2>2, <2>3, <2>4
<1>8. ASSUME R.type = "update", R.txn \in Com(log, Len(log)) PROVE l \in ComUp(log, Len(log), R.page)
  BY <1>2, <1>3, <1>8 DEF ComUp, UpdatesOf
<1>9. ~(Redone(R) /\ RollForwardFails(R))
  <2> SUFFICES ASSUME Redone(R), RollForwardFails(R) PROVE FALSE
    OBVIOUS
  <2>1. CASE R.type = "update" /\ cache[R.page] < R.before /\ cache[R.page] # 0
    <3>1. PICK p \in Page : p = R.page
      BY <1>4, <2>1
    <3>2. PICK C \in SUBSET UpdatesOf(log, p), v \in Nat :
               /\ C = ComUp(log, Len(log), p) /\ v = cache[p] /\ C \subseteq Nat \ {0} /\ Linear(log, C)
               /\ v \in {0} \cup C /\ \A m \in C : (m < l \/ Settled(log, log[m].txn)) => m =< v
      BY <1>7
    <3>3. l \in C
      BY <1>5, <1>8, <2>1, <3>1, <3>2
    <3>4. PICK b : b = R.before /\ Below(C, b, l)
      BY <1>3, <3>2, <3>3 DEF Linear
    <3>5. b \in C \cup {0} /\ b < l /\ v < b
      BY <2>1, <3>1, <3>2, <3>4 DEF Below
    <3> QED BY <3>2, <3>5
  <2>2. CASE R.type = "child" /\ rec.list[R.child] = "absent"
    <3>1. l \in rec.at..Len(log)
      BY <1>1, <1>2
    <3> QED BY <1>2, <1>3, <1>5, <2>2, <3>1 DEF ForwardList
  <2> QED BY <2>1, <2>2 DEF RollForwardFails
<1>10. RollForward(R, l) /\ UNCHANGED mode
  BY <1>1, <1>3, <1>9 DEF Forward
<1>11. PICK list : list = [t \in Txn |-> IF t \in Resolved(R) THEN "absent" ELSE rec.list[t]]
  OBVIOUS
<1>12. PICK r : r = rec'
  OBVIOUS
<1>13. r.pass = "forward" /\ r.at = l + 1 /\ r.first = f /\ r.list = list
  <2>1. PICK q \in RecState : q = rec
    BY PageFacts
  <2>2. PICK k : k = l + 1
    OBVIOUS
  <2>3. r = [q EXCEPT !.at = k, !.list = list]
    BY <1>10, <1>11, <1>12, <2>1, <2>2 DEF RollForward
  <2>4. r.pass = q.pass /\ r.at = k /\ r.first = q.first /\ r.list = list
    BY <2>3 DEF RecState
  <2> QED BY <1>0, <1>1, <2>1, <2>2, <2>4
<1>14. \A t \in Txn : t \in Resolved(R) => IsCommit(log, l, t)
  BY <1>3 DEF Resolved, IsCommit
<1>15. \A t \in Txn : \A n \in l + 1..Len(log) : IsCommit(log, n, t) => t \notin Resolved(R)
  <2> SUFFICES ASSUME NEW t \in Txn, NEW n \in l + 1..Len(log), IsCommit(log, n, t), t \in Resolved(R) PROVE FALSE
    OBVIOUS
  <2>1. IsCommit(log, l, t) /\ n \in 1..Len(log) /\ l < n
    BY <1>2, <1>14
  <2>2. IsRecord(log, n)
    BY <2>1 DEF IsRecord, IsCommit
  <2>3. n =< l
    BY <1>2, <2>1, <2>2, PageFacts, CommitIsLast
  <2> QED BY <1>2, <2>1, <2>3
<1>16. \A t \in Txn : list[t] = "commit" => rec.list[t] = "commit"
  BY <1>11
<1>17. RecoveringFacts(log, r)
  BY <1>1, <1>2, <1>13, <1>16 DEF RecoveringFacts
<1>18. ForwardList(log, r)
  <2>1. ASSUME NEW t \in Committers(log), ~Early(log, t, f), NEW n \in l + 1..Len(log), IsCommit(log, n, t)
        PROVE  list[t] = "commit"
    <3>1. n \in rec.at..Len(log) /\ t \in Txn
      BY <1>1, <1>2
    <3>2. rec.list[t] = "commit"
      BY <1>1, <1>2, <2>1, <3>1 DEF ForwardList
    <3> QED BY <1>11, <1>15, <2>1, <3>1, <3>2
  <2>2. ASSUME NEW n \in l + 1..Len(log), log[n].type = "child", list[log[n].txn] = "commit"
        PROVE  list[log[n].child] # "absent"
    <3>1. n \in rec.at..Len(log) /\ n \in 1..Len(log)
      BY <1>1, <1>2
    <3>2. log[n].txn \in Txn /\ log[n].child \in Txn
      BY <2>2, <3>1, PageFacts, RecordFacts
    <3>3. rec.list[log[n].child] # "absent"
      BY <1>2, <1>16, <2>2, <3>1, <3>2 DEF ForwardList
    <3>4. IsCommit(log, n, log[n].child)
      BY <2>2 DEF IsCommit
    <3> QED BY <1>11, <1>15, <3>2, <3>3, <3>4
  <2> QED BY <1>13, <2>1, <2>2 DEF ForwardList
<1>19. cache' = IF Redone(R) /\ R.type = "update" THEN RedoneIn(cache, l) ELSE cache
  BY <1>10 DEF RollForward
<1>20. ASSUME NEW p \in Page
       PROVE  /\ cache'[p] \in {0} \cup ComUp(log, Len(log), p)
              /\ \A m \in ComUp(log, Len(log), p) : (m < l + 1 \/ Settled(log, log[m].txn)) => m =< cache'[p]
  <2>1. PICK C \in SUBSET UpdatesOf(log, p), v \in Nat :
             /\ C = ComUp(log, Len(log), p) /\ v = cache[p] /\ C \subseteq Nat \ {0} /\ Linear(log, C)
             /\ v \in {0} \cup C /\ \A m \in C : (m < l \/ Settled(log, log[m].txn)) => m =< v
    BY <1>7
  <2>2. CASE l \notin C
    <3>1. \A m \in C : m < l + 1 => m < l
      BY <1>2, <2>1, <2>2
    <3>2. cache'[p] = v
      <4>1. Redone(R) /\ R.type = "update" => R.page # p
        BY <1>5, <1>8, <2>1, <2>2
      <4> QED BY <1>3, <1>19, <2>1, <4>1, PageFacts DEF RedoneIn
    <3> QED BY <2>1, <3>1, <3>2
  <2>3. CASE l \in C
    <3>1. R.type = "update" /\ R.page = p /\ R.txn \in Com(log, Len(log))
      BY <1>3, <2>1, <2>3 DEF ComUp, UpdatesOf
    <3>2. PICK b : b = R.before /\ Below(C, b, l)
      BY <1>3, <2>1, <2>3 DEF Linear
    <3>3. b \in C \cup {0} /\ b < l /\ \A m \in C : m < l => m =< b
      BY <3>2 DEF Below
    <3>4. b \in Nat /\ b =< v
      BY <2>1, <3>3
    <3>5. \A m \in C : m < l + 1 => m =< l
      BY <1>2, <2>1
    <3>6. CASE Redone(R) /\ v = b
      <4>1. cache'[p] = l
        BY <1>3, <1>19, <2>1, <3>1, <3>2, <3>6, PageFacts DEF RedoneIn
      <4>2. \A m \in C : Settled(log, log[m].txn) => m =< l
        BY <1>2, <2>1, <3>3, <3>4, <3>6
      <4> QED BY <2>1, <2>3, <3>5, <4>1, <4>2
    <3>7. CASE ~(Redone(R) /\ v = b)
      <4>1. cache'[p] = v
        BY <1>3, <1>19, <2>1, <3>1, <3>2, <3>7, PageFacts DEF RedoneIn
      <4>2. l =< v
        <5>1. CASE Redone(R)
          <6>1. b < v /\ v \in C
            BY <2>1, <3>4, <3>7, <5>1
          <6> QED BY <1>2, <2>1, <3>3, <3>4, <6>1
        <5>2. CASE Settled(log, R.txn)
          BY <1>3, <2>1, <2>3, <5>2
        <5> QED BY <1>6, <3>1, <5>1, <5>2
      <4>3. \A m \in C : m < l + 1 => m =< v
        BY <1>2, <2>1, <3>5, <4>2
      <4> QED BY <2>1, <4>1, <4>3
    <3> QED BY <3>6, <3>7
  <2> QED BY <2>2, <2>3
<1>21. ForwardPages(log, r, cache')
  BY <1>13, <1>20 DEF ForwardPages
<1>22. Recovering(log, r, cache')
  BY <1>13, <1>17, <1>18, <1>21 DEF Recovering
<1>23. Inv'
  BY ForwardKeeps DEF PageInv
<1> QED BY <1>0, <1>10, <1>12, <1>22, <1>23, RecoveryGoesRight

\* The checkpoint that ends recovery settles all there is: the pages show what
\* is committed, and nothing else counts.
LEMMA EndRecoveryGoesRight == ASSUME PageInv, EndRecovery PROVE PageInv'
<1>0. /\ mode = "recovering" /\ rec.pass = "forward" /\ rec.at > Len(log)
      /\ disk' = cache /\ log' = Append(log, Checkpoint(Len(log))) /\ mode' = "up"
      /\ UNCHANGED <<parent, txn, cache, ckp>>
  BY DEF EndRecovery
<1>1. /\ ForwardPages(log, rec, cache) /\ Len(log) \in Nat /\ Len(log) > 0 /\ rec.at \in Nat
      /\ DownFacts(txn, ckp) /\ ckp.st = "none"
  BY <1>0, RecoveringIs, PageFacts
<1>2. PICK r : r = Checkpoint(Len(log))
  OBVIOUS
<1>3. r \in Rec /\ r.type = "ckp" /\ r.lsn = Len(log) /\ r.lsn \in 1..Len(log)
  BY <1>1, <1>2 DEF Checkpoint, Rec
<1>4. PICK w : w = log'
  OBVIOUS
<1>5. Extends(log, w, r)
  BY <1>0, <1>1, <1>2, <1>3, <1>4, ExtendsLog DEF PageInv
<1>6. /\ Len(w) = Len(log) + 1 /\ w[Len(log) + 1] = r /\ Len(w) \in 0..Len(w)
      /\ \A i \in 1..Len(log) : i \in 1..Len(w) /\ w[i] = log[i]
      /\ \A i \in 1..Len(w) : i \in 1..Len(log) \/ i = Len(log) + 1
      /\ WellFormed(w)
  BY <1>1, <1>5, ExtendsFacts DEF Extends
<1>7. Follows(log, r)
  BY <1>3 DEF Follows
<1>8. LogFacts(w)
  BY <1>3, <1>5, <1>7, CommittedStays
<1>9. Details(w, txn) /\ SettledDone(w)
  BY <1>3, <1>5, CheckpointRest
<1>10. \A p : ComUp(w, Len(w), p) = ComUp(log, Len(log), p)
  BY <1>3, <1>5, <1>7, ComUpGrows
<1>11. ASSUME NEW p \in Page
       PROVE  /\ Linear(w, ComUp(w, Len(w), p)) /\ ComUp(w, Len(w), p) \subseteq UpdatesOf(w, p)
              /\ Below(ComUp(w, Len(w), p), cache[p], Len(w) + 1)
  <2>1. PICK C : C = ComUp(w, Len(w), p)
    OBVIOUS
  <2>2. Linear(w, C) /\ C \subseteq UpdatesOf(w, p)
    BY <1>6, <1>8, <2>1 DEF LogFacts, CommittedLinear, ComUp
  <2>3. C = ComUp(log, Len(log), p) /\ \A m \in C : m \in 1..Len(log)
    BY <1>10, <2>1 DEF ComUp, UpdatesOf
  <2>4. PICK v \in Nat : v = cache[p] /\ v =< Len(log)
    BY <1>0, PageFacts, RecoveringIs
  <2>5. v \in {0} \cup C /\ \A m \in C : m =< v
    BY <1>0, <1>1, <2>3, <2>4 DEF ForwardPages
  <2>6. Below(C, v, Len(w) + 1)
    BY <1>1, <1>6, <2>4, <2>5 DEF Below
  <2> QED BY <2>1, <2>2, <2>4, <2>6
<1>12. SettledEnded(w, txn, ckp)
  <2>1. ASSUME NEW t \in Txn, Settled(w, t) PROVE txn[Top(t)].st = "ended"
    <3>1. PICK i \in 1..Len(w) : w[i].type # "ckp" /\ Top(w[i].txn) = Top(t)
      BY <2>1 DEF Settled, Early
    <3>2. txn[Top(t)].st = "ended" \/ txn[Top(t)].begin \in 1..i
      BY <1>9, <3>1 DEF Details, Begun
    <3>3. Top(t) \in Txn
      BY PageFacts, FamilyFacts
    <3>4. txn[Top(t)].begin = 0
      BY <1>1, <3>3 DEF DownFacts
    <3> QED BY <3>2, <3>4
  <2> QED BY <1>1, <2>1 DEF SettledEnded
<1>13. ASSUME NEW p \in Page PROVE Image(w, p, cache[p], Must(w, ckp, p))
  <2>1. PICK C : C = ComUp(w, Len(w), p)
    OBVIOUS
  <2>2. Linear(w, C) /\ C \in SUBSET UpdatesOf(w, p) /\ Below(C, cache[p], Len(w) + 1)
    BY <1>11, <2>1
  <2>3. \A m \in UpdatesOf(w, p) : m \in C <=> w[m].txn \in Com(w, Len(w))
    BY <1>6, <2>1 DEF ComUp, UpdatesOf
  <2> QED BY <2>2, <2>3 DEF Image
<1>14. DiskFacts(w, txn, ckp, cache)
  BY <1>9, <1>12, <1>13 DEF DiskFacts
<1>15. PICK d : d = Chain' /\ IsChain(w, d)
  BY <1>4, <1>6, ChainIsNext
<1>16. UpFacts(w, txn, d, cache)
  <2>1. \A t \in Txn : Detail(w, txn, t)
    BY <1>9 DEF Details
  <2>2. /\ Chains(w, txn, d) /\ Apart(w, txn, d) /\ Above(w, txn, d)
        /\ \A p : Eff(w, txn, d, p) = ComUp(w, Len(w), p)
    BY <1>1, <1>6, <1>15, <2>1, DownHolds
  <2>3. CacheRight(w, txn, d, cache)
    BY <1>11, <2>2 DEF CacheRight
  <2> QED BY <2>2, <2>3 DEF UpFacts
<1>17. Inv'
  BY EndRecoveryKeeps DEF PageInv
<1> QED BY <1>0, <1>4, <1>8, <1>9, <1>14, <1>15, <1>16, <1>17, PageFacts, NextPageInv

\* The openfiles pass knows of every transaction that began behind first_lsn.
LEMMA OpenedRight ==
  ASSUME WellFormed(log), LogFacts(log), parent \in Trees
  PROVE  /\ \A t \in Txn : Opened[t] \in {"absent", "ok", "ignore"}
         /\ \A n \in 1..Len(log) :
              log[n].type # "ckp" /\ ~Early(log, log[n].txn, FirstLsn) => Opened[log[n].txn] = "ok"
<1>1. PICK N \in Nat : N = Len(log)
  BY DEF WellFormed
<1>2. PICK f : f = FirstLsn
  OBVIOUS
<1>3. PICK g : /\ g = [n \in 0..N |-> IF n = 0 THEN NoRecovery.list
                                      ELSE IF n < f THEN g[n - 1] ELSE OpenFiles(g[n - 1], log[n])]
               /\ Opened = g[N]
  BY <1>1, <1>2, OpenedIs
<1>4. N # 0 => f \in Nat
  <2>1. N # 0 => log # <<>>
    BY <1>1
  <2> QED BY <1>1, <1>2, <2>1, FirstLsnFacts
<1>5. PICK K : K = {n \in Nat : n =< N =>
        /\ g[n] \in [Txn -> {"absent", "ok", "ignore"}]
        /\ \A t \in Txn : ~Early(log, t, f) => /\ g[n][t] # "ignore"
                                               /\ \A m \in 1..n : Starts(log[m], t) => g[n][t] = "ok"}
  OBVIOUS
<1>6. 0 \in K
  <2>1. g[0] = [t \in Txn |-> "absent"]
    BY <1>3 DEF NoRecovery
  <2> QED BY <1>5, <2>1
<1>7. ASSUME NEW n \in Nat, n \in K PROVE n + 1 \in K
  <2> SUFFICES ASSUME n + 1 =< N
               PROVE  /\ g[n + 1] \in [Txn -> {"absent", "ok", "ignore"}]
                      /\ \A t \in Txn : ~Early(log, t, f) =>
                           /\ g[n + 1][t] # "ignore"
                           /\ \A m \in 1..n + 1 : Starts(log[m], t) => g[n + 1][t] = "ok"
    BY <1>5
  <2>1. PICK j : j = n + 1 /\ j \in 1..N /\ j - 1 = n /\ j \in Nat
    BY <1>1
  <2>2. PICK a : a = g[n]
    OBVIOUS
  <2>3. /\ a \in [Txn -> {"absent", "ok", "ignore"}]
        /\ \A t \in Txn : ~Early(log, t, f) => /\ a[t] # "ignore"
                                               /\ \A m \in 1..n : Starts(log[m], t) => a[t] = "ok"
    BY <1>1, <1>5, <1>7, <2>1, <2>2
  <2>4. g[j] = IF j < f THEN a ELSE OpenFiles(a, log[j])
    BY <1>3, <2>1, <2>2
  <2>5. PICK R : R = log[j]
    OBVIOUS
  <2>6. R \in Rec /\ (R.type # "ckp" => R.txn \in Txn) /\ (R.type = "child" => R.child \in Txn)
    BY <1>1, <2>1, <2>5, RecordFacts
  <2>7. \A m \in 1..n + 1 : m \in 1..n \/ m = j
    BY <2>1
  <2>8. CASE j < f
    <3>1. \A t \in Txn : Starts(R, t) => Early(log, t, f)
      BY <1>1, <2>1, <2>5, <2>8 DEF Starts, Early
    <3> QED BY <2>1, <2>3, <2>4, <2>5, <2>7, <2>8, <3>1
  <2>9. CASE ~(j < f)
    <3>1. PICK b : b = IF R.type \in {"update", "child"} /\ R.prev = 0 THEN [a EXCEPT ![R.txn] = "ok"] ELSE a
      OBVIOUS
    <3>2. /\ b \in [Txn -> {"absent", "ok", "ignore"}]
          /\ \A t \in Txn : b[t] = a[t] \/ b[t] = "ok"
          /\ \A t \in Txn : Starts(R, t) => b[t] = "ok"
      BY <2>3, <3>1 DEF Starts
    <3>3. g[j] = IF R.type = "child" /\ b[R.child] = "absent" THEN Marked(b, R.txn, "ignore") ELSE b
      BY <2>4, <2>5, <2>9, <3>1 DEF OpenFiles
    <3>4. \A t \in Txn : ~Early(log, t, f) =>
             b[t] # "ignore" /\ \A m \in 1..n + 1 : Starts(log[m], t) => b[t] = "ok"
      BY <2>3, <2>5, <2>7, <3>2
    <3>5. CASE ~(R.type = "child" /\ b[R.child] = "absent")
      BY <2>1, <3>2, <3>3, <3>4, <3>5
    <3>6. CASE R.type = "child" /\ b[R.child] = "absent"
      <4>1. PICK m \in 1..j - 1 : Starts(log[m], R.child)
        BY <1>1, <2>1, <2>5, <3>6 DEF LogFacts, MergedOnce
      <4>2. m \in 1..n + 1
        BY <2>1
      <4>3. Early(log, R.child, f)
        BY <2>6, <3>4, <3>6, <4>1, <4>2
      <4>4. Top(R.child) = Top(R.txn)
        <5>1. parent[R.child] = R.txn /\ R.txn \in Txn /\ R.child \in Txn
          BY <1>1, <2>1, <2>5, <2>6, <3>6 DEF LogFacts, MergedOnce
        <5>2. R.txn # NoTxn
          BY <5>1, RecoveryAssumption
        <5> QED BY <5>1, <5>2, FamilyFacts
      <4>5. Early(log, R.txn, f)
        BY <4>3, <4>4 DEF Early
      <4>6. g[j] = IF b[R.txn] = "ignore" THEN b ELSE [b EXCEPT ![R.txn] = "ignore"]
        BY <3>3, <3>6 DEF Marked
      <4>7. g[j] \in [Txn -> {"absent", "ok", "ignore"}] /\ \A t \in Txn : t # R.txn => g[j][t] = b[t]
        BY <3>2, <4>6
      <4>8. \A t \in Txn : ~Early(log, t, f) => g[j][t] = b[t]
        BY <4>5, <4>7
      <4> QED BY <2>1, <3>4, <4>7, <4>8
    <3> QED BY <3>5, <3>6
  <2> QED BY <2>8, <2>9
<1>8. Nat \subseteq K
  BY <1>6, <1>7, SetInduction
<1>9. /\ g[N] \in [Txn -> {"absent", "ok", "ignore"}]
      /\ \A t \in Txn : ~Early(log, t, f) => \A m \in 1..N : Starts(log[m], t) => g[N][t] = "ok"
  BY <1>1, <1>5, <1>8
<1>10. ASSUME NEW n \in 1..Len(log), log[n].type # "ckp", ~Early(log, log[n].txn, f) PROVE g[N][log[n].txn] = "ok"
  <2>1. log[n].txn \in Txn
    BY <1>10, RecordFacts
  <2>2. PICK m \in 1..n : Starts(log[m], log[n].txn)
    BY <1>10 DEF LogFacts, BegunInLog
  <2>3. m \in 1..N
    BY <1>1
  <2> QED BY <1>9, <1>10, <2>1, <2>2, <2>3
<1> QED BY <1>2, <1>3, <1>9, <1>10

\* Recovery begins: a family it looks at only in part is settled.
LEMMA StartRecoveryGoesRight == ASSUME PageInv, StartRecovery PROVE PageInv'
<1>0. mode = "down" /\ UNCHANGED <<parent, txn, log, flushed, cache, disk, ckp, synced, crashes>>
  BY DEF StartRecovery
<1>1. /\ DownFacts(txn, ckp) /\ ckp.st = "none" /\ cache = disk /\ DiskFacts(log, txn, ckp, disk)
      /\ LogFacts(log) /\ Details(log, txn) /\ WellFormed(log) /\ Len(log) \in Nat /\ parent \in Trees
  BY <1>0, PageFacts DEF PageInv, DownFacts
<1>2. ASSUME NEW p \in Page PROVE Image(log, p, cache[p], AllSettled(log))
  <2>1. Must(log, ckp, p) = AllSettled(log)
    BY <1>1 DEF Must, AllSettled
  <2> QED BY <1>1, <2>1 DEF DiskFacts
<1>3. Inv'
  BY StartRecoveryKeeps DEF PageInv
<1>4. CASE log = <<>>
  <2>1. mode' = "up" /\ Len(log) = 0
    BY <1>4 DEF StartRecovery
  <2>2. ASSUME NEW p \in Page PROVE cache[p] = 0
    <3>1. UpdatesOf(log, p) = {}
      BY <2>1 DEF UpdatesOf
    <3>2. PICK V \in SUBSET UpdatesOf(log, p) : Below(V, cache[p], Len(log) + 1)
      BY <1>2 DEF Image
    <3> QED BY <3>1, <3>2 DEF Below
  <2>3. IsChain(log, Chain) /\ \A t \in Txn : Detail(log, txn, t)
    BY <1>1, ChainIs DEF Details
  <2>4. UpFacts(log, txn, Chain, cache)
    BY <1>1, <2>1, <2>2, <2>3, EmptyRight
  <2>5. Chain' = Chain
    BY <1>0, <1>1, ChainStays
  <2> QED BY <1>0, <1>1, <1>3, <2>1, <2>4, <2>5, NextPageInv
<1>5. CASE log # <<>>
  <2>1. mode' = "recovering" /\ rec' = [pass |-> "backward", at |-> Len(log), first |-> FirstLsn, list |-> Opened]
    BY <1>5 DEF StartRecovery
  <2>2. PICK r : r = rec'
    OBVIOUS
  <2>3. r.pass = "backward" /\ r.at = Len(log) /\ r.first = FirstLsn /\ r.list = Opened
    BY <2>1, <2>2
  <2>4. /\ \A t \in Txn : Opened[t] \in {"absent", "ok", "ignore"}
        /\ \A n \in 1..Len(log) :
             log[n].type # "ckp" /\ ~Early(log, log[n].txn, FirstLsn) => Opened[log[n].txn] = "ok"
    BY <1>1, OpenedRight
  <2>5. ASSUME NEW t \in Txn, Early(log, t, FirstLsn) PROVE Settled(log, t)
    <3>1. PICK all : all = {l \in DOMAIN log : log[l].type = "ckp"}
      OBVIOUS
    <3>2. all \subseteq 1..Len(log)
      BY <1>1, <3>1 DEF WellFormed
    <3>3. CASE all = {}
      <4>1. FirstLsn = 1
        BY <3>1, <3>3 DEF FirstLsn
      <4> QED BY <2>5, <4>1 DEF Early
    <3>4. CASE all # {}
      <4>1. all \subseteq 0..Len(log)
        BY <1>1, <3>2
      <4>2. \E n \in all : \A m \in all : n >= m
        BY <1>1, <3>4, <4>1, GreatestNat
      <4>3. PICK n \in all : n = Max(all)
        BY <4>2 DEF Max
      <4>4. FirstLsn = log[n].lsn
        BY <3>1, <3>4, <4>3 DEF FirstLsn
      <4>5. n \in 1..Len(log) /\ log[n].type = "ckp"
        BY <3>1, <3>2
      <4> QED BY <2>5, <4>4, <4>5 DEF Settled
    <3> QED BY <3>3, <3>4
  <2>6. RecoveringFacts(log, r)
    BY <2>3, <2>4, <2>5 DEF RecoveringFacts
  <2>7. BackList(log, r)
    <3>1. Len(log) + 1..Len(log) = {}
      BY <1>1
    <3>2. \A t \in Txn : Opened[t] # "abort" /\ Opened[t] # "commit"
      BY <2>4
    <3> QED BY <2>3, <2>4, <3>1, <3>2 DEF BackList
  <2>8. BackPages(log, r, cache)
    <3>1. \A p \in Page : cache[p] \in Nat /\ cache[p] =< Len(log)
      BY PageFacts DEF PageInv, Inv, WriteAhead
    <3>2. \A p \in Page : ~(cache[p] > Len(log))
      BY <1>1, <3>1
    <3> QED BY <1>2, <2>3, <3>2 DEF BackPages
  <2>9. Recovering(log, r, cache)
    BY <2>3, <2>6, <2>7, <2>8 DEF Recovering
  <2> QED BY <1>0, <1>1, <1>3, <2>1, <2>2, <2>9, NextPageInv
<1> QED BY <1>4, <1>5

\* What one record of the backward pass does to the list.
LEMMA DecidedIs ==
  \A t : /\ rec.list[t] = "absent" => Decided(t) = "ignore"
         /\ rec.list[t] = "ok" => Decided(t) = "abort"
         /\ rec.list[t] # "absent" /\ rec.list[t] # "ok" => Decided(t) = rec.list[t]
<1> SUFFICES ASSUME NEW t
             PROVE  /\ rec.list[t] = "absent" => Decided(t) = "ignore"
                    /\ rec.list[t] = "ok" => Decided(t) = "abort"
                    /\ rec.list[t] # "absent" /\ rec.list[t] # "ok" => Decided(t) = rec.list[t]
  OBVIOUS
<1>1. ASSUME rec.list[t] = "absent" PROVE Decided(t) = "ignore"
  BY <1>1, Zenon DEF Decided
<1>2. ASSUME rec.list[t] = "ok" PROVE Decided(t) = "abort"
  BY <1>2, Zenon DEF Decided
<1>3. ASSUME rec.list[t] # "absent", rec.list[t] # "ok" PROVE Decided(t) = rec.list[t]
  BY <1>3, Zenon DEF Decided
<1> QED BY <1>1, <1>2, <1>3

\* The list M that record R of a backward pass makes of L.
ListStep(L, M, R) ==
    /\ M \in [Txn -> Status]
    /\ \A t \in Txn : R.type = "ckp" \/ (t # R.txn /\ (R.type = "child" => t # R.child)) => M[t] = L[t]
    /\ R.type = "regop" => M[R.txn] = IF L[R.txn] = "ignore" THEN "ignore" ELSE "commit"
    /\ R.type \in {"update", "child"} =>
         /\ L[R.txn] = "absent" => M[R.txn] = "ignore"
         /\ L[R.txn] = "ok" => M[R.txn] = "abort"
         /\ L[R.txn] \notin {"absent", "ok"} => M[R.txn] = L[R.txn]
    /\ R.type = "child" =>
         /\ L[R.txn] = "absent" => M[R.child] = L[R.child]
         /\ L[R.txn] # "absent" =>
              M[R.child] = IF L[R.child] \notin {"absent", "ok", "commit"} THEN L[R.child]
                           ELSE IF M[R.txn] \in {"commit", "ignore"} THEN M[R.txn] ELSE "abort"

LEMMA RollBackList ==
  ASSUME PageInv, Inv', NEW l \in 1..Len(log), RollBack(log[l], l)
  PROVE  /\ ListStep(rec.list, rec'.list, log[l])
         /\ rec'.pass = rec.pass /\ rec'.first = rec.first /\ rec'.at = l - 1
         /\ cache' = IF log[l].type = "update" /\ rec.list[log[l].txn] \in {"ok", "abort"} THEN UndoneIn(cache, l) ELSE cache
<1>1. PICK q \in RecState : q = rec
  BY PageFacts
<1>2. PICK L, R, n : L = rec.list /\ R = log[l] /\ n = l - 1
  OBVIOUS
<1>3. L \in [Txn -> Status] /\ q.list = L /\ rec.list = L
  BY <1>1, <1>2 DEF RecState
<1>4. /\ R.type \in {"update", "child", "regop", "ckp"}
      /\ R.type # "ckp" => R.txn \in Txn
      /\ R.type = "child" => R.child \in Txn /\ R.child # R.txn
  <2>1. /\ R.type \in {"update", "child", "regop", "ckp"}
        /\ R.type # "ckp" => R.txn \in Txn
        /\ R.type = "child" => R.child \in Txn
    BY <1>2, PageFacts, RecordFacts
  <2>2. R.type = "child" => parent[R.child] = R.txn
    BY <1>2, PageFacts DEF MergedOnce
  <2>3. R.type = "child" => R.child # R.txn
    BY <2>1, <2>2, PageFacts, FamilyFacts
  <2> QED BY <2>1, <2>3
<1>5. PICK h : h = [q EXCEPT !.at = n]
  OBVIOUS
<1>6. h = [rec EXCEPT !.at = n] /\ h \in [pass : {"none", "backward", "forward"}, at : {n}, first : Nat, list : [Txn -> Status]]
      /\ h.pass = q.pass /\ h.at = n /\ h.first = q.first /\ h.list = L
  BY <1>1, <1>3, <1>5 DEF RecState
<1>7. PICK M : M = rec'.list /\ M \in [Txn -> Status]
  BY DEF Inv, Types, RecState
<1>8. \/ /\ R.type = "ckp" /\ rec' = h /\ UNCHANGED cache
      \/ /\ R.type = "regop" /\ UNCHANGED cache
         /\ rec' = [h EXCEPT !.list = Marked(h.list, R.txn, "commit")]
      \/ /\ R.type = "update"
         /\ rec' = [h EXCEPT !.list[R.txn] = Decided(R.txn)]
         /\ cache' = IF L[R.txn] \in {"ok", "abort"} THEN UndoneIn(cache, l) ELSE cache
      \/ /\ R.type = "child" /\ L[R.txn] = "absent" /\ UNCHANGED cache
         /\ rec' = [h EXCEPT !.list[R.txn] = "ignore"]
      \/ /\ R.type = "child" /\ L[R.txn] # "absent" /\ UNCHANGED cache
         /\ rec' = [h EXCEPT !.list[R.txn] = Decided(R.txn),
                             !.list[R.child] = FateOfChild(R.child, Decided(R.txn))]
  BY <1>2, <1>3, <1>6 DEF RollBack
<1>9. R.type = "update" \/ UNCHANGED cache
  BY <1>8
<1>10. R.type = "update" => cache' = IF L[R.txn] \in {"ok", "abort"} THEN UndoneIn(cache, l) ELSE cache
  BY <1>8
<1>11. PICK D : D = Decided(R.txn)
  OBVIOUS
<1>12. /\ L[R.txn] = "absent" => D = "ignore"
       /\ L[R.txn] = "ok" => D = "abort"
       /\ L[R.txn] \notin {"absent", "ok"} => D = L[R.txn]
  BY <1>3, <1>11, DecidedIs
<1>13. rec'.pass = q.pass /\ rec'.first = q.first /\ rec'.at = n
  BY <1>6, <1>8
<1>14. ListStep(L, M, R)
  <2>1. CASE R.type = "ckp"
    <3>1. M = L
      BY <1>6, <1>7, <1>8, <2>1
    <3> QED BY <1>7, <2>1, <3>1 DEF ListStep
  <2>2. CASE R.type = "regop"
    <3>1. M = Marked(L, R.txn, "commit")
      BY <1>6, <1>7, <1>8, <2>2
    <3>2. M = IF L[R.txn] = "ignore" THEN L ELSE [L EXCEPT ![R.txn] = "commit"]
      BY <3>1 DEF Marked
    <3>3. M[R.txn] = IF L[R.txn] = "ignore" THEN "ignore" ELSE "commit"
      BY <1>3, <1>4, <2>2, <3>2
    <3>4. \A t \in Txn : t # R.txn => M[t] = L[t]
      BY <1>3, <3>2
    <3> QED BY <1>7, <2>2, <3>3, <3>4 DEF ListStep
  <2>3. CASE R.type = "update"
    <3>1. M = [L EXCEPT ![R.txn] = D]
      BY <1>6, <1>7, <1>8, <1>11, <2>3
    <3>2. M[R.txn] = D /\ \A t \in Txn : t # R.txn => M[t] = L[t]
      BY <1>3, <1>4, <2>3, <3>1
    <3> QED BY <1>7, <1>12, <2>3, <3>2 DEF ListStep
  <2>4. CASE R.type = "child" /\ L[R.txn] = "absent"
    <3>1. M = [L EXCEPT ![R.txn] = "ignore"]
      BY <1>6, <1>7, <1>8, <2>4
    <3>2. M[R.txn] = "ignore" /\ \A t \in Txn : t # R.txn => M[t] = L[t]
      BY <1>3, <1>4, <2>4, <3>1
    <3> QED BY <1>4, <1>7, <2>4, <3>2 DEF ListStep
  <2>5. CASE R.type = "child" /\ L[R.txn] # "absent"
    <3>1. PICK F : F = FateOfChild(R.child, D)
      OBVIOUS
    <3>2. M = [L EXCEPT ![R.txn] = D, ![R.child] = F]
      <4>1. rec' = [h EXCEPT !.list[R.txn] = D, !.list[R.child] = F]
        BY <1>8, <1>11, <2>5, <3>1
      <4> QED BY <1>6, <1>7, <4>1
    <3>3. M[R.txn] = D /\ M[R.child] = F /\ \A t \in Txn : t # R.txn /\ t # R.child => M[t] = L[t]
      BY <1>3, <1>4, <2>5, <3>2
    <3>4. F = IF L[R.child] \notin {"absent", "ok", "commit"} THEN L[R.child]
              ELSE IF D \in {"commit", "ignore"} THEN D ELSE "abort"
      BY <1>3, <3>1 DEF FateOfChild
    <3> QED BY <1>7, <1>12, <2>5, <3>3, <3>4 DEF ListStep
  <2> QED BY <1>4, <2>1, <2>2, <2>3, <2>4, <2>5
<1> QED BY <1>1, <1>2, <1>3, <1>7, <1>9, <1>10, <1>13, <1>14

\* The commit record of t lies behind the cursor or is the record at it.
LEMMA Undecided ==
  ASSUME PageInv, mode = "recovering", rec.pass = "backward", NEW l \in 1..Len(log), l = rec.at,
         NEW t \in Txn, IsCommit(log, l, t)
  PROVE  rec.list[t] \notin {"abort", "commit"}
<1>1. BackList(log, rec) /\ Len(log) \in Nat
  BY RecoveringIs, PageFacts
<1> SUFFICES ASSUME rec.list[t] \in {"abort", "commit"} PROVE FALSE
  OBVIOUS
<1>2. PICK n \in l + 1..Len(log) : IsCommit(log, n, t) \/ (log[n].type # "ckp" /\ log[n].txn = t)
  BY <1>1 DEF BackList
<1>3. IsRecord(log, n) /\ l < n
  BY <1>1, <1>2 DEF IsRecord, IsCommit
<1>4. n =< l
  BY <1>2, <1>3, PageFacts, CommitIsLast
<1> QED BY <1>1, <1>3, <1>4

\* Behind the record of a committed transaction its commit has been seen.
LEMMA CommitterDecided ==
  ASSUME PageInv, mode = "recovering", rec.pass = "backward", NEW l \in 1..Len(log), l = rec.at,
         log[l].type \in {"update", "child"}, NEW t \in Com(log, Len(log)), t = log[l].txn
  PROVE  rec.list[t] \in {"commit", "ignore"}
<1>1. BackList(log, rec) /\ Len(log) \in Nat /\ l \in Nat /\ t \in Committers(log)
  BY RecoveringIs, PageFacts
<1>2. log[l].type # "ckp" /\ log[l].txn = t /\ log[l].type # "regop"
  OBVIOUS
<1>3. PICK n \in l..Len(log) : IsCommit(log, n, t) /\ l < n
  BY <1>2, CommittedLater
<1>4. n \in rec.at + 1..Len(log)
  BY <1>1, <1>3
<1> QED BY <1>1, <1>3, <1>4 DEF BackList

\* What a record behind the cursor decides of the list, of committed
\* transactions and of those begun behind first_lsn.
LEMMA BackListGoesRight ==
  ASSUME PageInv, mode = "recovering", rec.pass = "backward", NEW l \in 1..Len(log), l = rec.at,
         NEW r, r.at = l - 1, r.first = rec.first, ListStep(rec.list, r.list, log[l])
  PROVE  RecoveringFacts(log, r) /\ BackList(log, r)
<1>1. PICK L, M, R, C, f : L = rec.list /\ M = r.list /\ R = log[l] /\ C = Committers(log) /\ f = rec.first
  OBVIOUS
<1>2. /\ RecoveringFacts(log, rec) /\ BackList(log, rec) /\ L \in [Txn -> Status] /\ C \subseteq Txn
      /\ C = Com(log, Len(log)) /\ Len(log) \in Nat /\ l \in Nat
  BY <1>1, RecoveringIs, PageFacts
<1>3. /\ R.type \in {"update", "child", "regop", "ckp"}
      /\ R.type # "ckp" => R.txn \in Txn
      /\ R.type = "child" => R.child \in Txn
  BY <1>1, PageFacts, RecordFacts
<1>4. R.type = "child" => (R.child \in C <=> R.txn \in C) /\ parent[R.child] = R.txn
  BY <1>1, <1>2, PageFacts, ComOfChild DEF MergedOnce
<1>5. \A t \in Txn : L[t] \in {"absent", "ok", "commit", "abort", "ignore"}
  BY <1>2 DEF Status
<1>6. /\ M \in [Txn -> Status]
      /\ \A t \in Txn : R.type = "ckp" \/ (t # R.txn /\ (R.type = "child" => t # R.child)) => M[t] = L[t]
      /\ R.type = "regop" => M[R.txn] = IF L[R.txn] = "ignore" THEN "ignore" ELSE "commit"
      /\ R.type \in {"update", "child"} =>
           /\ L[R.txn] = "absent" => M[R.txn] = "ignore"
           /\ L[R.txn] = "ok" => M[R.txn] = "abort"
           /\ L[R.txn] \notin {"absent", "ok"} => M[R.txn] = L[R.txn]
      /\ R.type = "child" =>
           /\ L[R.txn] = "absent" => M[R.child] = L[R.child]
           /\ L[R.txn] # "absent" =>
                M[R.child] = IF L[R.child] \notin {"absent", "ok", "commit"} THEN L[R.child]
                             ELSE IF M[R.txn] \in {"commit", "ignore"} THEN M[R.txn] ELSE "abort"
  BY <1>1 DEF ListStep
<1>7. R.type = "child" => L[R.child] \notin {"abort", "commit"}
  <2>1. R.type = "child" => IsCommit(log, l, R.child)
    BY <1>1 DEF IsCommit
  <2> QED BY <1>1, <1>3, <2>1, Undecided
<1>8. R.type \in {"update", "child"} /\ R.txn \in C => L[R.txn] \in {"commit", "ignore"}
  BY <1>1, <1>2, CommitterDecided
<1>9. \A t \in Txn : (L[t] # "absent" => M[t] # "absent") /\ (L[t] = "ignore" => M[t] = "ignore")
  <2> SUFFICES ASSUME NEW t \in Txn
               PROVE  (L[t] # "absent" => M[t] # "absent") /\ (L[t] = "ignore" => M[t] = "ignore")
    OBVIOUS
  <2>1. CASE M[t] = L[t]
    BY <2>1
  <2>2. CASE R.type = "regop" /\ t = R.txn
    BY <1>6, <2>2
  <2>3. CASE R.type \in {"update", "child"} /\ t = R.txn
    BY <1>6, <2>3
  <2>4. CASE R.type = "child" /\ t = R.child
    BY <1>6, <2>4
  <2> QED BY <1>3, <1>6, <2>1, <2>2, <2>3, <2>4
<1>10. \A t \in Txn : M[t] = "commit" => t \in C
  <2> SUFFICES ASSUME NEW t \in Txn, M[t] = "commit" PROVE t \in C
    OBVIOUS
  <2>1. \A u \in Txn : L[u] = "commit" => u \in C
    BY <1>1, <1>2 DEF RecoveringFacts
  <2>2. CASE R.type = "regop" /\ t = R.txn
    <3>1. t \in Regops(log, Len(log))
      BY <1>1, <2>2 DEF Regops
    <3>2. Regops(log, Len(log)) \subseteq Txn
      BY PageFacts, ComInTxn
    <3>3. Regops(log, Len(log)) \subseteq Under(log, Len(log), Regops(log, Len(log)))
      BY <3>2 DEF Under
    <3> QED BY <1>2, <3>1, <3>3 DEF Com
  <2>3. CASE R.type \in {"update", "child"} /\ t = R.txn
    <3>1. L[t] = "commit"
      BY <1>5, <1>6, <2>3
    <3> QED BY <2>1, <3>1
  <2>4. CASE R.type = "child" /\ t = R.child /\ L[t] # "commit"
    <3>1. M[R.txn] = "commit"
      BY <1>5, <1>6, <2>4
    <3>2. L[R.txn] = "commit"
      BY <1>3, <1>5, <1>6, <2>4, <3>1
    <3> QED BY <1>3, <1>4, <2>1, <2>4, <3>2
  <2> QED BY <1>3, <1>6, <2>1, <2>2, <2>3, <2>4
<1>11. RecoveringFacts(log, r)
  BY <1>1, <1>2, <1>10 DEF RecoveringFacts
<1>12. r.at + 1 = l
  BY <1>2
<1>13. ASSUME NEW t \in C, NEW n \in l..Len(log), IsCommit(log, n, t) PROVE M[t] \in {"commit", "ignore"}
  <2>0. t \in Txn
    BY <1>2
  <2>1. CASE n # l
    <3>1. n \in rec.at + 1..Len(log)
      BY <1>1, <1>2, <2>1
    <3>2. L[t] \in {"commit", "ignore"}
      BY <1>1, <1>2, <1>13, <3>1 DEF BackList
    <3>3. CASE R.type = "regop" /\ t = R.txn
      BY <1>6, <3>3
    <3>4. CASE R.type \in {"update", "child"} /\ t = R.txn
      BY <1>6, <3>2, <3>4
    <3>5. CASE R.type = "child" /\ t = R.child
      BY <1>7, <1>9, <2>0, <3>2, <3>5
    <3> QED BY <1>3, <1>6, <2>0, <3>2, <3>3, <3>4, <3>5
  <2>2. CASE n = l
    <3>1. CASE R.type = "regop" /\ t = R.txn
      BY <1>6, <3>1
    <3>2. CASE R.type = "child" /\ t = R.child
      <4>1. L[R.txn] \in {"commit", "ignore"}
        BY <1>4, <1>8, <3>2
      <4>2. M[R.txn] \in {"commit", "ignore"}
        BY <1>6, <3>2, <4>1
      <4> QED BY <1>5, <1>6, <1>7, <2>0, <3>2, <4>1, <4>2
    <3> QED BY <1>1, <1>13, <2>2, <3>1, <3>2 DEF IsCommit
  <2> QED BY <2>1, <2>2
<1>14. ASSUME NEW n \in 1..Len(log), log[n].type # "ckp", ~Early(log, log[n].txn, f)
       PROVE  M[log[n].txn] \in {"ok", "abort", "commit"}
  <2>1. PICK t \in Txn : t = log[n].txn
    BY <1>14, PageFacts, RecordFacts
  <2>2. L[t] \in {"ok", "abort", "commit"}
    BY <1>1, <1>2, <1>14, <2>1 DEF BackList
  <2>3. CASE R.type = "regop" /\ t = R.txn
    BY <1>6, <2>1, <2>2, <2>3
  <2>4. CASE R.type \in {"update", "child"} /\ t = R.txn
    BY <1>6, <2>1, <2>2, <2>4
  <2>5. CASE R.type = "child" /\ t = R.child
    <3>1. Top(R.txn) = Top(t)
      BY <1>3, <1>4, <2>5, PageFacts, FamilyFacts
    <3>2. ~Early(log, R.txn, f)
      BY <1>14, <2>1, <3>1 DEF Early
    <3>3. L[R.txn] \in {"ok", "abort", "commit"}
      BY <1>1, <1>2, <2>5, <3>2 DEF BackList
    <3>4. M[R.txn] # "ignore"
      BY <1>6, <2>5, <3>3
    <3>5. M[t] \in {"abort", "commit"}
      BY <1>6, <1>7, <2>2, <2>5, <3>3, <3>4
    <3> QED BY <2>1, <3>5
  <2> QED BY <1>3, <1>6, <2>1, <2>2, <2>3, <2>4, <2>5
<1>15. ASSUME NEW t \in Txn, M[t] \in {"abort", "commit"}
       PROVE  \E n \in l..Len(log) : IsCommit(log, n, t) \/ (log[n].type # "ckp" /\ log[n].txn = t)
  <2>1. CASE M[t] = L[t]
    <3>1. PICK n \in rec.at + 1..Len(log) : IsCommit(log, n, t) \/ (log[n].type # "ckp" /\ log[n].txn = t)
      BY <1>1, <1>2, <1>15, <2>1 DEF BackList
    <3>2. n \in l..Len(log)
      BY <1>2
    <3> QED BY <3>1, <3>2
  <2>2. CASE R.type # "ckp" /\ (t = R.txn \/ (R.type = "child" /\ t = R.child))
    <3>1. l \in l..Len(log)
      BY <1>2
    <3> QED BY <1>1, <2>2, <3>1 DEF IsCommit
  <2> QED BY <1>6, <2>1, <2>2
<1>16. ASSUME NEW n \in l..Len(log), log[n].type = "child"
       PROVE  M[log[n].txn] = "ignore" \/ (M[log[n].txn] # "absent" /\ M[log[n].child] # "absent")
  <2>0. n \in 1..Len(log)
    BY <1>2
  <2>1. log[n].txn \in Txn /\ log[n].child \in Txn
    BY <1>16, <2>0, PageFacts, RecordFacts
  <2>2. CASE n # l
    <3>1. n \in rec.at + 1..Len(log)
      BY <1>2, <2>2
    <3>2. L[log[n].txn] = "ignore" \/ (L[log[n].txn] # "absent" /\ L[log[n].child] # "absent")
      BY <1>1, <1>2, <1>16, <3>1 DEF BackList
    <3> QED BY <1>9, <2>1, <3>2
  <2>3. CASE n = l
    <3>1. CASE L[R.txn] = "absent"
      BY <1>1, <1>6, <1>16, <2>3, <3>1
    <3>2. CASE L[R.txn] # "absent"
      <4>1. M[R.txn] # "absent"
        BY <1>1, <1>9, <2>1, <2>3, <3>2
      <4>2. M[R.child] # "absent"
        BY <1>1, <1>6, <1>16, <2>3, <3>2
      <4> QED BY <1>1, <2>3, <4>1, <4>2
    <3> QED BY <3>1, <3>2
  <2> QED BY <2>2, <2>3
<1>17. BackList(log, r)
  BY <1>1, <1>12, <1>13, <1>14, <1>15, <1>16 DEF BackList
<1> QED BY <1>11, <1>17

\* Undo of a record: it was the last the page shows, and is not committed.
LEMMA BackPagesGoRight ==
  ASSUME PageInv, mode = "recovering", rec.pass = "backward", NEW l \in 1..Len(log), l = rec.at,
         NEW r, r.at = l - 1, NEW pg,
         pg = IF log[l].type = "update" /\ rec.list[log[l].txn] \in {"ok", "abort"} THEN UndoneIn(cache, l) ELSE cache
  PROVE  BackPages(log, r, pg)
<1>1. PICK L, R, C, f, F : L = rec.list /\ R = log[l] /\ C = Committers(log) /\ f = rec.first /\ F = AllSettled(log)
  OBVIOUS
<1>2. /\ RecoveringFacts(log, rec) /\ BackList(log, rec) /\ BackPages(log, rec, cache)
      /\ L \in [Txn -> Status] /\ C \subseteq Txn
      /\ C = Com(log, Len(log)) /\ Len(log) \in Nat /\ l \in Nat /\ l > 0
  BY <1>1, RecoveringIs, PageFacts
<1>3. /\ R.type # "ckp" => R.txn \in Txn
      /\ R.type = "update" => R.page \in Page /\ R.before \in 0..l - 1
  BY <1>1, PageFacts, RecordFacts
<1>4. R.type = "update" /\ R.txn \in C => L[R.txn] \in {"commit", "ignore"}
  BY <1>1, <1>2, CommitterDecided
<1>5. R.type = "update" /\ L[R.txn] \notin {"ok", "abort"} => R.txn \in C \/ R.txn \in F
  <2> SUFFICES ASSUME R.type = "update", L[R.txn] \notin {"ok", "abort"}, R.txn \notin F PROVE R.txn \in C
    OBVIOUS
  <2>1. ~Early(log, R.txn, f)
    BY <1>1, <1>2, <1>3 DEF RecoveringFacts, AllSettled
  <2>2. L[R.txn] \in {"ok", "abort", "commit"}
    BY <1>1, <1>2, <2>1 DEF BackList
  <2> QED BY <1>1, <1>2, <1>3, <2>2 DEF RecoveringFacts
<1> SUFFICES ASSUME NEW p \in Page
             PROVE  Image(log, p, pg[p], F) /\ (pg[p] > l - 1 => log[pg[p]].txn \in C)
  BY <1>1 DEF BackPages
<1>6. PICK v \in Nat : v = cache[p]
  BY PageFacts
<1>7. Image(log, p, v, F) /\ (v > l => log[v].txn \in C)
  BY <1>1, <1>2, <1>6 DEF BackPages
<1>8. PICK V \in SUBSET UpdatesOf(log, p) :
        /\ Linear(log, V) /\ Below(V, v, Len(log) + 1)
        /\ \A i \in UpdatesOf(log, p) : log[i].txn \in F => (i \in V <=> log[i].txn \in C)
  BY <1>2, <1>7 DEF Image
<1>9. v \in V \cup {0} /\ V \subseteq 1..Len(log) /\ \A m \in V : m =< v
  <2>1. v \in V \cup {0} /\ \A m \in V : m < Len(log) + 1 => m =< v
    BY <1>8 DEF Below
  <2>2. V \subseteq 1..Len(log)
    BY <1>8 DEF UpdatesOf
  <2> QED BY <1>2, <2>1, <2>2
<1>10. v = l => l \in V /\ R.type = "update" /\ R.page = p
  <2> SUFFICES ASSUME v = l PROVE l \in V /\ R.type = "update" /\ R.page = p
    OBVIOUS
  <2>1. l \in V
    BY <1>2, <1>9
  <2> QED BY <1>1, <1>8, <2>1 DEF UpdatesOf
<1>11. CASE v = l /\ L[R.txn] \in {"ok", "abort"}
  <2>1. pg[p] = R.before
    BY <1>1, <1>6, <1>10, <1>11, PageFacts DEF UndoneIn
  <2>2. PICK b : b = log[l].before /\ b \in 0..l - 1 /\ pg[p] = b
    BY <1>1, <1>3, <1>10, <1>11, <2>1
  <2>3. R.txn \notin C /\ R.txn \notin F
    BY <1>1, <1>4, <1>8, <1>10, <1>11
  <2>4. PICK D : D = V \ {l}
    OBVIOUS
  <2>5. Linear(log, D) /\ Below(D, b, Len(log) + 1)
    <3>1. l \in V /\ V \subseteq Nat \ {0} /\ (\A m \in V : m # l => m < l)
      BY <1>2, <1>9, <1>10, <1>11
    <3>2. PICK k \in Nat : k = Len(log) + 1 /\ l < k
      BY <1>2
    <3>3. Linear(log, D) /\ Below(D, log[l].before, k)
      BY <1>8, <2>4, <3>1, <3>2, LinearLess
    <3> QED BY <2>2, <3>2, <3>3
  <2>6. \A i \in UpdatesOf(log, p) : log[i].txn \in F => (i \in D <=> log[i].txn \in C)
    BY <1>1, <1>8, <2>3, <2>4
  <2>7. D \in SUBSET UpdatesOf(log, p)
    BY <1>8, <2>4
  <2>8. Image(log, p, b, F)
    BY <1>2, <2>5, <2>6, <2>7 DEF Image
  <2>9. ~(b > l - 1)
    BY <1>2, <2>2
  <2> QED BY <2>2, <2>8, <2>9
<1>12. CASE ~(v = l /\ L[R.txn] \in {"ok", "abort"})
  <2>1. pg[p] = v
    <3>1. CASE R.type = "update" /\ L[R.txn] \in {"ok", "abort"}
      <4>1. pg = UndoneIn(cache, l) /\ v # l
        BY <1>1, <1>12, <3>1
      <4>2. R.page = p => pg = cache
        BY <1>1, <1>6, <4>1 DEF UndoneIn
      <4>3. R.page # p => pg[p] = cache[p]
        BY <1>1, <4>1, PageFacts DEF UndoneIn
      <4> QED BY <1>6, <4>2, <4>3
    <3> QED BY <1>1, <1>6, <3>1
  <2>2. v = l => R.txn \in C
    <3> SUFFICES ASSUME v = l PROVE R.txn \in C
      OBVIOUS
    <3>1. R.txn \in C \/ R.txn \in F
      BY <1>5, <1>10, <1>12
    <3>2. l \in UpdatesOf(log, p) /\ l \in V
      BY <1>8, <1>10
    <3> QED BY <1>1, <1>8, <3>1, <3>2
  <2>3. v > l - 1 => log[v].txn \in C
    BY <1>1, <1>2, <1>7, <2>2
  <2> QED BY <1>7, <2>1, <2>3
<1> QED BY <1>11, <1>12

\* The backward pass never meets a second commit record.
LEMMA BackwardGoesRight == ASSUME PageInv, Backward PROVE PageInv'
<1>0. /\ mode = "recovering" /\ rec.pass = "backward" /\ rec.at >= rec.first
      /\ UNCHANGED <<parent, txn, log, flushed, disk, ckp, synced, crashes>>
  BY DEF Backward
<1>1. PICK l : l = rec.at
  OBVIOUS
<1>2. l \in 1..Len(log)
  BY <1>0, <1>1, RecoveringIs, PageFacts
<1>3. ~RollBackFails(log[l])
  <2> SUFFICES ASSUME log[l].type = "regop", rec.list[log[l].txn] \notin {"absent", "ok", "ignore"} PROVE FALSE
    BY DEF RollBackFails
  <2>1. PICK t \in Txn : t = log[l].txn /\ IsCommit(log, l, t)
    BY <1>2, PageFacts, RecordFacts DEF IsCommit
  <2>2. rec.list[t] \notin {"abort", "commit"}
    BY <1>0, <1>1, <1>2, <2>1, Undecided
  <2>3. rec.list[t] \in Status
    BY <1>0, RecoveringIs
  <2> QED BY <2>1, <2>2, <2>3 DEF Status
<1>4. RollBack(log[l], l) /\ UNCHANGED mode
  BY <1>1, <1>3 DEF Backward
<1>5. Inv'
  BY BackwardKeeps DEF PageInv
<1>6. PICK r, pg : r = rec' /\ pg = cache'
  OBVIOUS
<1>7. /\ ListStep(rec.list, r.list, log[l])
      /\ r.pass = rec.pass /\ r.first = rec.first /\ r.at = l - 1
      /\ pg = IF log[l].type = "update" /\ rec.list[log[l].txn] \in {"ok", "abort"} THEN UndoneIn(cache, l) ELSE cache
  BY <1>2, <1>4, <1>5, <1>6, RollBackList
<1>8. RecoveringFacts(log, r) /\ BackList(log, r)
  BY <1>0, <1>1, <1>2, <1>7, BackListGoesRight
<1>9. BackPages(log, r, pg)
  BY <1>0, <1>1, <1>2, <1>7, BackPagesGoRight
<1>10. r.pass = "backward" /\ "backward" # "forward"
  BY <1>0, <1>7
<1>11. Recovering(log, r, pg)
  BY <1>8, <1>9, <1>10 DEF Recovering
<1> QED BY <1>0, <1>4, <1>5, <1>6, <1>11, RecoveryGoesRight

-----------------------------------------------------------------------------
(* The invariant of pages holds *)

LEMMA InitiallyRight == Init => PageInv
<1> SUFFICES ASSUME Init PROVE PageInv
  OBVIOUS
<1>0. Inv
  BY Initially
<1>1. PICK s, x, k, c : s = log /\ x = txn /\ k = ckp /\ c = Chain
  OBVIOUS
<1>2. /\ parent \in Trees /\ mode = "up" /\ Len(s) = 0 /\ k.st = "none" /\ k.st # "syncing"
      /\ \A t \in Txn : x[t].st = "running" /\ x[t].last = 0 /\ x[t].begin = 0
      /\ \A p \in Page : cache[p] = 0 /\ disk[p] = 0
  BY <1>1 DEF Init, NoCheckpoint
<1>3. WellFormed(s) /\ IsChain(s, c)
  BY <1>0, <1>1, ChainIs DEF Inv, LogOK, WellFormed
<1>4. 1..Len(s) = {} /\ \A n \in 0..Len(s) : n = 0
  BY <1>2
<1>5. \A p : UpdatesOf(s, p) = {} /\ \A n : ComUp(s, n, p) = {}
  BY <1>4 DEF UpdatesOf, ComUp
<1>6. LogFacts(s)
  <2>1. MergedOnce(s) /\ CommittedOnce(s) /\ BegunInLog(s)
    BY <1>4 DEF MergedOnce, CommittedOnce, BegunInLog
  <2>2. CommittedLinear(s)
    BY <1>5 DEF CommittedLinear, Linear
  <2> QED BY <2>1, <2>2 DEF LogFacts
<1>7. Details(s, x)
  <2>1. \A t \in Txn : Detail(s, x, t)
    BY <1>2, <1>4 DEF Detail
  <2>2. Begun(s, x)
    BY <1>4 DEF Begun
  <2> QED BY <2>1, <2>2 DEF Details
<1>8. DownFacts(x, k)
  BY <1>2 DEF DownFacts
<1>9. UpFacts(s, x, c, cache)
  BY <1>2, <1>3, <1>7, <1>8, EmptyRight DEF Details
<1>10. DiskFacts(s, x, k, disk)
  <2>1. SettledDone(s)
    BY <1>4 DEF SettledDone
  <2>2. SettledEnded(s, x, k)
    BY <1>2, <1>4 DEF SettledEnded, Settled
  <2>3. ASSUME NEW p \in Page PROVE Image(s, p, disk[p], Must(s, k, p))
    <3>1. Linear(s, {}) /\ Below({}, disk[p], Len(s) + 1)
      BY <1>2 DEF Linear, Below
    <3> QED BY <1>5, <3>1 DEF Image
  <2> QED BY <2>1, <2>2, <2>3 DEF DiskFacts
<1> QED BY <1>0, <1>1, <1>2, <1>6, <1>7, <1>9, <1>10 DEF PageInv

LEMMA StutterGoesRight == ASSUME PageInv, UNCHANGED vars PROVE PageInv'
<1>1. UNCHANGED <<parent, txn, log, flushed, cache, disk, ckp, mode, rec, synced, crashes>>
  BY DEF vars
<1>2. Inv'
  BY StepKeeps DEF PageInv
<1>3. PICK c : c = Chain /\ c = Chain'
  BY <1>1, PageFacts, ChainStays
<1> QED BY <1>1, <1>2, <1>3, PageFacts, NextPageInv DEF PageInv

LEMMA StepGoesRight == ASSUME PageInv, [Next]_vars PROVE PageInv'
<1>1. CASE UNCHANGED vars
  BY <1>1, StutterGoesRight
<1>2. CASE \E t \in Txn, p \in Page : Change(t, p)
  BY <1>2, ChangeGoesRight
<1>3. CASE \E t \in Txn : CommitChild(t)
  BY <1>3, CommitChildGoesRight
<1>4. CASE \E t \in Txn, sync \in BOOLEAN : CommitTop(t, sync)
  BY <1>4, CommitTopGoesRight
<1>5. CASE \E t \in Txn : CommitEnds(t) \/ AbortEnds(t)
  BY <1>5, EndsGoRight
<1>6. CASE \E t \in Txn : Abort(t)
  BY <1>6, AbortGoesRight
<1>7. CASE \E t \in Txn : UndoOne(t)
  BY <1>7, UndoOneGoesRight
<1>8. CASE \E p \in Page : WritePage(p)
  BY <1>8, WritePageGoesRight
<1>9. CASE StartCheckpoint \/ GetActive \/ EndCheckpoint
  BY <1>9, StartCheckpointGoesRight, GetActiveGoesRight, EndCheckpointGoesRight
<1>10. CASE \E n \in 0 .. Len(log) : Crash(n)
  BY <1>10, CrashGoesRight
<1>11. CASE RecoveryStep
  BY <1>11, StartRecoveryGoesRight, BackwardGoesRight, TurnForwardGoesRight, ForwardGoesRight, EndRecoveryGoesRight
     DEF RecoveryStep
<1> QED BY <1>1, <1>2, <1>3, <1>4, <1>5, <1>6, <1>7, <1>8, <1>9, <1>10, <1>11 DEF Next

(* The second inductive invariant: what the log, the pages on disk, those in *)
(* the cache and recovery's list say of each other in every mode.            *)
THEOREM PageInvariance == Spec => []PageInv
<1>1. Init => PageInv
  BY InitiallyRight
<1>2. PageInv /\ [Next]_vars => PageInv'
  BY StepGoesRight
<1> QED BY <1>1, <1>2, PTL DEF Spec

-----------------------------------------------------------------------------
(* What follows of it *)

\* The model's function Committed, and the set the invariant speaks of.
SaysCommitted(g, t) ==
    \E l \in DOMAIN log :
        \/ log[l].type = "regop" /\ log[l].txn = t
        \/ log[l].type = "child" /\ log[l].child = t /\ g[log[l].txn]

IsCommitted(g) == g = [t \in Txn |-> SaysCommitted(g, t)]

LEMMA CommittedOnly ==
  ASSUME PageInv, NEW g, IsCommitted(g), NEW t \in Txn
  PROVE  g[t] <=> t \in Com(log, Len(log))
<1>1. PICK C, N : C = Com(log, Len(log)) /\ N = Len(log)
  OBVIOUS
<1>2. DOMAIN log = 1..N /\ N \in 0..Len(log) /\ WellFormed(log) /\ parent \in Trees
  BY <1>1, PageFacts DEF WellFormed
<1>3. \A u \in Txn : g[u] <=> \E l \in 1..N : \/ log[l].type = "regop" /\ log[l].txn = u
                                              \/ log[l].type = "child" /\ log[l].child = u /\ g[log[l].txn]
  BY <1>2, Zenon DEF IsCommitted, SaysCommitted
<1>4. \A l \in 1..N : log[l].type = "child" => /\ log[l].txn \in Txn /\ log[l].child \in Txn
                                               /\ parent[log[l].child] = log[l].txn
                                               /\ log[l].child \in C <=> log[l].txn \in C
  BY <1>1, <1>2, PageFacts, RecordFacts, ComOfChild DEF MergedOnce
<1>5. PICK S : S = {u \in Txn : g[u]}
  OBVIOUS
<1>6. Regops(log, N) \subseteq S
  BY <1>3, <1>5, Zenon DEF Regops
<1>7. Closed(log, N, S)
  <2> SUFFICES ASSUME NEW l \in 1..N, log[l].type = "child", log[l].txn \in S PROVE log[l].child \in S
    BY DEF Closed
  <2>1. g[log[l].txn] /\ log[l].child \in Txn
    BY <1>4, <1>5, Zenon
  <2>2. g[log[l].child]
    BY <1>3, <2>1, Zenon
  <2> QED BY <1>5, <2>1, <2>2, Zenon
<1>8. C \subseteq S
  <2>1. Regops(log, N) \subseteq Txn /\ S \in SUBSET Txn
    BY <1>5 DEF Regops
  <2> QED BY <1>1, <1>2, <1>6, <1>7, <2>1, UnderFacts DEF Com
<1>9. PICK G : G = {u \in Txn : u \in S => u \in C}
  OBVIOUS
<1>10. ASSUME NEW u \in Txn, parent[u] # NoTxn => parent[u] \in G PROVE u \in G
  <2> SUFFICES ASSUME u \in S PROVE u \in C
    BY <1>9
  <2>1. g[u]
    BY <1>5, Zenon
  <2>2. PICK l \in 1..N : \/ log[l].type = "regop" /\ log[l].txn = u
                          \/ log[l].type = "child" /\ log[l].child = u /\ g[log[l].txn]
    BY <1>3, <2>1, Zenon
  <2>3. CASE log[l].type = "regop" /\ log[l].txn = u
    <3>1. u \in Regops(log, N) /\ Regops(log, N) \subseteq Txn
      BY <2>3 DEF Regops
    <3> QED BY <1>1, <1>2, <3>1, UnderFacts DEF Com
  <2>4. CASE log[l].type = "child" /\ log[l].child = u /\ g[log[l].txn]
    <3>1. log[l].txn \in S
      BY <1>4, <1>5, <2>4, Zenon
    <3>2. log[l].txn \in Txn /\ parent[u] = log[l].txn
      BY <1>4, <2>4
    <3>3. log[l].txn \in G
      BY <1>10, <3>2, RecoveryAssumption
    <3>4. log[l].txn \in C
      BY <1>9, <3>1, <3>3
    <3> QED BY <1>4, <2>4, <3>4
  <2> QED BY <2>2, <2>3, <2>4
<1>11. Txn \subseteq G
  BY <1>2, <1>10, FamilyInduction
<1>12. t \in S <=> t \in C
  BY <1>8, <1>9, <1>11
<1> QED BY <1>1, <1>5, <1>12, Zenon

LEMMA CommittedIs ==
  ASSUME PageInv, NEW t \in Txn
  PROVE  Committed[t] <=> t \in Com(log, Len(log))
<1>1. PICK C, N : C = Com(log, Len(log)) /\ N = Len(log)
  OBVIOUS
<1>2. DOMAIN log = 1..N /\ N \in 0..Len(log) /\ WellFormed(log) /\ parent \in Trees
  BY <1>1, PageFacts DEF WellFormed
<1>3. PICK g : g = [u \in Txn |-> u \in C]
  OBVIOUS
<1>4. \A l \in 1..N : log[l].type = "child" => log[l].txn \in Txn /\ (log[l].child \in C <=> log[l].txn \in C)
  BY <1>1, <1>2, PageFacts, RecordFacts, ComOfChild
<1>5. ASSUME NEW u \in Txn
      PROVE  u \in C <=> \E l \in 1..N : \/ log[l].type = "regop" /\ log[l].txn = u
                                         \/ log[l].type = "child" /\ log[l].child = u /\ log[l].txn \in C
  <2>1. ASSUME u \in C
        PROVE  \E l \in 1..N : \/ log[l].type = "regop" /\ log[l].txn = u
                               \/ log[l].type = "child" /\ log[l].child = u /\ log[l].txn \in C
    <3>1. PICK l \in 1..N : IsCommit(log, l, u) /\ (log[l].type = "child" => log[l].txn \in C)
      BY <1>1, <1>2, <2>1, ComRecord
    <3> QED BY <3>1 DEF IsCommit
  <2>2. ASSUME NEW l \in 1..N, log[l].type = "regop", log[l].txn = u PROVE u \in C
    <3>1. u \in Regops(log, N) /\ Regops(log, N) \subseteq Txn
      BY <2>2 DEF Regops
    <3> QED BY <1>1, <1>2, <3>1, UnderFacts DEF Com
  <2> QED BY <1>4, <2>1, <2>2
<1>6. \A u \in Txn : g[u] <=> u \in C
  BY <1>3, Zenon
<1>7. \A u \in Txn : u \in C <=> SaysCommitted(g, u)
  BY <1>2, <1>4, <1>5, <1>6, Zenon DEF SaysCommitted
<1>8. ASSUME NEW u \in Txn PROVE g[u] = SaysCommitted(g, u)
  <2>1. (u \in C) \in BOOLEAN
    BY SMT
  <2>2. PICK q \in BOOLEAN : q = (u \in C)
    BY <2>1
  <2>3. SaysCommitted(g, u) <=> q
    BY <1>7, <2>2, Zenon
  <2>4. SaysCommitted(g, u) = q
    BY <2>3 DEF SaysCommitted
  <2>5. g[u] = q
    BY <1>3, <2>2, Zenon
  <2> QED BY <2>4, <2>5, Zenon
<1>9. IsCommitted(g)
  <2>1. g = [u \in Txn |-> g[u]]
    BY <1>3, Zenon
  <2> QED BY <1>8, <2>1, Zenon DEF IsCommitted
<1>10. \E h : IsCommitted(h) /\ Committed = h
  BY <1>9, Zenon DEF Committed, IsCommitted, SaysCommitted
<1> QED BY <1>10, CommittedOnly

\* What counts for a page, in the words of the model.
LEMMA EffectiveIs ==
  ASSUME PageInv, mode = "up", NEW p \in Page
  PROVE  Effective(p) = Eff(log, txn, Chain, p)
<1>1. \A l \in UpdatesOf(log, p) : log[l].txn \in Txn
  BY PageFacts, RecordFacts DEF UpdatesOf
<1>2. DOMAIN log = 1..Len(log) /\ Len(log) \in 0..Len(log) /\ WellFormed(log)
  BY PageFacts DEF WellFormed
<1>3. Effective(p) = {l \in UpdatesOf(log, p) : Committed[log[l].txn] \/ \E t \in Active : l \in Held(t)}
  BY <1>2, Zenon DEF Effective, UpdatesOf
<1>4. \A t \in Holders(txn) : t \in Active /\ Held(t) = Holds(txn, Chain, t)
  BY DEF Holders, Active, Held, Holds
<1>5. ASSUME NEW t \in Active, t \notin Holders(txn), NEW l \in UpdatesOf(log, p), l \in Held(t)
      PROVE  log[l].txn \in Com(log, Len(log))
  <2>1. t \in Txn /\ txn[t].st = "committing"
    BY <1>5 DEF Active, Holders
  <2>2. l \in Own(log, t)
    BY <1>5, <2>1 DEF Held, PageInv, UpFacts, Chains
  <2>3. PICK X, Y : X = {t} /\ Y = Regops(log, Len(log))
    OBVIOUS
  <2>4. X \subseteq Y /\ Y \subseteq Txn
    BY <2>1, <2>3, PageFacts DEF Detail, Regops
  <2>5. log[l].txn \in Under(log, Len(log), X)
    BY <2>2, <2>3 DEF Own
  <2>6. Under(log, Len(log), X) \subseteq Under(log, Len(log), Y)
    <3>1. X \subseteq Under(log, Len(log), Y) /\ Closed(log, Len(log), Under(log, Len(log), Y))
          /\ Under(log, Len(log), Y) \in SUBSET Txn
      BY <1>2, <2>4, UnderFacts
    <3> QED BY <1>2, <2>4, <3>1, UnderFacts
  <2> QED BY <2>3, <2>5, <2>6 DEF Com
<1>6. ASSUME NEW l \in UpdatesOf(log, p)
      PROVE  (Committed[log[l].txn] \/ \E t \in Active : l \in Held(t))
               <=> (log[l].txn \in Com(log, Len(log)) \/ \E t \in Holders(txn) : l \in Holds(txn, Chain, t))
  <2>1. Committed[log[l].txn] <=> log[l].txn \in Com(log, Len(log))
    BY <1>1, CommittedIs
  <2> QED BY <1>4, <1>5, <2>1, Zenon
<1> QED BY <1>3, <1>6, Zenon DEF Eff

LEMMA MaxIs ==
  ASSUME NEW S, NEW x \in S, S \subseteq Nat, \A y \in S : y =< x
  PROVE  Max(S) = x
<1>1. \A y \in S : (\A z \in S : y >= z) <=> y = x
  OBVIOUS
<1> QED BY <1>1, Zenon DEF Max

(* Atomicity over crashes: whenever the system is up each page shows the     *)
(* last of the updates of committed and of running transactions, whatever    *)
(* was on disk at a crash, however much of the log survived it and however   *)
(* often recovery was itself interrupted.                                    *)
THEOREM PagesRightHolds == Spec => []PagesRight
<1>1. PageInv => PagesRight
  <2> SUFFICES ASSUME PageInv, mode = "up", NEW p \in Page PROVE cache[p] = Max({0} \cup Effective(p))
    BY DEF PagesRight
  <2>1. PICK E, v : E = Effective(p) /\ v = cache[p]
    OBVIOUS
  <2>2. E = Eff(log, txn, Chain, p)
    BY <2>1, EffectiveIs
  <2>3. Below(E, v, Len(log) + 1)
    BY <2>1, <2>2 DEF PageInv, UpFacts, CacheRight
  <2>4. E \subseteq 1..Len(log) /\ Len(log) \in Nat
    BY <2>2, PageFacts DEF Eff, UpdatesOf
  <2>5. v \in {0} \cup E /\ {0} \cup E \subseteq Nat /\ \A y \in {0} \cup E : y =< v
    BY <2>3, <2>4 DEF Below
  <2> QED BY <2>1, <2>5, MaxIs
<1> QED BY <1>1, PageInvariance, PTL

(* Recovery never meets a page that misses an update, a second commit record *)
(* or a child it does not know of (txn_rec.c, log.h).                        *)
THEOREM RecoveryNeverFailsHolds == Spec => []RecoveryNeverFails
<1>1. PageInv => RecoveryNeverFails
  BY DEF PageInv, RecoveryNeverFails
<1> QED BY <1>1, PageInvariance, PTL

=============================================================================
