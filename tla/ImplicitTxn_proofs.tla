------------------------- MODULE ImplicitTxn_proofs -------------------------
(***************************************************************************)
(* What holds of the implicit transactions for any number of databases and *)
(* Transaction objects, whatever the application does and whether or not   *)
(* commits fail: the properties of the run "implicit_any".                 *)
(***************************************************************************)
EXTENDS ImplicitTxn, TLAPS

\* A Transaction that has not been constructed is known to nobody.
UnbornUnknown ==
    \A t \in Trans : obj[t] = "unborn" =>
        /\ txn[t] = "none"
        /\ ~Referenced(t, implicit, held)
        /\ \A d \in Db : <<t, d>> \notin handlers

\* close() leaves no implicit transaction behind.
ClosedHasNone == \A d \in Db : db[d] = "closed" => implicit[d] = NoTrans

\* The inductive invariant: the handlers alone do not say that a database that
\* was closed, or an object that was never constructed, plays no part.
Inv ==
    /\ TypeOK
    /\ UnbornUnknown
    /\ ClosedHasNone
    /\ HandlersMatchImplicit
    /\ NothingLost

\* The part of Inv that the references and the signals can break.
Links == UnbornUnknown /\ HandlersMatchImplicit /\ NothingLost

\* The part of TypeOK that ending a DB_TXN touches.
LinkTypes ==
    /\ obj \in [Trans -> {"unborn", "live", "leaked", "deleted"}]
    /\ mtxn \in [Trans -> BOOLEAN]
    /\ txn \in [Trans -> {"none", "running", "committed", "aborted"}]
    /\ implicit \in [Db -> Trans \cup {NullTrans, NoTrans}]
    /\ handlers \subseteq (Trans \cup {NullTrans}) \X Db
    /\ signal \in [arg : BOOLEAN, ok : BOOLEAN]

\* What setImplicitTransaction( new ) is called with: obj, mtxn and txn as they
\* are, or as they are once new has been constructed.
Ready(new, ob, mt, tx) ==
    /\ new \in Trans \cup {NullTrans, NoTrans}
    /\ ob \in [Trans -> {"unborn", "live", "leaked", "deleted"}]
    /\ mt \in [Trans -> BOOLEAN]
    /\ tx \in [Trans -> {"none", "running", "committed", "aborted"}]
    /\ \A u \in Trans : u # new => ob[u] = obj[u] /\ mt[u] = mtxn[u] /\ tx[u] = txn[u]
    /\ new \in Trans =>
         /\ ob[new] # "unborn"
         /\ tx[new] = "running" => ob[new] = "live" /\ mt[new]
         /\ \/ tx[new] = txn[new] /\ mt[new] = mtxn[new]
            \/ obj[new] = "unborn" /\ tx[new] = "running"

-----------------------------------------------------------------------------
\* Ending t's family starts nothing and keeps the types.
LEMMA EndedFacts ==
  ASSUME NEW t \in Trans, NEW kept \in SUBSET Family(t),
         NEW tx \in [Trans -> {"none", "running", "committed", "aborted"}]
  PROVE  /\ Ended(tx, t, kept) \in [Trans -> {"none", "running", "committed", "aborted"}]
         /\ \A u \in Trans : Ended(tx, t, kept)[u] = "running"
                               => u \notin Family(t) /\ tx[u] = "running"
         /\ \A u \in Trans : u \notin Family(t) => Ended(tx, t, kept)[u] = tx[u]
BY DEF Ended, Family

\* A family consists of its root and of running transactions.
LEMMA FamilyFacts ==
  ASSUME NEW t \in Trans
  PROVE  /\ t \in Family(t)
         /\ \A u \in Family(t) : u \in Trans /\ (u = t \/ Running(u))
BY DEF Family

\* What survives of a family is a part of it.
LEMMA KeptFacts ==
  ASSUME NEW t \in Trans
  PROVE  PossiblyKept(t) \subseteq SUBSET Family(t)
BY DEF PossiblyKept

\* The emission of a running transaction clears exactly the databases in which
\* it is implicit.
LEMMA ClearedFacts ==
  ASSUME Inv, NEW t \in Trans, Running(t)
  PROVE  /\ Cleared(t) \in [Db -> Trans \cup {NullTrans, NoTrans}]
         /\ \A d \in Db : Cleared(t)[d] = IF implicit[d] = t THEN NoTrans ELSE implicit[d]
BY DEF Inv, TypeOK, HandlersMatchImplicit, Cleared, Connected

-----------------------------------------------------------------------------
\* Replacing an implicit transaction that has nothing to commit.
LEMMA InstallOverNoneLinks ==
  ASSUME Inv, NEW d \in Db, NEW new, NEW ob, NEW mt, NEW tx,
         Ready(new, ob, mt, tx), InstallOverNone(d, new, ob, mt, tx, held),
         held' = held
  PROVE  Links' /\ LinkTypes' /\ implicit' = [implicit EXCEPT ![d] = new]
<1> DEFINE old == implicit[d]
<1>1. ~(old \in Trans /\ Running(old))
  BY DEF InstallOverNone, NeedsCommit, Inv, NothingLost
<1>2. implicit' = [implicit EXCEPT ![d] = new] /\ txn' = tx /\ mtxn' = mt
      /\ handlers' = Connect(new, d) /\ signal' = signal
  BY DEF InstallOverNone
<1>3. \A u \in Trans : obj'[u] = IF u = old THEN Released(old, implicit', held, FALSE)
                                 ELSE ob[u]
  BY DEF InstallOverNone, Ready
<1>4. LinkTypes'
  BY <1>2, NullAssumption DEF Inv, TypeOK, LinkTypes, Ready, Connect,
     InstallOverNone, Released
<1>5. \A u \in Trans : Running(u)' => u # old
  <2> SUFFICES ASSUME NEW u \in Trans, Running(u)', u = old PROVE FALSE
    OBVIOUS
  <2>1. tx[u] = "running" /\ ~Running(u)
    BY <1>1, <1>2 DEF Running
  <2>2. u = new /\ obj[u] = "unborn"
    BY <2>1 DEF Ready, Running
  <2> QED BY <2>2 DEF Inv, UnbornUnknown, Referenced
<1>6. \A u \in Trans : Running(u)' =>
         \/ u # new /\ Running(u)
         \/ u = new /\ Running(u) /\ tx[u] = txn[u]
         \/ u = new /\ obj[u] = "unborn"
  BY <1>2 DEF Ready, Running
<1>7. UnbornUnknown'
  <2> SUFFICES ASSUME NEW u \in Trans, (obj[u] = "unborn")'
               PROVE  /\ txn'[u] = "none"
                      /\ ~Referenced(u, implicit', held')
                      /\ \A e \in Db : <<u, e>> \notin handlers'
    BY DEF UnbornUnknown
  <2>1. u # old /\ ob[u] = "unborn" /\ u # new /\ obj[u] = "unborn" /\ tx[u] = txn[u]
    BY <1>3 DEF Released, Ready
  <2> QED BY <2>1, <1>2 DEF Inv, UnbornUnknown, Referenced, Connect, TypeOK
<1>8. HandlersMatchImplicit'
  <2> SUFFICES ASSUME NEW u \in Trans, NEW e \in Db, Running(u)'
               PROVE  <<u, e>> \in handlers' <=> implicit'[e] = u
    BY DEF HandlersMatchImplicit
  <2>1. <<u, e>> \in handlers' <=> <<u, e>> \in handlers \/ (u = new /\ e = d)
    BY <1>2, NullAssumption DEF Connect
  <2>2. implicit'[e] = IF e = d THEN new ELSE implicit[e]
    BY <1>2 DEF Inv, TypeOK
  <2>3. <<u, e>> \in handlers <=> implicit[e] = u
    BY <1>6 DEF Inv, HandlersMatchImplicit, UnbornUnknown, Referenced
  <2> QED BY <2>1, <2>2, <2>3, <1>5
<1>9. NothingLost'
  <2> SUFFICES ASSUME NEW u \in Trans, Running(u)'
               PROVE  (obj[u] = "live" /\ mtxn[u] /\ Referenced(u, implicit, held))'
    BY DEF NothingLost
  <2>1. obj'[u] = ob[u] /\ mtxn'[u] = mt[u] /\ tx[u] = "running"
    BY <1>2, <1>3, <1>5 DEF Running
  <2>2. CASE u = new
    BY <2>1, <2>2, <1>2 DEF Ready, Referenced, Inv, TypeOK
  <2>3. CASE u # new
    <3>1. Running(u) /\ ob[u] = obj[u] /\ mt[u] = mtxn[u]
      BY <2>1, <2>3 DEF Ready, Running
    <3>2. Referenced(u, implicit, held)
      BY <3>1 DEF Inv, NothingLost
    <3>3. Referenced(u, implicit', held')
      BY <3>2, <1>2, <1>5, held' = held DEF Referenced, Inv, TypeOK
    <3> QED BY <2>1, <3>1, <3>3 DEF Inv, NothingLost
  <2> QED BY <2>2, <2>3
<1> QED BY <1>2, <1>4, <1>7, <1>8, <1>9 DEF Links

\* The steps in which a running transaction t emits its signal: what they do to
\* every other transaction and to the databases.
Emission(t, hold) ==
    /\ Running(t)
    /\ \E kept \in SUBSET Family(t) : txn' = Ended(txn, t, kept)
    /\ implicit' = Cleared(t)
    /\ \A u \in Trans : u # t => obj'[u] = obj[u] /\ mtxn'[u] = mtxn[u]
    /\ obj'[t] # "unborn"
    /\ \A u \in Trans : u # t /\ u \in held => u \in hold
    /\ hold \subseteq held
    /\ held' = hold
    /\ handlers' = handlers

\* An emission preserves the links between objects, handlers and databases.
LEMMA EmissionLinks ==
  ASSUME Inv, NEW t \in Trans, NEW hold, Emission(t, hold)
  PROVE  Links'
<1>1. /\ \A u \in Trans : Running(u)' => u # t /\ Running(u)
      /\ \A u \in Trans : u # t /\ ~Running(u) => txn'[u] = txn[u]
  <2>1. PICK kept \in SUBSET Family(t) : txn' = Ended(txn, t, kept)
    BY DEF Emission
  <2>2. txn \in [Trans -> {"none", "running", "committed", "aborted"}]
    BY DEF Inv, TypeOK
  <2> QED BY <2>1, <2>2 DEF Running, Ended, Family
<1>2. \A d \in Db : implicit'[d] = IF implicit[d] = t THEN NoTrans ELSE implicit[d]
  BY ClearedFacts DEF Emission
<1>3. UnbornUnknown'
  <2> SUFFICES ASSUME NEW u \in Trans, (obj[u] = "unborn")'
               PROVE  /\ txn'[u] = "none"
                      /\ ~Referenced(u, implicit', held')
                      /\ \A e \in Db : <<u, e>> \notin handlers'
    BY DEF UnbornUnknown
  <2>1. u # t /\ obj[u] = "unborn"
    BY DEF Emission
  <2>2. txn[u] = "none" /\ ~Referenced(u, implicit, held)
        /\ \A e \in Db : <<u, e>> \notin handlers
    BY <2>1 DEF Inv, UnbornUnknown
  <2> QED BY <2>1, <2>2, <1>1, <1>2, NullAssumption DEF Running, Referenced, Emission
<1>4. HandlersMatchImplicit'
  BY <1>1, <1>2, NullAssumption DEF Inv, HandlersMatchImplicit, Emission
<1>5. NothingLost'
  BY <1>1, <1>2 DEF Inv, NothingLost, Referenced, Emission
<1> QED BY <1>3, <1>4, <1>5 DEF Links

\* Replacing an implicit transaction that is committed on the way.
LEMMA InstallOverOldLinks ==
  ASSUME Inv, NEW d \in Db, NEW new, NEW ob, NEW mt, NEW tx,
         Ready(new, ob, mt, tx), InstallOverOld(d, new, ob, mt, tx, held),
         held' = held
  PROVE  /\ Links' /\ LinkTypes'
         /\ implicit' = [Cleared(implicit[d]) EXCEPT ![d] = new]
<1> DEFINE old == implicit[d]
<1>1. old \in Trans /\ Running(old) /\ obj[old] # "unborn"
  BY DEF InstallOverOld, NeedsCommit, Inv, NothingLost
<1>2. PICK kept \in SUBSET Family(old) : EndTxn(old, kept, TRUE, tx, mt)
  BY <1>1, KeptFacts DEF InstallOverOld
<1>3. /\ implicit' = [Cleared(old) EXCEPT ![d] = new]
      /\ handlers' = Connect(new, d)
      /\ obj' = [ob EXCEPT ![old] = Released(old, implicit', held, TRUE)]
      /\ txn' = Ended(tx, old, kept)
      /\ mtxn' = [mt EXCEPT ![old] = FALSE]
  BY <1>2 DEF InstallOverOld, EndTxn
<1>4. \A e \in Db : implicit'[e] = IF e = d THEN new
                                    ELSE IF implicit[e] = old THEN NoTrans ELSE implicit[e]
  BY <1>1, <1>3, ClearedFacts
<1>5. LinkTypes'
  <2>1. txn' \in [Trans -> {"none", "running", "committed", "aborted"}]
    BY <1>1, <1>3, EndedFacts DEF Ready
  <2>2. implicit' \in [Db -> Trans \cup {NullTrans, NoTrans}]
    BY <1>1, <1>3, ClearedFacts DEF Ready
  <2>3. handlers' \subseteq (Trans \cup {NullTrans}) \X Db
    BY <1>3, NullAssumption DEF Connect, Ready, Inv, TypeOK
  <2>4. obj' \in [Trans -> {"unborn", "live", "leaked", "deleted"}]
        /\ mtxn' \in [Trans -> BOOLEAN]
    BY <1>1, <1>3 DEF Ready, Released
  <2>5. signal' \in [arg : BOOLEAN, ok : BOOLEAN]
    BY <1>2 DEF EndTxn
  <2> QED BY <2>1, <2>2, <2>3, <2>4, <2>5 DEF LinkTypes
<1>6. \A u \in Trans : u # old => obj'[u] = ob[u] /\ mtxn'[u] = mt[u]
  BY <1>3 DEF Ready
<1>7. \A u \in Trans : Running(u)' => u # old /\ tx[u] = "running"
  BY <1>1, <1>3 DEF Ready, Running, Ended, Family
<1>8. \A u \in Trans : u # old /\ ~Running(u) => txn'[u] = tx[u]
  BY <1>1, <1>3 DEF Ready, Running, Ended, Family
<1>9. \A u \in Trans : Running(u)' => Running(u) \/ (u = new /\ obj[u] = "unborn")
  BY <1>7 DEF Ready, Running
<1>10. UnbornUnknown'
  <2> SUFFICES ASSUME NEW u \in Trans, (obj[u] = "unborn")'
               PROVE  /\ txn'[u] = "none"
                      /\ ~Referenced(u, implicit', held')
                      /\ \A e \in Db : <<u, e>> \notin handlers'
    BY DEF UnbornUnknown
  <2>1. u # old
    BY <1>1, <1>3 DEF Released, Ready
  <2>2. ob[u] = "unborn" /\ u # new /\ obj[u] = "unborn" /\ tx[u] = txn[u]
    BY <2>1, <1>6 DEF Ready
  <2>3. txn[u] = "none" /\ ~Referenced(u, implicit, held)
        /\ \A e \in Db : <<u, e>> \notin handlers
    BY <2>2 DEF Inv, UnbornUnknown
  <2> QED BY <2>1, <2>2, <2>3, <1>3, <1>4, <1>8, NullAssumption
          DEF Referenced, Connect, Running
<1>11. HandlersMatchImplicit'
  <2> SUFFICES ASSUME NEW u \in Trans, NEW e \in Db, Running(u)'
               PROVE  <<u, e>> \in handlers' <=> implicit'[e] = u
    BY DEF HandlersMatchImplicit
  <2>1. <<u, e>> \in handlers' <=> <<u, e>> \in handlers \/ (u = new /\ e = d)
    BY <1>3, NullAssumption DEF Connect
  <2>2. <<u, e>> \in handlers <=> implicit[e] = u
    BY <1>9 DEF Inv, HandlersMatchImplicit, UnbornUnknown, Referenced
  <2> QED BY <2>1, <2>2, <1>4, <1>7, NullAssumption
<1>12. NothingLost'
  <2> SUFFICES ASSUME NEW u \in Trans, Running(u)'
               PROVE  (obj[u] = "live" /\ mtxn[u] /\ Referenced(u, implicit, held))'
    BY DEF NothingLost
  <2>1. u # old /\ obj'[u] = ob[u] /\ mtxn'[u] = mt[u] /\ tx[u] = "running"
    BY <1>6, <1>7
  <2>2. CASE u = new
    BY <2>1, <2>2, <1>4 DEF Ready, Referenced
  <2>3. CASE u # new
    <3>1. Running(u) /\ ob[u] = obj[u] /\ mt[u] = mtxn[u]
      BY <2>1, <2>3 DEF Ready, Running
    <3>2. Referenced(u, implicit, held)
      BY <3>1 DEF Inv, NothingLost
    <3>3. Referenced(u, implicit', held')
      BY <3>2, <2>1, <1>4, held' = held DEF Referenced
    <3> QED BY <2>1, <3>1, <3>3 DEF Inv, NothingLost
  <2> QED BY <2>2, <2>3
<1> QED BY <1>3, <1>5, <1>10, <1>11, <1>12 DEF Links

\* setImplicitTransaction( new ), when it returns.
LEMMA InstallLinks ==
  ASSUME Inv, NEW d \in Db, NEW new, NEW ob, NEW mt, NEW tx,
         Ready(new, ob, mt, tx), Install(d, new, ob, mt, tx, held),
         held' = held
  PROVE  /\ Links' /\ LinkTypes' /\ fate' = fate
         /\ implicit'[d] = new
         /\ \A e \in Db : e # d => implicit'[e] \in {implicit[e], NoTrans}
<1>1. CASE InstallOverNone(d, new, ob, mt, tx, held)
  BY <1>1, InstallOverNoneLinks DEF InstallOverNone, Inv, TypeOK
<1>2. CASE InstallOverOld(d, new, ob, mt, tx, held)
  <2>1. implicit[d] \in Trans /\ Running(implicit[d]) /\ fate' = fate
    BY <1>2 DEF InstallOverOld, NeedsCommit
  <2> QED BY <1>2, <2>1, InstallOverOldLinks, ClearedFacts
<1> QED BY <1>1, <1>2 DEF Install

\* setImplicitTransaction( new ), when the old transaction's commit throws.
LEMMA InstallThrowsLinks ==
  ASSUME Inv, NEW d \in Db, InstallThrows(d)
  PROVE  Links' /\ LinkTypes' /\ implicit' = Cleared(implicit[d]) /\ held' = held
<1> DEFINE old == implicit[d]
<1>1. old \in Trans /\ Running(old) /\ {} \in SUBSET Family(old)
  BY DEF InstallThrows, NeedsCommit
<1>2. /\ implicit' = Cleared(old) /\ held' = held /\ handlers' = handlers
      /\ txn' = Ended(txn, old, {}) /\ mtxn' = mtxn
      /\ signal' = [arg |-> TRUE, ok |-> FALSE]
      /\ obj' = [obj EXCEPT ![old] = Released(old, Cleared(old), held, TRUE)]
  BY DEF InstallThrows, EndTxn
<1>3. Emission(old, held)
  BY <1>1, <1>2 DEF Emission, Released, Inv, TypeOK
<1>4. LinkTypes'
  BY <1>1, <1>2, EndedFacts, ClearedFacts DEF LinkTypes, Inv, TypeOK, Released
<1> QED BY <1>1, <1>2, <1>3, <1>4, EmissionLinks

-----------------------------------------------------------------------------
\* An action that leaves the databases' lives and the application's flags alone
\* preserves the invariant when it preserves the links and what is closed.
LEMMA InvFromLinks ==
  ASSUME Inv, Links', LinkTypes', ClosedHasNone',
         held' \subseteq Trans, fate' \in {"ok", "undefined", "terminated"},
         ancestors' \in [Trans -> SUBSET Trans], doomed' \subseteq Trans,
         dtorAborts' \subseteq Trans, db' \in [Db -> {"created", "open", "closed"}]
  PROVE  Inv'
BY DEF Inv, Links, LinkTypes, TypeOK

\* Undefined behaviour is the end of what the model says.
LEMMA UndefinedInv ==
  ASSUME Inv, Undefined, UNCHANGED <<ancestors, doomed, dtorAborts, db>>
  PROVE  Inv'
BY DEF Undefined, Inv, TypeOK, UnbornUnknown, ClosedHasNone, HandlersMatchImplicit,
   NothingLost, Running, Referenced

\* Transaction::Transaction().
LEMMA NewTransactionInv ==
  ASSUME Inv, NEW t \in Trans, NEW p \in Trans \cup {NoTrans}, NewTransaction(t, p)
  PROVE  Inv'
<1>1. /\ obj[t] = "unborn" /\ obj' = [obj EXCEPT ![t] = "live"]
      /\ held' = held \cup {t}
      /\ mtxn' = [mtxn EXCEPT ![t] = TRUE] /\ txn' = [txn EXCEPT ![t] = "running"]
      /\ UNCHANGED <<doomed, dtorAborts, implicit, handlers, db, signal, fate>>
  BY DEF NewTransaction, Begin
<1>2. ancestors' \in [Trans -> SUBSET Trans]
  BY NullAssumption DEF NewTransaction, Begin, Inv, TypeOK
<1>3. LinkTypes'
  BY <1>1 DEF LinkTypes, Inv, TypeOK
<1>4. Links'
  <2>1. UnbornUnknown'
    BY <1>1 DEF Inv, TypeOK, UnbornUnknown, Referenced
  <2>2. HandlersMatchImplicit'
    BY <1>1 DEF Inv, TypeOK, UnbornUnknown, HandlersMatchImplicit, Running, Referenced
  <2>3. NothingLost'
    BY <1>1 DEF Inv, TypeOK, NothingLost, Running, Referenced
  <2> QED BY <2>1, <2>2, <2>3 DEF Links
<1> QED BY <1>1, <1>2, <1>3, <1>4, InvFromLinks DEF Inv, TypeOK, ClosedHasNone

\* Transaction::commit() and Transaction::abort().
LEMMA TransactionEndInv ==
  ASSUME Inv, NEW t \in Trans, TransactionCommit(t) \/ TransactionAbort(t)
  PROVE  Inv'
<1>1. CASE Dangling(t) /\ Undefined
  BY <1>1, UndefinedInv DEF TransactionCommit, TransactionAbort
<1>2. CASE /\ Running(t)
           /\ \E kept \in SUBSET Family(t), ok \in BOOLEAN : EndTxn(t, kept, ok, txn, mtxn)
           /\ implicit' = Cleared(t)
           /\ UNCHANGED <<obj, held, handlers, fate, ancestors, doomed, dtorAborts, db>>
  <2>1. PICK kept \in SUBSET Family(t), ok \in BOOLEAN : EndTxn(t, kept, ok, txn, mtxn)
    BY <1>2
  <2>2. Links'
    <3>1. Emission(t, held)
      BY <1>2, <2>1 DEF Emission, EndTxn, Inv, TypeOK, NothingLost
    <3> QED BY <3>1, EmissionLinks
  <2>3. LinkTypes'
    BY <1>2, <2>1, EndedFacts, ClearedFacts DEF LinkTypes, EndTxn, Inv, TypeOK
  <2>4. ClosedHasNone'
    BY <1>2, ClearedFacts DEF Inv, ClosedHasNone
  <2> QED BY <1>2, <2>2, <2>3, <2>4, InvFromLinks DEF Inv, TypeOK
<1>3. {} \in SUBSET Family(t)
  OBVIOUS
<1> QED BY <1>1, <1>2, <1>3, KeptFacts DEF TransactionCommit, TransactionAbort

\* The last or another reference of the application goes away.
LEMMA DropHandleInv ==
  ASSUME Inv, NEW t \in Trans, DropHandle(t)
  PROVE  Inv'
<1> DEFINE rest == held \ {t}
<1>1. t \in held /\ UNCHANGED <<ancestors, doomed, dtorAborts, db>>
  BY DEF DropHandle
<1>2. CASE /\ Referenced(t, implicit, rest)
           /\ held' = rest
           /\ UNCHANGED <<obj, mtxn, txn, implicit, handlers, signal, fate>>
  <2>1. Links'
    BY <1>2 DEF Links, Inv, UnbornUnknown, HandlersMatchImplicit, NothingLost,
       Running, Referenced
  <2> QED BY <1>1, <1>2, <2>1, InvFromLinks DEF Inv, TypeOK, LinkTypes, ClosedHasNone
<1>3. CASE /\ ~Referenced(t, implicit, rest)
           /\ ~mtxn[t]
           /\ held' = rest
           /\ obj' = [obj EXCEPT ![t] = "deleted"]
           /\ UNCHANGED <<mtxn, txn, implicit, handlers, signal, fate>>
  <2>1. ~Running(t)
    BY <1>3 DEF Inv, NothingLost
  <2>2. Links'
    BY <1>3, <2>1 DEF Links, Inv, TypeOK, UnbornUnknown, HandlersMatchImplicit,
       NothingLost, Running, Referenced
  <2> QED BY <1>1, <1>3, <2>2, InvFromLinks DEF Inv, TypeOK, LinkTypes, ClosedHasNone
<1>4. CASE /\ Running(t)
           /\ \E kept \in SUBSET Family(t), ok \in BOOLEAN :
                /\ EndTxn(t, kept, ok, txn, mtxn)
                /\ fate' = IF ok THEN fate ELSE "terminated"
           /\ held' = rest
           /\ obj' = [obj EXCEPT ![t] = "deleted"]
           /\ implicit' = Cleared(t)
           /\ UNCHANGED handlers
  <2>1. PICK kept \in SUBSET Family(t), ok \in BOOLEAN :
          /\ EndTxn(t, kept, ok, txn, mtxn)
          /\ fate' = IF ok THEN fate ELSE "terminated"
    BY <1>4
  <2>2. Links'
    <3>1. Emission(t, rest)
      BY <1>4, <2>1 DEF Emission, EndTxn, Inv, TypeOK
    <3> QED BY <3>1, EmissionLinks
  <2>3. LinkTypes'
    BY <1>4, <2>1, EndedFacts, ClearedFacts DEF LinkTypes, EndTxn, Inv, TypeOK
  <2>4. ClosedHasNone'
    BY <1>1, <1>4, ClearedFacts DEF Inv, ClosedHasNone
  <2> QED BY <1>1, <1>4, <2>1, <2>2, <2>3, <2>4, InvFromLinks DEF Inv, TypeOK
<1>5. CASE Dangling(t) /\ Undefined
  BY <1>1, <1>5, UndefinedInv
<1>6. {} \in SUBSET Family(t)
  OBVIOUS
<1>7. ASSUME Running(t),
             NEW kept \in IF t \in dtorAborts THEN {{}} ELSE PossiblyKept(t)
      PROVE  kept \in SUBSET Family(t) /\ (t \in dtorAborts \/ kept # {}) \in BOOLEAN
  BY <1>6, <1>7, KeptFacts
<1> QED BY <1>2, <1>3, <1>4, <1>5, <1>7 DEF DropHandle
\* A transaction the application or a database refers to is fit to be installed.
LEMMA ReferencedReady ==
  ASSUME Inv, NEW t \in Trans \cup {NullTrans, NoTrans},
         t \in Trans => Referenced(t, implicit, held)
  PROVE  Ready(t, obj, mtxn, txn)
BY DEF Ready, Inv, TypeOK, UnbornUnknown, NothingLost, Running

\* setImplicitTransaction() by a database that is not closed, or is being closed.
LEMMA InstallInv ==
  ASSUME Inv, NEW d \in Db, NEW new, NEW ob, NEW mt, NEW tx,
         Ready(new, ob, mt, tx), Install(d, new, ob, mt, tx, held),
         held' = held, ancestors' \in [Trans -> SUBSET Trans],
         UNCHANGED <<doomed, dtorAborts>>,
         db' \in [Db -> {"created", "open", "closed"}],
         \A e \in Db : db'[e] = "closed" => IF e = d THEN new = NoTrans ELSE db[e] = "closed"
  PROVE  Inv'
<1>1. /\ Links' /\ LinkTypes' /\ fate' = fate
      /\ implicit'[d] = new
      /\ \A e \in Db : e # d => implicit'[e] \in {implicit[e], NoTrans}
  BY InstallLinks
<1>2. ClosedHasNone'
  BY <1>1 DEF ClosedHasNone, Inv
<1> QED BY <1>1, <1>2, InvFromLinks DEF Inv, TypeOK

\* The same, when the exception of the old transaction's commit leaves it.
LEMMA InstallThrowsInv ==
  ASSUME Inv, NEW d \in Db, InstallThrows(d),
         UNCHANGED <<ancestors, doomed, dtorAborts>>, fate' \in {"ok", "terminated"},
         db' \in [Db -> {"created", "open", "closed"}],
         \A e \in Db : db'[e] = "closed" => db[e] = "closed"
  PROVE  Inv'
<1>1. Links' /\ LinkTypes' /\ implicit' = Cleared(implicit[d]) /\ held' = held
  BY InstallThrowsLinks
<1>2. implicit[d] \in Trans /\ Running(implicit[d])
  BY DEF InstallThrows, NeedsCommit
<1>3. ClosedHasNone'
  BY <1>1, <1>2, ClearedFacts DEF ClosedHasNone, Inv
<1> QED BY <1>1, <1>3, InvFromLinks DEF Inv, TypeOK

\* Database::setImplicitTransaction() and Database::commit().
LEMMA SetImplicitInv ==
  ASSUME Inv, NEW d \in Db, NEW t \in Trans \cup {NoTrans}, setImplicitTransaction(d, t)
  PROVE  Inv'
<1>1. t # NoTrans => t \in held
  BY DEF setImplicitTransaction
<1>2. Ready(t, obj, mtxn, txn)
  BY <1>1, NullAssumption, ReferencedReady DEF Referenced
<1>3. UNCHANGED <<ancestors, doomed, dtorAborts, db>> /\ db[d] # "closed" /\ fate = "ok"
  BY DEF setImplicitTransaction
<1>4. CASE Install(d, t, obj, mtxn, txn, held) /\ held' = held
  BY <1>2, <1>3, <1>4, InstallInv DEF Inv, TypeOK
<1>5. CASE InstallThrows(d) /\ fate' = fate
  BY <1>3, <1>5, InstallThrowsInv DEF Inv, TypeOK
<1>6. CASE Undefined
  BY <1>3, <1>6, UndefinedInv
<1> QED BY <1>4, <1>5, <1>6 DEF setImplicitTransaction

\* Database::start().
LEMMA StartInv ==
  ASSUME Inv, NEW d \in Db, NEW t \in Trans, start(d, t)
  PROVE  Inv'
<1> DEFINE old == implicit[d]
           ob == [obj EXCEPT ![t] = "live"]
           mt == [mtxn EXCEPT ![t] = TRUE]
           tx == [txn EXCEPT ![t] = "running"]
<1>1. /\ obj[t] = "unborn" /\ db[d] # "closed"
      /\ UNCHANGED <<doomed, dtorAborts, db>>
  BY DEF start, Begin
<1>2. ancestors' \in [Trans -> SUBSET Trans]
  BY NullAssumption DEF start, Begin, Inv, TypeOK
<1>3. CASE Install(d, t, ob, mt, tx, held) /\ held' = held
  <2>1. Ready(t, ob, mt, tx)
    BY <1>1 DEF Ready, Inv, TypeOK
  <2> QED BY <1>1, <1>2, <1>3, <2>1, InstallInv DEF Inv, TypeOK
<1>4. CASE /\ old \in Trans /\ mtxn[old] /\ Running(old)
           /\ txn' = [Ended(txn, old, {}) EXCEPT ![t] = "committed"]
           /\ signal' = [arg |-> FALSE, ok |-> TRUE]
           /\ implicit' = Cleared(old)
           /\ obj' = [obj EXCEPT ![old] = Released(old, Cleared(old), held, TRUE),
                                 ![t] = "deleted"]
           /\ UNCHANGED <<held, mtxn, handlers, fate>>
  <2>1. \A e \in Db : implicit'[e] = IF implicit[e] = old THEN NoTrans ELSE implicit[e]
    BY <1>4, ClearedFacts
  <2>2. LinkTypes'
    BY <1>4, EndedFacts, ClearedFacts DEF LinkTypes, Inv, TypeOK, Released
  <2>3. /\ \A u \in Trans : Running(u)' => u # t /\ u # old /\ Running(u)
        /\ \A u \in Trans : ~Running(u) /\ u # t => txn'[u] = txn[u]
    BY <1>4 DEF Inv, TypeOK, Running, Ended, Family
  <2>4. /\ \A u \in Trans : u # t /\ u # old => obj'[u] = obj[u]
        /\ obj'[t] # "unborn" /\ obj'[old] # "unborn"
    BY <1>4 DEF Inv, TypeOK, Released
  <2>5. UnbornUnknown'
    <3> SUFFICES ASSUME NEW u \in Trans, (obj[u] = "unborn")'
                 PROVE  /\ txn'[u] = "none"
                        /\ ~Referenced(u, implicit', held')
                        /\ \A e \in Db : <<u, e>> \notin handlers'
      BY DEF UnbornUnknown
    <3>1. u # t /\ u # old /\ obj[u] = "unborn"
      BY <2>4
    <3>2. txn[u] = "none" /\ ~Referenced(u, implicit, held)
          /\ \A e \in Db : <<u, e>> \notin handlers
      BY <3>1 DEF Inv, UnbornUnknown
    <3> QED BY <1>4, <2>1, <2>3, <3>1, <3>2, NullAssumption DEF Running, Referenced
  <2>6. HandlersMatchImplicit'
    BY <1>4, <2>1, <2>3, NullAssumption DEF Inv, HandlersMatchImplicit
  <2>7. NothingLost'
    <3> SUFFICES ASSUME NEW u \in Trans, Running(u)'
                 PROVE  (obj[u] = "live" /\ mtxn[u] /\ Referenced(u, implicit, held))'
      BY DEF NothingLost
    <3>1. u # t /\ u # old /\ Running(u)
      BY <2>3
    <3>2. obj[u] = "live" /\ mtxn[u] /\ Referenced(u, implicit, held)
      BY <3>1 DEF Inv, NothingLost
    <3> QED BY <1>4, <2>1, <2>4, <3>1, <3>2 DEF Referenced
  <2>8. ClosedHasNone'
    BY <1>1, <2>1 DEF Inv, ClosedHasNone
  <2> QED BY <1>1, <1>2, <1>4, <2>2, <2>5, <2>6, <2>7, <2>8, InvFromLinks
          DEF Inv, TypeOK, Links
<1>5. CASE Undefined
  BY <1>1, <1>2, <1>5 DEF Undefined, Inv, TypeOK, UnbornUnknown, ClosedHasNone,
     HandlersMatchImplicit, NothingLost, Running, Referenced
<1> QED BY <1>3, <1>4, <1>5 DEF start

\* Database::abort().
LEMMA DatabaseAbortInv ==
  ASSUME Inv, NEW d \in Db, DatabaseAbort(d)
  PROVE  Inv'
<1> DEFINE old == implicit[d]
<1>1. UNCHANGED <<ancestors, doomed, dtorAborts, db>>
  BY DEF DatabaseAbort
<1>2. CASE /\ old \in Trans /\ mtxn[old] /\ Running(old)
           /\ EndTxn(old, {}, TRUE, txn, mtxn)
           /\ implicit' = [Cleared(old) EXCEPT ![d] = NoTrans]
           /\ obj' = [obj EXCEPT ![old] = Released(old, implicit', held, TRUE)]
           /\ UNCHANGED <<held, handlers, fate>>
  <2>1. implicit' = Cleared(old)
    BY <1>2, ClearedFacts
  <2>2. Links'
    <3>1. {} \in SUBSET Family(old)
      OBVIOUS
    <3>2. Emission(old, held)
      BY <1>2, <2>1, <3>1 DEF Emission, EndTxn, Inv, TypeOK, Released
    <3> QED BY <1>2, <3>2, EmissionLinks
  <2>3. LinkTypes'
    <3>1. txn' \in [Trans -> {"none", "running", "committed", "aborted"}]
      BY <1>2, EndedFacts DEF EndTxn, Inv, TypeOK
    <3>2. implicit' \in [Db -> Trans \cup {NullTrans, NoTrans}]
      BY <1>2, <2>1, ClearedFacts
    <3>3. obj' \in [Trans -> {"unborn", "live", "leaked", "deleted"}]
          /\ mtxn' \in [Trans -> BOOLEAN] /\ signal' \in [arg : BOOLEAN, ok : BOOLEAN]
      BY <1>2 DEF EndTxn, Inv, TypeOK, Released
    <3> QED BY <1>2, <3>1, <3>2, <3>3 DEF LinkTypes, Inv, TypeOK
  <2>4. ClosedHasNone'
    BY <1>1, <1>2, <2>1, ClearedFacts DEF Inv, ClosedHasNone
  <2> QED BY <1>1, <1>2, <2>2, <2>3, <2>4, InvFromLinks DEF Inv, TypeOK
<1>3. CASE /\ old \in Trans => ~mtxn[old]
           /\ implicit' = [implicit EXCEPT ![d] = NoTrans]
           /\ obj' = IF old \in Trans
                       THEN [obj EXCEPT ![old] = Released(old, implicit', held, FALSE)]
                       ELSE obj
           /\ UNCHANGED <<held, mtxn, txn, handlers, signal, fate>>
  <2>1. InstallOverNone(d, NoTrans, obj, mtxn, txn, held)
    BY <1>3 DEF InstallOverNone, NeedsCommit, Connect
  <2>2. Ready(NoTrans, obj, mtxn, txn)
    BY NullAssumption, ReferencedReady
  <2> QED BY <1>1, <1>3, <2>1, <2>2, InstallInv DEF Install, Inv, TypeOK
<1>4. CASE Undefined
  BY <1>1, <1>4, UndefinedInv
<1> QED BY <1>2, <1>3, <1>4 DEF DatabaseAbort

\* Database::open().
LEMMA OpenInv ==
  ASSUME Inv, NEW d \in Db, NEW arg \in Trans \cup {NoTrans}, open(d, arg)
  PROVE  Inv'
<1> DEFINE t == freshenTransaction(d, arg)
<1>1. /\ arg # NoTrans => arg \in held
      /\ UNCHANGED <<ancestors, doomed, dtorAborts>> /\ fate = "ok"
      /\ db' = db \/ db' = [db EXCEPT ![d] = "open"]
  BY DEF open
<1>2. /\ db' \in [Db -> {"created", "open", "closed"}]
      /\ \A e \in Db : db'[e] = "closed" => e # d /\ db[e] = "closed"
  BY <1>1 DEF open, Inv, TypeOK
<1>3. t \in Trans \cup {NullTrans, NoTrans} /\ (t \in Trans => Referenced(t, implicit, held))
  BY <1>1, NullAssumption DEF freshenTransaction, Referenced, Inv, TypeOK
<1>4. Ready(t, obj, mtxn, txn)
  BY <1>3, ReferencedReady
<1>5. CASE Install(d, t, obj, mtxn, txn, held) /\ held' = held
  BY <1>1, <1>2, <1>4, <1>5, InstallInv DEF Inv, TypeOK
<1>6. CASE InstallThrows(d) /\ fate' = fate
  BY <1>1, <1>2, <1>6, InstallThrowsInv
<1>7. CASE Undefined /\ UNCHANGED db
  BY <1>1, <1>7, UndefinedInv
<1> QED BY <1>5, <1>6, <1>7 DEF open

\* Database::close() and ~Database().
LEMMA CloseInv ==
  ASSUME Inv, NEW d \in Db, close(d)
  PROVE  Inv'
<1>1. UNCHANGED <<ancestors, doomed, dtorAborts>>
  BY DEF close
<1>2. CASE /\ Install(d, NoTrans, obj, mtxn, txn, held) /\ held' = held
           /\ db' = [db EXCEPT ![d] = "closed"]
  <2>1. Ready(NoTrans, obj, mtxn, txn)
    BY NullAssumption, ReferencedReady
  <2> QED BY <1>1, <1>2, <2>1, InstallInv DEF Inv, TypeOK
<1>3. CASE InstallThrows(d) /\ fate' \in {"ok", "terminated"} /\ UNCHANGED db
  BY <1>1, <1>3, InstallThrowsInv DEF Inv, TypeOK
<1>4. CASE Undefined /\ UNCHANGED db
  BY <1>1, <1>4, UndefinedInv
<1> QED BY <1>2, <1>3, <1>4 DEF close

-----------------------------------------------------------------------------
\* The invariant holds initially.
LEMMA InitInv == Init => Inv
BY NullAssumption DEF Init, Inv, TypeOK, UnbornUnknown, ClosedHasNone,
   HandlersMatchImplicit, NothingLost, Running, Referenced, NoSignal

\* Every step preserves it.
LEMMA NextInv == Inv /\ [Next]_vars => Inv'
<1> SUFFICES ASSUME Inv, [Next]_vars PROVE Inv'
  OBVIOUS
<1>1. ASSUME NEW t \in Trans, NEW p \in Trans \cup {NoTrans}, NewTransaction(t, p)
      PROVE  Inv'
  BY <1>1, NewTransactionInv
<1>2. ASSUME NEW t \in Trans, TxnDeadlock(t)
      PROVE  Inv'
  BY <1>2 DEF TxnDeadlock, Inv, TypeOK, UnbornUnknown, ClosedHasNone,
     HandlersMatchImplicit, NothingLost, Running, Referenced
<1>3. ASSUME NEW t \in Trans, NEW v \in BOOLEAN, setDefaultDestructionIsAbort(t, v)
      PROVE  Inv'
  BY <1>3 DEF setDefaultDestructionIsAbort, Inv, TypeOK, UnbornUnknown,
     ClosedHasNone, HandlersMatchImplicit, NothingLost, Running, Referenced
<1>4. ASSUME NEW t \in Trans, TransactionCommit(t) \/ TransactionAbort(t)
      PROVE  Inv'
  BY <1>4, TransactionEndInv
<1>5. ASSUME NEW t \in Trans, DropHandle(t)
      PROVE  Inv'
  BY <1>5, DropHandleInv
<1>6. ASSUME NEW d \in Db, NEW t \in Trans \cup {NoTrans},
             setImplicitTransaction(d, t) \/ open(d, t)
      PROVE  Inv'
  BY <1>6, SetImplicitInv, OpenInv
<1>7. ASSUME NEW d \in Db, NEW t \in Trans, start(d, t)
      PROVE  Inv'
  BY <1>7, StartInv
<1>8. ASSUME NEW d \in Db, DatabaseAbort(d) \/ close(d)
      PROVE  Inv'
  BY <1>8, DatabaseAbortInv, CloseInv
<1>9. CASE UNCHANGED vars
  BY <1>9 DEF vars, Inv, TypeOK, UnbornUnknown, ClosedHasNone,
     HandlersMatchImplicit, NothingLost, Running, Referenced
<1> QED BY <1>1, <1>2, <1>3, <1>4, <1>5, <1>6, <1>7, <1>8, <1>9 DEF Next
\* Every variable has its type, whatever the application does.
THEOREM TypeCorrect == Spec => []TypeOK
BY InitInv, NextInv, PTL DEF Spec, Inv

\* A running transaction's signals are connected to exactly the databases it is
\* implicit in (setImplicitTransaction(), clearImplicitTransaction()).
THEOREM HandlersTheorem == Spec => []HandlersMatchImplicit
BY InitInv, NextInv, PTL DEF Spec, Inv

\* No running DB_TXN is left without a Transaction that somebody refers to.
THEOREM NothingLostTheorem == Spec => []NothingLost
BY InitInv, NextInv, PTL DEF Spec, Inv

\* No running transaction signals its end to a database that has been closed, and
\* perhaps destroyed.
THEOREM ClosedIsQuietTheorem == Spec => []ClosedIsQuiet
<1>1. Inv => ClosedIsQuiet
  BY NullAssumption DEF Inv, HandlersMatchImplicit, ClosedHasNone, ClosedIsQuiet
<1> QED BY <1>1, InitInv, NextInv, PTL DEF Spec
-----------------------------------------------------------------------------
\* What ImplicitKeptUntilEnd says of one step.
KeptStep ==
    \A d \in Db, t \in Trans :
        implicit[d] = t /\ Running(t) /\ implicit'[d] # t => txn'[t] # "running"

\* A step that ends t's family and changes the implicit transaction only of
\* databases in which t was implicit.
LEMMA EndingKeeps ==
  ASSUME Inv, NEW t \in Trans, NEW kept \in SUBSET Family(t),
         NEW tx \in [Trans -> {"none", "running", "committed", "aborted"}],
         txn' = Ended(tx, t, kept),
         \A e \in Db : implicit'[e] # implicit[e] => implicit[e] = t
  PROVE  KeptStep
BY EndedFacts, FamilyFacts DEF KeptStep

\* Installing another implicit transaction ends the old one if it runs.
LEMMA InstallKeeps ==
  ASSUME Inv, NEW d \in Db, NEW new, NEW ob, NEW mt, NEW tx,
         Ready(new, ob, mt, tx), Install(d, new, ob, mt, tx, held)
  PROVE  KeptStep
<1> DEFINE old == implicit[d]
<1>1. CASE InstallOverNone(d, new, ob, mt, tx, held)
  BY <1>1 DEF KeptStep, InstallOverNone, NeedsCommit, Inv, NothingLost, TypeOK
<1>2. CASE InstallOverOld(d, new, ob, mt, tx, held)
  <2>1. old \in Trans /\ Running(old)
    BY <1>2 DEF InstallOverOld, NeedsCommit
  <2>2. PICK kept \in SUBSET Family(old) : txn' = Ended(tx, old, kept)
    BY <1>2, <2>1, KeptFacts DEF InstallOverOld, EndTxn
  <2>3. implicit' = [Cleared(old) EXCEPT ![d] = new]
    BY <1>2 DEF InstallOverOld
  <2>4. \A e \in Db : implicit'[e] # implicit[e] => implicit[e] = old
    BY <2>1, <2>3, ClearedFacts
  <2> QED BY <2>1, <2>2, <2>4, EndingKeeps DEF Ready
<1> QED BY <1>1, <1>2 DEF Install

\* The exception of the old transaction's commit comes after its end.
LEMMA InstallThrowsKeeps ==
  ASSUME Inv, NEW d \in Db, InstallThrows(d)
  PROVE  KeptStep
<1>1. implicit[d] \in Trans /\ Running(implicit[d])
      /\ txn' = Ended(txn, implicit[d], {}) /\ implicit' = Cleared(implicit[d])
  BY DEF InstallThrows, NeedsCommit, EndTxn
<1>2. {} \in SUBSET Family(implicit[d])
  OBVIOUS
<1>3. \A e \in Db : implicit'[e] # implicit[e] => implicit[e] = implicit[d]
  BY <1>1, ClearedFacts
<1> QED BY <1>1, <1>2, <1>3, EndingKeeps DEF Inv, TypeOK

\* An emission comes after the end of the transaction that emits.
LEMMA EmissionKeeps ==
  ASSUME Inv, NEW t \in Trans, Running(t), implicit' = Cleared(t),
         \E kept \in SUBSET Family(t) : txn' = Ended(txn, t, kept)
  PROVE  KeptStep
<1>1. \A e \in Db : implicit'[e] # implicit[e] => implicit[e] = t
  BY ClearedFacts
<1> QED BY <1>1, EndingKeeps DEF Inv, TypeOK

\* No step drops a running implicit transaction.
LEMMA NextKeeps == Inv /\ Next => KeptStep
<1> SUFFICES ASSUME Inv, Next PROVE KeptStep
  OBVIOUS
<1>1. ASSUME UNCHANGED implicit PROVE KeptStep
  BY <1>1 DEF KeptStep
<1>2. ASSUME NEW t \in Trans,
             \/ \E p \in Trans \cup {NoTrans} : NewTransaction(t, p)
             \/ TxnDeadlock(t)
             \/ \E v \in BOOLEAN : setDefaultDestructionIsAbort(t, v)
      PROVE  KeptStep
  BY <1>1, <1>2 DEF NewTransaction, TxnDeadlock, setDefaultDestructionIsAbort
<1>3. ASSUME NEW t \in Trans, TransactionCommit(t) \/ TransactionAbort(t) \/ DropHandle(t)
      PROVE  KeptStep
  <2>1. {} \in SUBSET Family(t)
    OBVIOUS
  <2>2. CASE UNCHANGED implicit
    BY <1>1, <2>2
  <2>3. CASE /\ Running(t) /\ implicit' = Cleared(t)
             /\ \E kept \in SUBSET Family(t) : txn' = Ended(txn, t, kept)
    BY <2>3, EmissionKeeps
  <2>4. CASE TransactionCommit(t)
    BY <2>2, <2>3, <2>4, KeptFacts DEF TransactionCommit, EndTxn, Undefined
  <2>5. CASE TransactionAbort(t)
    BY <2>1, <2>2, <2>3, <2>5 DEF TransactionAbort, EndTxn, Undefined
  <2>6. CASE DropHandle(t)
    <3>1. ASSUME NEW kept \in IF t \in dtorAborts THEN {{}} ELSE PossiblyKept(t)
          PROVE  kept \in SUBSET Family(t)
      BY <2>1, <3>1, KeptFacts
    <3> QED BY <2>2, <2>3, <2>6, <3>1 DEF DropHandle, EndTxn, Undefined
  <2> QED BY <1>3, <2>4, <2>5, <2>6
<1>4. ASSUME NEW d \in Db, NEW t \in Trans \cup {NoTrans}, setImplicitTransaction(d, t)
      PROVE  KeptStep
  <2>1. Ready(t, obj, mtxn, txn)
    BY <1>4, NullAssumption, ReferencedReady DEF setImplicitTransaction, Referenced
  <2> QED BY <1>1, <1>4, <2>1, InstallKeeps, InstallThrowsKeeps
          DEF setImplicitTransaction, Undefined
<1>5. ASSUME NEW d \in Db, NEW arg \in Trans \cup {NoTrans}, open(d, arg)
      PROVE  KeptStep
  <2> DEFINE t == freshenTransaction(d, arg)
  <2>1. t \in Trans \cup {NullTrans, NoTrans} /\ (t \in Trans => Referenced(t, implicit, held))
    BY <1>5, NullAssumption DEF open, freshenTransaction, Referenced, Inv, TypeOK
  <2>2. Ready(t, obj, mtxn, txn)
    BY <2>1, ReferencedReady
  <2> QED BY <1>1, <1>5, <2>2, InstallKeeps, InstallThrowsKeeps DEF open, Undefined
<1>6. ASSUME NEW d \in Db, NEW t \in Trans, start(d, t)
      PROVE  KeptStep
  <2> DEFINE old == implicit[d]
             ob == [obj EXCEPT ![t] = "live"]
             mt == [mtxn EXCEPT ![t] = TRUE]
             tx == [txn EXCEPT ![t] = "running"]
  <2>1. CASE Install(d, t, ob, mt, tx, held)
    <3>1. Ready(t, ob, mt, tx)
      BY <1>6 DEF Ready, start, Begin, Inv, TypeOK
    <3> QED BY <2>1, <3>1, InstallKeeps
  <2>2. CASE /\ old \in Trans /\ Running(old)
             /\ txn' = [Ended(txn, old, {}) EXCEPT ![t] = "committed"]
             /\ implicit' = Cleared(old)
    <3>1. \A e \in Db : implicit'[e] # implicit[e] => implicit[e] = old
      BY <2>2, ClearedFacts
    <3>2. txn'[old] # "running"
      BY <2>2 DEF Ended, Family
    <3> QED BY <3>1, <3>2 DEF KeptStep
  <2>3. CASE Undefined
    BY <1>1, <2>3 DEF Undefined
  <2> QED BY <1>6, <2>1, <2>2, <2>3 DEF start
<1>7. ASSUME NEW d \in Db, DatabaseAbort(d)
      PROVE  KeptStep
  <2> DEFINE old == implicit[d]
  <2>1. CASE /\ old \in Trans /\ Running(old) /\ EndTxn(old, {}, TRUE, txn, mtxn)
             /\ implicit' = [Cleared(old) EXCEPT ![d] = NoTrans]
    <3>1. {} \in SUBSET Family(old)
      OBVIOUS
    <3>2. implicit' = Cleared(old)
      BY <2>1, ClearedFacts
    <3> QED BY <2>1, <3>1, <3>2, EmissionKeeps DEF EndTxn
  <2>2. CASE (old \in Trans => ~mtxn[old]) /\ implicit' = [implicit EXCEPT ![d] = NoTrans]
    BY <2>2 DEF KeptStep, Inv, NothingLost, TypeOK
  <2>3. CASE Undefined
    BY <1>1, <2>3 DEF Undefined
  <2> QED BY <1>7, <2>1, <2>2, <2>3 DEF DatabaseAbort
<1>8. ASSUME NEW d \in Db, close(d)
      PROVE  KeptStep
  <2>1. Ready(NoTrans, obj, mtxn, txn)
    BY NullAssumption, ReferencedReady
  <2> QED BY <1>1, <1>8, <2>1, InstallKeeps, InstallThrowsKeeps DEF close, Undefined
<1> QED BY <1>2, <1>3, <1>4, <1>5, <1>6, <1>7, <1>8 DEF Next

\* A database never lets go of an implicit transaction that goes on running.
THEOREM ImplicitKeptTheorem == Spec => ImplicitKeptUntilEnd
<1>1. Inv /\ [Next]_vars => [KeptStep]_vars
  BY NextKeeps
<1>2. Spec => [][KeptStep]_vars
  BY <1>1, InitInv, NextInv, PTL DEF Spec
<1> QED BY <1>2 DEF ImplicitKeptUntilEnd, KeptStep

-----------------------------------------------------------------------------
\* Why t's m_txn may point to a DB_TXN that has been freed.
HasCause(t) ==
    \/ \E c \in doomed : t \in {c} \cup ancestors[c]
    \/ \E a \in ancestors[t] : ~Running(a)

\* Every such pointer has its cause, be the object still alive or not, and a
\* Transaction that has not been constructed is nobody's cause.
Causes ==
    /\ \A t \in Trans : Dangling(t) => HasCause(t)
    /\ \A t \in Trans : obj[t] = "unborn" =>
         /\ ~mtxn[t] /\ t \notin doomed
         /\ \A u \in Trans : t \notin ancestors[u]

\* A step that constructs at most the Transaction new: what it may not undo.
Grows(new) ==
    /\ \A u \in Trans : obj'[u] = "unborn" =>
         obj[u] = "unborn" /\ u # new /\ mtxn'[u] = mtxn[u] /\ u \notin doomed'
    /\ \A u \in Trans : u # new => ancestors'[u] = ancestors[u]
    /\ new \in Trans => obj[new] = "unborn"
    /\ new \in Trans => \A u \in Trans : obj'[u] = "unborn" => u \notin ancestors'[new]
    /\ \A u \in Trans : Running(u)' => Running(u) \/ u = new
    /\ doomed \subseteq doomed'

\* A cause stays one.
LEMMA CauseStays ==
  ASSUME Inv, Causes, NEW new, Grows(new), NEW t \in Trans, t # new, HasCause(t)
  PROVE  HasCause(t)'
<1>1. ancestors[t] \subseteq Trans /\ doomed \subseteq Trans
  BY DEF Inv, TypeOK
<1>2. CASE \E c \in doomed : t \in {c} \cup ancestors[c]
  <2>1. PICK c \in doomed : t \in {c} \cup ancestors[c]
    BY <1>2
  <2>2. c \in doomed' /\ ancestors'[c] = ancestors[c]
    BY <1>1, <2>1 DEF Causes, Grows
  <2> QED BY <2>1, <2>2 DEF HasCause
<1>3. CASE \E a \in ancestors[t] : ~Running(a)
  <2>1. PICK a \in ancestors[t] : ~Running(a)
    BY <1>3
  <2>2. a # new
    BY <1>1, <2>1 DEF Causes, Grows
  <2>3. a \in ancestors'[t] /\ ~Running(a)'
    BY <1>1, <2>1, <2>2 DEF Grows
  <2> QED BY <2>3 DEF HasCause
<1> QED BY <1>2, <1>3 DEF HasCause

\* Causes is preserved by a step that gives every pointer it leaves dangling a
\* cause, or leaves it as it was.
LEMMA CausesFrom ==
  ASSUME Inv, Causes, NEW new, Grows(new),
         \A t \in Trans : Dangling(t)' => HasCause(t)' \/ (Dangling(t) /\ t # new)
  PROVE  Causes'
<1>1. \A t \in Trans : Dangling(t)' => HasCause(t)'
  BY CauseStays DEF Causes
<1>2. ASSUME NEW t \in Trans, (obj[t] = "unborn")'
      PROVE  /\ (~mtxn[t] /\ t \notin doomed)'
             /\ \A u \in Trans : t \notin ancestors'[u]
  <2>1. obj[t] = "unborn" /\ mtxn'[t] = mtxn[t] /\ t \notin doomed'
    BY <1>2 DEF Grows
  <2>2. ASSUME NEW u \in Trans PROVE t \notin ancestors'[u]
    <3>1. CASE u = new
      BY <1>2, <3>1 DEF Grows
    <3>2. CASE u # new
      BY <2>1, <3>2 DEF Grows, Causes
    <3> QED BY <3>1, <3>2
  <2> QED BY <2>1, <2>2 DEF Causes
<1> QED BY <1>1, <1>2 DEF Causes

\* If the commit of a family can fail, one of its members is a deadlock victim.
LEMMA FailureHasACause ==
  ASSUME NEW t \in Trans, {} \in PossiblyKept(t)
  PROVE  \E c \in Family(t) : c \in doomed
BY FamilyFacts DEF PossiblyKept

\* The end of t's family: those below t lose their DB_TXN to an ancestor, t
\* itself only to a failure.
LEMMA EndingHasCauses ==
  ASSUME Inv, Causes, NEW new, Grows(new), NEW t \in Trans, Running(t), t # new,
         NEW kept \in SUBSET Family(t),
         NEW tx \in [Trans -> {"none", "running", "committed", "aborted"}],
         \A u \in Trans : u # t /\ u # new => txn'[u] = Ended(tx, t, kept)[u],
         txn'[t] # "running",
         \A u \in Trans : u # new => tx[u] = txn[u],
         \A u \in Trans : u # t /\ u # new => mtxn'[u] = mtxn[u],
         new \in Trans => ~Dangling(new)',
         mtxn'[t] => {} \in PossiblyKept(t)
  PROVE  Causes'
<1>1. ~Running(t)'
  BY DEF Running
<1>2. ASSUME NEW u \in Trans, Dangling(u)'
      PROVE  HasCause(u)' \/ (Dangling(u) /\ u # new)
  <2>1. u # new
    BY <1>2
  <2>2. CASE u = t
    <3>1. PICK c \in Family(t) : c \in doomed
      BY <1>2, <2>2, FailureHasACause DEF Dangling
    <3>2. c \in Trans /\ t \in {c} \cup ancestors[c]
      BY <3>1 DEF Family
    <3>3. HasCause(t)
      BY <3>1, <3>2 DEF HasCause
    <3> QED BY <2>1, <2>2, <3>3, CauseStays
  <2>3. CASE u # t /\ u \in Family(t)
    <3>1. t \in ancestors[u]
      BY <2>3 DEF Family
    <3>2. t \in ancestors'[u]
      BY <3>1, <2>1 DEF Grows
    <3> QED BY <1>1, <3>2 DEF HasCause
  <2>4. CASE u \notin Family(t)
    <3>1. u # t
      BY <2>4, FamilyFacts
    <3>2. txn'[u] = txn[u] /\ mtxn'[u] = mtxn[u]
      BY <2>1, <2>4, <3>1, EndedFacts
    <3> QED BY <1>2, <2>1, <3>2 DEF Dangling, Running
  <2> QED BY <2>2, <2>3, <2>4
<1> QED BY <1>2, CausesFrom

\* Nothing a cause depends on changes.
LEMMA SameCauses ==
  ASSUME Causes, UNCHANGED <<obj, mtxn, txn, ancestors, doomed>>
  PROVE  Causes'
BY DEF Causes, HasCause, Dangling, Running

\* The construction of a Transaction: its ancestors have been constructed.
LEMMA BeginFacts ==
  ASSUME Inv, Causes, NEW t \in Trans, NEW p, Begin(t, p)
  PROVE  /\ obj[t] = "unborn"
         /\ \A u \in Trans : u # t => ancestors'[u] = ancestors[u]
         /\ \A u \in Trans : obj[u] = "unborn" => u \notin ancestors'[t]
<1>1. ancestors'[t] = IF p \in Trans /\ mtxn[p] THEN {p} \cup ancestors[p] ELSE {}
  BY DEF Begin, Inv, TypeOK
<1>2. \A u \in Trans : obj[u] = "unborn" => u \notin ancestors'[t]
  BY <1>1 DEF Causes
<1> QED BY <1>2 DEF Begin, Inv, TypeOK

\* commit() and abort() of a running transaction.
LEMMA EndTxnCauses ==
  ASSUME Inv, Causes, NEW t \in Trans, Running(t), NEW kept \in SUBSET Family(t),
         NEW ok \in BOOLEAN, EndTxn(t, kept, ok, txn, mtxn),
         ~ok => {} \in PossiblyKept(t), UNCHANGED <<ancestors, doomed>>,
         \A u \in Trans : u # t => obj'[u] = obj[u],
         obj'[t] # "unborn"
  PROVE  Causes'
<1>1. txn' = Ended(txn, t, kept) /\ mtxn' = IF ok THEN [mtxn EXCEPT ![t] = FALSE] ELSE mtxn
  BY DEF EndTxn
<1>2. txn \in [Trans -> {"none", "running", "committed", "aborted"}]
  BY DEF Inv, TypeOK
<1>3. \A u \in Trans : Running(u)' => Running(u) /\ u # t
  BY <1>1, <1>2, EndedFacts, FamilyFacts DEF Running
<1>4. \A u \in Trans : u # t => mtxn'[u] = mtxn[u]
  BY <1>1 DEF Inv, TypeOK
<1>5. mtxn'[t] => {} \in PossiblyKept(t)
  BY <1>1 DEF Inv, TypeOK
<1>6. NoTrans \notin Trans
  BY NullAssumption
<1>7. Grows(NoTrans)
  BY <1>3, <1>4, <1>6 DEF Grows, Causes
<1>8. txn'[t] # "running"
  BY <1>3 DEF Running
<1> QED BY <1>1, <1>2, <1>4, <1>5, <1>6, <1>7, <1>8, EndingHasCauses

\* setImplicitTransaction( new ), when it returns; made is the Transaction start()
\* has constructed for it.
LEMMA InstallCauses ==
  ASSUME Inv, Causes, NEW d \in Db, NEW new, NEW ob, NEW mt, NEW tx, NEW made,
         Ready(new, ob, mt, tx), Install(d, new, ob, mt, tx, held),
         \A u \in Trans : u # made => ob[u] = obj[u] /\ mt[u] = mtxn[u] /\ tx[u] = txn[u],
         made \in Trans => /\ obj[made] = "unborn" /\ ob[made] # "unborn"
                           /\ tx[made] = "running"
                           /\ \A u \in Trans : obj[u] = "unborn" => u \notin ancestors'[made],
         \A u \in Trans : u # made => ancestors'[u] = ancestors[u],
         doomed' = doomed
  PROVE  Causes'
<1> DEFINE old == implicit[d]
<1>1. /\ ob \in [Trans -> {"unborn", "live", "leaked", "deleted"}]
      /\ mt \in [Trans -> BOOLEAN]
      /\ tx \in [Trans -> {"none", "running", "committed", "aborted"}]
  BY DEF Ready
<1>2. ASSUME \A u \in Trans : u # old => obj'[u] = ob[u] /\ mtxn'[u] = mt[u],
             old \in Trans => obj'[old] # "unborn",
             \A u \in Trans : Running(u)' => tx[u] = "running"
      PROVE  Grows(made)
  <2>1. ASSUME NEW u \in Trans, obj'[u] = "unborn"
        PROVE  obj[u] = "unborn" /\ u # made /\ mtxn'[u] = mtxn[u] /\ u \notin doomed'
    BY <1>2, <2>1 DEF Causes
  <2>2. \A u \in Trans : Running(u)' => Running(u) \/ u = made
    BY <1>2 DEF Running
  <2> QED BY <2>1, <2>2 DEF Grows
<1>3. CASE InstallOverNone(d, new, ob, mt, tx, held)
  <2>1. txn' = tx /\ mtxn' = mt
    BY <1>3 DEF InstallOverNone
  <2>2. \A u \in Trans : u # old => obj'[u] = ob[u]
    BY <1>1, <1>3 DEF InstallOverNone
  <2>3. old \in Trans => obj'[old] # "unborn"
    BY <1>1, <1>3 DEF InstallOverNone, Released
  <2>4. Grows(made)
    BY <1>2, <2>1, <2>2, <2>3 DEF Running
  <2>5. \A u \in Trans : Dangling(u)' => Dangling(u) /\ u # made
    BY <2>1 DEF Dangling, Running
  <2> QED BY <2>4, <2>5, CausesFrom
<1>4. CASE InstallOverOld(d, new, ob, mt, tx, held)
  <2>1. old \in Trans /\ Running(old)
    BY <1>4 DEF InstallOverOld, NeedsCommit
  <2>2. PICK kept \in SUBSET Family(old) : EndTxn(old, kept, TRUE, tx, mt)
    BY <1>4, <2>1, KeptFacts DEF InstallOverOld
  <2>3. txn' = Ended(tx, old, kept) /\ mtxn' = [mt EXCEPT ![old] = FALSE]
    BY <2>2 DEF EndTxn
  <2>4. obj' = [ob EXCEPT ![old] = Released(old, implicit', held, TRUE)]
    BY <1>4 DEF InstallOverOld
  <2>5. /\ \A u \in Trans : u # old => obj'[u] = ob[u] /\ mtxn'[u] = mt[u]
        /\ obj'[old] # "unborn" /\ ~mtxn'[old]
    BY <1>1, <2>1, <2>3, <2>4 DEF Released
  <2>6. \A u \in Trans : Running(u)' => tx[u] = "running" /\ u \notin Family(old)
    BY <1>1, <2>1, <2>3, EndedFacts DEF Running
  <2>7. Grows(made)
    BY <1>2, <2>5, <2>6
  <2>8. old # made
    BY <2>1 DEF Inv, UnbornUnknown, Running
  <2>9. made \in Trans => ~Dangling(made)'
    <3> SUFFICES ASSUME made \in Trans PROVE Running(made)'
      BY DEF Dangling
    <3>1. ~Running(made)
      BY DEF Inv, UnbornUnknown, Running
    <3>2. made \notin Family(old)
      BY <2>1, <2>8, <3>1, FamilyFacts
    <3>3. Ended(tx, old, kept)[made] = tx[made]
      BY <3>2 DEF Ended
    <3>4. tx[made] = "running"
      OBVIOUS
    <3> QED BY <2>3, <3>3, <3>4 DEF Running
  <2>10. txn'[old] # "running"
    BY <2>1, <2>6, FamilyFacts DEF Running
  <2>11. \A u \in Trans : u # old /\ u # made => mtxn'[u] = mtxn[u]
    BY <2>5
  <2>12. /\ \A u \in Trans : u # old /\ u # made => txn'[u] = Ended(tx, old, kept)[u]
         /\ \A u \in Trans : u # made => tx[u] = txn[u]
    BY <2>3
  <2>13. mtxn'[old] => {} \in PossiblyKept(old)
    BY <2>5
  <2> HIDE DEF old
  <2> QED BY <1>1, <2>1, <2>7, <2>8, <2>9, <2>10, <2>11, <2>12, <2>13, EndingHasCauses
<1> QED BY <1>3, <1>4 DEF Install

\* The same with a transaction that exists already.
LEMMA InstallOldCauses ==
  ASSUME Inv, Causes, NEW d \in Db, NEW new,
         Ready(new, obj, mtxn, txn), Install(d, new, obj, mtxn, txn, held),
         UNCHANGED <<ancestors, doomed>>
  PROVE  Causes'
<1>1. NoTrans \notin Trans
  BY NullAssumption
<1> QED BY <1>1, InstallCauses

\* The same, when the commit of the old transaction throws.
LEMMA InstallThrowsCauses ==
  ASSUME Inv, Causes, NEW d \in Db, InstallThrows(d), UNCHANGED <<ancestors, doomed>>
  PROVE  Causes'
<1> DEFINE old == implicit[d]
<1>1. /\ old \in Trans /\ Running(old) /\ {} \in PossiblyKept(old)
      /\ EndTxn(old, {}, FALSE, txn, mtxn)
      /\ obj' = [obj EXCEPT ![old] = Released(old, Cleared(old), held, TRUE)]
  BY DEF InstallThrows, NeedsCommit
<1>2. /\ \A u \in Trans : u # old => obj'[u] = obj[u]
      /\ obj'[old] # "unborn"
  BY <1>1 DEF Released, Inv, TypeOK
<1>3. {} \in SUBSET Family(old)
  OBVIOUS
<1> QED BY <1>1, <1>2, <1>3, EndTxnCauses

\* Database::start().
LEMMA StartCauses ==
  ASSUME Inv, Causes, NEW d \in Db, NEW t \in Trans, start(d, t)
  PROVE  Causes'
<1> DEFINE old == implicit[d]
           ob == [obj EXCEPT ![t] = "live"]
           mt == [mtxn EXCEPT ![t] = TRUE]
           tx == [txn EXCEPT ![t] = "running"]
<1>1. Begin(t, NoTrans) /\ doomed' = doomed
  BY DEF start
<1>2. /\ obj[t] = "unborn"
      /\ \A u \in Trans : u # t => ancestors'[u] = ancestors[u]
      /\ \A u \in Trans : obj[u] = "unborn" => u \notin ancestors'[t]
  BY <1>1, BeginFacts
<1>3. CASE Install(d, t, ob, mt, tx, held) /\ held' = held
  <2>1. Ready(t, ob, mt, tx)
    BY <1>2 DEF Ready, Inv, TypeOK
  <2>2. /\ ob[t] = "live" /\ tx[t] = "running"
        /\ \A u \in Trans : u # t => ob[u] = obj[u] /\ mt[u] = mtxn[u] /\ tx[u] = txn[u]
    BY DEF Inv, TypeOK
  <2> HIDE DEF ob, mt, tx
  <2> QED BY <1>1, <1>2, <1>3, <2>1, <2>2, InstallCauses
<1>4. CASE /\ old \in Trans /\ mtxn[old] /\ Running(old)
           /\ {} \in PossiblyKept(old)
           /\ txn' = [Ended(txn, old, {}) EXCEPT ![t] = "committed"]
           /\ obj' = [obj EXCEPT ![old] = Released(old, Cleared(old), held, TRUE),
                                 ![t] = "deleted"]
           /\ UNCHANGED mtxn
  <2>1. old # t
    BY <1>2, <1>4 DEF Inv, UnbornUnknown, Running
  <2>2. txn \in [Trans -> {"none", "running", "committed", "aborted"}]
    BY DEF Inv, TypeOK
  <2>3. /\ \A u \in Trans : u # t => txn'[u] = Ended(txn, old, {})[u]
        /\ txn'[t] = "committed"
    BY <1>4 DEF Ended
  <2>4. {} \in SUBSET Family(old)
    OBVIOUS
  <2>5. /\ Ended(txn, old, {})[old] # "running"
        /\ \A u \in Trans : Ended(txn, old, {})[u] = "running" => Running(u)
    BY <1>4, <2>2, <2>4, EndedFacts, FamilyFacts DEF Running
  <2>6. \A u \in Trans : Running(u)' => Running(u)
    BY <2>3, <2>5 DEF Running
  <2>7. /\ \A u \in Trans : obj'[u] = "unborn" => obj[u] = "unborn" /\ u # t
    BY <1>4, <2>1 DEF Inv, TypeOK, Released
  <2>8. Grows(t)
    BY <1>1, <1>2, <1>4, <2>6, <2>7 DEF Grows, Causes
  <2>9. ~Dangling(t)'
    BY <1>2, <1>4 DEF Dangling, Causes
  <2> QED BY <1>4, <2>1, <2>2, <2>3, <2>4, <2>5, <2>8, <2>9, EndingHasCauses
<1>5. CASE Undefined
  <2>1. UNCHANGED <<obj, mtxn, txn, doomed>>
    BY <1>1, <1>5 DEF Undefined
  <2>2. ancestors'[t] = {}
    BY <1>1, NullAssumption DEF Begin, Inv, TypeOK
  <2>3. ASSUME NEW u \in Trans, Dangling(u)' PROVE HasCause(u)'
    <3>1. HasCause(u) /\ u # t
      BY <1>2, <2>1, <2>3 DEF Causes, Dangling, Running
    <3>2. doomed \subseteq Trans /\ t \notin doomed
      BY <1>2 DEF Causes, Inv, TypeOK
    <3>3. CASE \E c \in doomed : u \in {c} \cup ancestors[c]
      BY <1>2, <2>1, <3>2, <3>3 DEF HasCause
    <3>4. CASE \E a \in ancestors[u] : ~Running(a)
      BY <1>2, <2>1, <3>1, <3>4 DEF HasCause, Running
    <3> QED BY <3>1, <3>3, <3>4 DEF HasCause
  <2>4. ASSUME NEW u \in Trans, obj'[u] = "unborn"
        PROVE  /\ ~mtxn'[u] /\ u \notin doomed'
               /\ \A v \in Trans : u \notin ancestors'[v]
    BY <1>2, <2>1, <2>2, <2>4 DEF Causes
  <2> QED BY <2>3, <2>4 DEF Causes
<1> QED BY <1>3, <1>4, <1>5 DEF start

\* The last or another reference of the application goes away.
LEMMA DropHandleCauses ==
  ASSUME Inv, Causes, NEW t \in Trans, DropHandle(t)
  PROVE  Causes'
<1> DEFINE rest == held \ {t}
<1>1. t \in held /\ UNCHANGED <<ancestors, doomed>>
  BY DEF DropHandle
<1>2. CASE UNCHANGED <<obj, mtxn, txn>>
  BY <1>1, <1>2, SameCauses
<1>3. CASE /\ obj' = [obj EXCEPT ![t] = "deleted"]
           /\ UNCHANGED <<mtxn, txn>>
  <2>1. NoTrans \notin Trans
    BY NullAssumption
  <2>2. \A u \in Trans : obj'[u] = "unborn" => obj[u] = "unborn"
    BY <1>3 DEF Inv, TypeOK
  <2>3. Grows(NoTrans)
    BY <1>1, <1>3, <2>1, <2>2 DEF Grows, Causes, Running
  <2>4. \A u \in Trans : Dangling(u)' => Dangling(u) /\ u # NoTrans
    BY <1>3, <2>1 DEF Dangling, Running
  <2> QED BY <2>3, <2>4, CausesFrom
<1>4. CASE /\ Running(t)
           /\ obj' = [obj EXCEPT ![t] = "deleted"]
           /\ \E kept \in IF t \in dtorAborts THEN {{}} ELSE PossiblyKept(t) :
                EndTxn(t, kept, t \in dtorAborts \/ kept # {}, txn, mtxn)
  <2>1. PICK kept \in IF t \in dtorAborts THEN {{}} ELSE PossiblyKept(t) :
          EndTxn(t, kept, t \in dtorAborts \/ kept # {}, txn, mtxn)
    BY <1>4
  <2>2. kept \in SUBSET Family(t)
    BY <2>1, KeptFacts
  <2>3. ~(t \in dtorAborts \/ kept # {}) => {} \in PossiblyKept(t)
    BY <2>1
  <2>4. PICK ok \in BOOLEAN : ok = (t \in dtorAborts \/ kept # {})
    OBVIOUS
  <2>5. EndTxn(t, kept, ok, txn, mtxn) /\ (~ok => {} \in PossiblyKept(t))
    BY <2>1, <2>3, <2>4
  <2>6. /\ \A u \in Trans : u # t => obj'[u] = obj[u]
        /\ obj'[t] # "unborn"
    BY <1>4 DEF Inv, TypeOK
  <2> QED BY <1>1, <1>4, <2>2, <2>5, <2>6, EndTxnCauses
<1> QED BY <1>2, <1>3, <1>4 DEF DropHandle, Undefined

\* Transaction::commit() and Transaction::abort().
LEMMA TransactionEndCauses ==
  ASSUME Inv, Causes, NEW t \in Trans, TransactionCommit(t) \/ TransactionAbort(t)
  PROVE  Causes'
<1>1. UNCHANGED <<ancestors, doomed>>
  BY DEF TransactionCommit, TransactionAbort
<1>2. CASE Undefined
  BY <1>1, <1>2, SameCauses DEF Undefined
<1>3. ASSUME Running(t), UNCHANGED obj, NEW kept \in SUBSET Family(t), NEW ok \in BOOLEAN,
             EndTxn(t, kept, ok, txn, mtxn), ~ok => {} \in PossiblyKept(t)
      PROVE  Causes'
  <2>1. /\ \A u \in Trans : u # t => obj'[u] = obj[u]
        /\ obj'[t] # "unborn"
    BY <1>3 DEF Inv, NothingLost
  <2> QED BY <1>1, <1>3, <2>1, EndTxnCauses
<1>4. CASE TransactionCommit(t) /\ ~Undefined
  <2>1. Running(t) /\ UNCHANGED obj
    BY <1>4 DEF TransactionCommit
  <2>2. PICK kept \in PossiblyKept(t) : EndTxn(t, kept, kept # {}, txn, mtxn)
    BY <1>4 DEF TransactionCommit
  <2>3. PICK ok \in BOOLEAN : ok = (kept # {})
    OBVIOUS
  <2>4. kept \in SUBSET Family(t) /\ EndTxn(t, kept, ok, txn, mtxn)
        /\ (~ok => {} \in PossiblyKept(t))
    BY <2>2, <2>3, KeptFacts
  <2> QED BY <1>3, <2>1, <2>4
<1>5. CASE TransactionAbort(t) /\ ~Undefined
  <2>1. Running(t) /\ UNCHANGED obj /\ EndTxn(t, {}, TRUE, txn, mtxn)
    BY <1>5 DEF TransactionAbort
  <2>2. {} \in SUBSET Family(t)
    OBVIOUS
  <2> QED BY <1>3, <2>1, <2>2
<1> QED BY <1>2, <1>4, <1>5

\* Database::abort().
LEMMA DatabaseAbortCauses ==
  ASSUME Inv, Causes, NEW d \in Db, DatabaseAbort(d)
  PROVE  Causes'
<1> DEFINE old == implicit[d]
<1>1. UNCHANGED <<ancestors, doomed>>
  BY DEF DatabaseAbort
<1>2. CASE /\ old \in Trans /\ Running(old)
           /\ EndTxn(old, {}, TRUE, txn, mtxn)
           /\ obj' = [obj EXCEPT ![old] = Released(old, implicit', held, TRUE)]
  <2>1. /\ \A u \in Trans : u # old => obj'[u] = obj[u]
        /\ obj'[old] # "unborn"
    BY <1>2 DEF Inv, TypeOK, Released
  <2>2. {} \in SUBSET Family(old)
    OBVIOUS
  <2> QED BY <1>1, <1>2, <2>1, <2>2, EndTxnCauses
<1>3. CASE /\ old \in Trans => ~mtxn[old]
           /\ implicit' = [implicit EXCEPT ![d] = NoTrans]
           /\ obj' = IF old \in Trans
                       THEN [obj EXCEPT ![old] = Released(old, implicit', held, FALSE)]
                       ELSE obj
           /\ UNCHANGED <<held, mtxn, txn, handlers, signal, fate>>
  <2>1. InstallOverNone(d, NoTrans, obj, mtxn, txn, held)
    BY <1>3 DEF InstallOverNone, NeedsCommit, Connect
  <2>2. Ready(NoTrans, obj, mtxn, txn)
    BY NullAssumption, ReferencedReady
  <2> QED BY <1>1, <2>1, <2>2, InstallOldCauses DEF Install
<1>4. CASE Undefined
  BY <1>1, <1>4, SameCauses DEF Undefined
<1> QED BY <1>2, <1>3, <1>4 DEF DatabaseAbort

\* Every step preserves the causes.
LEMMA NextCauses == Inv /\ Causes /\ [Next]_vars => Causes'
<1> SUFFICES ASSUME Inv, Causes, [Next]_vars PROVE Causes'
  OBVIOUS
<1>1. ASSUME NEW t \in Trans, NEW p \in Trans \cup {NoTrans}, NewTransaction(t, p)
      PROVE  Causes'
  <2>1. Begin(t, p) /\ doomed' = doomed
        /\ obj' = [obj EXCEPT ![t] = "live"] /\ mtxn' = [mtxn EXCEPT ![t] = TRUE]
        /\ txn' = [txn EXCEPT ![t] = "running"]
    BY <1>1 DEF NewTransaction
  <2>2. /\ obj[t] = "unborn"
        /\ \A u \in Trans : u # t => ancestors'[u] = ancestors[u]
        /\ \A u \in Trans : obj[u] = "unborn" => u \notin ancestors'[t]
    BY <2>1, BeginFacts
  <2>3. /\ \A u \in Trans : u # t => obj'[u] = obj[u] /\ mtxn'[u] = mtxn[u] /\ txn'[u] = txn[u]
        /\ obj'[t] = "live" /\ txn'[t] = "running"
    BY <2>1 DEF Inv, TypeOK
  <2>4. Grows(t)
    BY <2>1, <2>2, <2>3 DEF Grows, Causes, Running
  <2>5. \A u \in Trans : Dangling(u)' => Dangling(u) /\ u # t
    BY <2>3 DEF Dangling, Running
  <2> QED BY <2>4, <2>5, CausesFrom
<1>2. ASSUME NEW t \in Trans, TxnDeadlock(t)
      PROVE  Causes'
  <2>1. /\ doomed' = doomed \cup {t} /\ Running(t)
        /\ UNCHANGED <<obj, mtxn, txn, ancestors>>
    BY <1>2 DEF TxnDeadlock
  <2>2. obj[t] # "unborn" /\ NoTrans \notin Trans
    BY <2>1, NullAssumption DEF Inv, NothingLost
  <2>3. Grows(NoTrans)
    BY <2>1, <2>2 DEF Grows, Causes, Running
  <2>4. \A u \in Trans : Dangling(u)' => Dangling(u) /\ u # NoTrans
    BY <2>1, <2>2 DEF Dangling, Running
  <2> QED BY <2>3, <2>4, CausesFrom
<1>3. ASSUME NEW t \in Trans, NEW v \in BOOLEAN, setDefaultDestructionIsAbort(t, v)
      PROVE  Causes'
  BY <1>3, SameCauses DEF setDefaultDestructionIsAbort
<1>4. ASSUME NEW t \in Trans,
             TransactionCommit(t) \/ TransactionAbort(t) \/ DropHandle(t)
      PROVE  Causes'
  BY <1>4, TransactionEndCauses, DropHandleCauses
<1>5. ASSUME NEW d \in Db, NEW t \in Trans \cup {NoTrans}, setImplicitTransaction(d, t)
      PROVE  Causes'
  <2>1. Ready(t, obj, mtxn, txn) /\ UNCHANGED <<ancestors, doomed>>
    BY <1>5, NullAssumption, ReferencedReady DEF setImplicitTransaction, Referenced
  <2>2. CASE Undefined
    BY <2>1, <2>2, SameCauses DEF Undefined
  <2> QED BY <1>5, <2>1, <2>2, InstallOldCauses, InstallThrowsCauses
          DEF setImplicitTransaction
<1>6. ASSUME NEW d \in Db, NEW arg \in Trans \cup {NoTrans}, open(d, arg)
      PROVE  Causes'
  <2> DEFINE t == freshenTransaction(d, arg)
  <2>1. t \in Trans \cup {NullTrans, NoTrans} /\ (t \in Trans => Referenced(t, implicit, held))
    BY <1>6, NullAssumption DEF open, freshenTransaction, Referenced, Inv, TypeOK
  <2>2. Ready(t, obj, mtxn, txn) /\ UNCHANGED <<ancestors, doomed>>
    BY <1>6, <2>1, ReferencedReady DEF open
  <2>3. CASE Undefined
    BY <2>2, <2>3, SameCauses DEF Undefined
  <2> QED BY <1>6, <2>2, <2>3, InstallOldCauses, InstallThrowsCauses DEF open
<1>7. ASSUME NEW d \in Db, NEW t \in Trans, start(d, t)
      PROVE  Causes'
  BY <1>7, StartCauses
<1>8. ASSUME NEW d \in Db, DatabaseAbort(d)
      PROVE  Causes'
  BY <1>8, DatabaseAbortCauses
<1>9. ASSUME NEW d \in Db, close(d)
      PROVE  Causes'
  <2>1. Ready(NoTrans, obj, mtxn, txn) /\ UNCHANGED <<ancestors, doomed>>
    BY <1>9, NullAssumption, ReferencedReady DEF close
  <2>2. CASE Undefined
    BY <2>1, <2>2, SameCauses DEF Undefined
  <2> QED BY <1>9, <2>1, <2>2, InstallOldCauses, InstallThrowsCauses DEF close
<1>10. CASE UNCHANGED vars
  BY <1>10, SameCauses DEF vars
<1> QED BY <1>1, <1>2, <1>3, <1>4, <1>5, <1>6, <1>7, <1>8, <1>9, <1>10 DEF Next

\* A Transaction points to a freed DB_TXN only after a failed commit of its own, of
\* which it or a descendant was the victim, or the end of an ancestor.
THEOREM DanglingTheorem == Spec => []DanglingHasACause
<1>1. Init => Causes
  BY DEF Init, Causes, Dangling
<1>2. Causes => DanglingHasACause
  BY DEF Causes, HasCause, DanglingHasACause
<1> QED BY <1>1, <1>2, InitInv, NextInv, NextCauses, PTL DEF Spec

-----------------------------------------------------------------------------
\* t ends by itself in this step, not by the end of an ancestor.
EndsItself(t) ==
    /\ Running(t) /\ txn'[t] # "running"
    /\ \A a \in ancestors[t] : Running(a) => txn'[a] = "running"

\* What EndClearsImplicit says of one step.
ClearStep ==
    \A d \in Db, t \in Trans :
        /\ Running(t) /\ txn'[t] # "running"
        /\ \A a \in ancestors[t] : Running(a) => txn'[a] = "running"
        /\ implicit'[d] = t
        => setImplicitTransaction(d, t) \/ open(d, NoTrans) \/ open(d, t)

\* Of a family only the root ends by itself.
LEMMA OnlyTheRoot ==
  ASSUME Inv, NEW r \in Trans, Running(r), NEW kept \in SUBSET Family(r),
         NEW tx \in [Trans -> {"none", "running", "committed", "aborted"}],
         txn' = Ended(tx, r, kept), \A u \in Trans : Running(u) => tx[u] = "running",
         NEW t \in Trans, EndsItself(t)
  PROVE  t = r
<1>1. t \in Family(r)
  BY EndedFacts DEF EndsItself
<1>2. txn'[r] # "running"
  BY EndedFacts, FamilyFacts
<1> QED BY <1>1, <1>2 DEF Family, EndsItself

\* What emits is implicit nowhere any more.
LEMMA EmissionClears ==
  ASSUME Inv, NEW r \in Trans, Running(r), implicit' = Cleared(r),
         \E kept \in SUBSET Family(r) : txn' = Ended(txn, r, kept)
  PROVE  ClearStep
<1>1. PICK kept \in SUBSET Family(r) : txn' = Ended(txn, r, kept)
  OBVIOUS
<1>2. \A t \in Trans : EndsItself(t) => t = r
  BY <1>1, OnlyTheRoot DEF Running, Inv, TypeOK
<1>3. \A d \in Db : implicit'[d] # r
  BY ClearedFacts, NullAssumption
<1> QED BY <1>2, <1>3 DEF ClearStep, EndsItself

\* Where nothing ends there is nothing to clear.
LEMMA NoneEndsClears ==
  ASSUME \A t \in Trans : Running(t) => txn'[t] = "running"
  PROVE  ClearStep
BY DEF ClearStep, EndsItself

\* setImplicitTransaction( new ): only the transaction it commits ends by itself,
\* and only the database that installs it again has it.
LEMMA InstallClears ==
  ASSUME Inv, NEW d \in Db, NEW new, NEW ob, NEW mt, NEW tx,
         Ready(new, ob, mt, tx), Install(d, new, ob, mt, tx, held),
         NEW e \in Db, NEW t \in Trans, EndsItself(t), implicit'[e] = t
  PROVE  e = d /\ t = new
<1> DEFINE old == implicit[d]
<1>1. /\ tx \in [Trans -> {"none", "running", "committed", "aborted"}]
      /\ \A u \in Trans : Running(u) => tx[u] = "running"
  BY DEF Ready, Running
<1>2. InstallOverOld(d, new, ob, mt, tx, held)
  BY <1>1 DEF Install, InstallOverNone, EndsItself
<1>3. old \in Trans /\ Running(old)
  BY <1>2 DEF InstallOverOld, NeedsCommit
<1>4. PICK kept \in SUBSET Family(old) : txn' = Ended(tx, old, kept)
  BY <1>2, <1>3, KeptFacts DEF InstallOverOld, EndTxn
<1>5. t = old
  BY <1>1, <1>3, <1>4, OnlyTheRoot
<1>6. implicit' = [Cleared(old) EXCEPT ![d] = new]
  BY <1>2 DEF InstallOverOld
<1>7. implicit'[e] = IF e = d THEN new ELSE IF implicit[e] = old THEN NoTrans ELSE implicit[e]
  BY <1>3, <1>6, ClearedFacts
<1> QED BY <1>3, <1>5, <1>7, NullAssumption

\* The exception of the old transaction's commit comes after the emission.
LEMMA InstallThrowsClears ==
  ASSUME Inv, NEW d \in Db, InstallThrows(d)
  PROVE  ClearStep
<1>1. implicit[d] \in Trans /\ Running(implicit[d])
      /\ txn' = Ended(txn, implicit[d], {}) /\ implicit' = Cleared(implicit[d])
  BY DEF InstallThrows, NeedsCommit, EndTxn
<1>2. {} \in SUBSET Family(implicit[d])
  OBVIOUS
<1> QED BY <1>1, <1>2, EmissionClears

\* What ends by itself is cleared by every step.
LEMMA NextClears == Inv /\ Next => ClearStep
<1> SUFFICES ASSUME Inv, Next PROVE ClearStep
  OBVIOUS
<1>1. ASSUME UNCHANGED txn PROVE ClearStep
  BY <1>1, NoneEndsClears DEF Running
<1>2. ASSUME NEW t \in Trans,
             \/ \E p \in Trans \cup {NoTrans} : NewTransaction(t, p)
             \/ TxnDeadlock(t)
             \/ \E v \in BOOLEAN : setDefaultDestructionIsAbort(t, v)
      PROVE  ClearStep
  <2>1. CASE txn' = [txn EXCEPT ![t] = "running"]
    BY <2>1, NoneEndsClears DEF Running, Inv, TypeOK
  <2> QED BY <1>1, <1>2, <2>1 DEF NewTransaction, TxnDeadlock, setDefaultDestructionIsAbort
<1>3. ASSUME NEW t \in Trans, TransactionCommit(t) \/ TransactionAbort(t) \/ DropHandle(t)
      PROVE  ClearStep
  <2>1. {} \in SUBSET Family(t)
    OBVIOUS
  <2>2. CASE /\ Running(t) /\ implicit' = Cleared(t)
             /\ \E kept \in SUBSET Family(t) : txn' = Ended(txn, t, kept)
    BY <2>2, EmissionClears
  <2>3. CASE TransactionCommit(t)
    BY <1>1, <2>2, <2>3, KeptFacts DEF TransactionCommit, EndTxn, Undefined
  <2>4. CASE TransactionAbort(t)
    BY <1>1, <2>1, <2>2, <2>4 DEF TransactionAbort, EndTxn, Undefined
  <2>5. CASE DropHandle(t)
    <3>1. ASSUME NEW kept \in IF t \in dtorAborts THEN {{}} ELSE PossiblyKept(t)
          PROVE  kept \in SUBSET Family(t)
      BY <2>1, <3>1, KeptFacts
    <3> QED BY <1>1, <2>2, <2>5, <3>1 DEF DropHandle, EndTxn, Undefined
  <2> QED BY <1>3, <2>3, <2>4, <2>5
<1>4. ASSUME NEW d \in Db, NEW t \in Trans \cup {NoTrans}, setImplicitTransaction(d, t)
      PROVE  ClearStep
  <2>1. Ready(t, obj, mtxn, txn)
    BY <1>4, NullAssumption, ReferencedReady DEF setImplicitTransaction, Referenced
  <2>2. CASE Install(d, t, obj, mtxn, txn, held)
    BY <1>4, <2>1, <2>2, InstallClears DEF ClearStep, EndsItself
  <2> QED BY <1>1, <1>4, <2>2, InstallThrowsClears DEF setImplicitTransaction, Undefined
<1>5. ASSUME NEW d \in Db, NEW arg \in Trans \cup {NoTrans}, open(d, arg)
      PROVE  ClearStep
  <2> DEFINE t == freshenTransaction(d, arg)
  <2>1. t \in Trans \cup {NullTrans, NoTrans} /\ (t \in Trans => Referenced(t, implicit, held))
    BY <1>5, NullAssumption DEF open, freshenTransaction, Referenced, Inv, TypeOK
  <2>2. Ready(t, obj, mtxn, txn)
    BY <2>1, ReferencedReady
  <2>3. CASE Install(d, t, obj, mtxn, txn, held)
    <3>1. ASSUME NEW e \in Db, NEW u \in Trans, EndsItself(u), implicit'[e] = u
          PROVE  e = d /\ (arg = u \/ arg = NoTrans)
      BY <2>2, <2>3, <3>1, InstallClears DEF freshenTransaction
    <3> QED BY <1>5, <3>1 DEF ClearStep, EndsItself
  <2> QED BY <1>1, <1>5, <2>3, InstallThrowsClears DEF open, Undefined
<1>6. ASSUME NEW d \in Db, NEW t \in Trans, start(d, t)
      PROVE  ClearStep
  <2> DEFINE old == implicit[d]
             ob == [obj EXCEPT ![t] = "live"]
             mt == [mtxn EXCEPT ![t] = TRUE]
             tx == [txn EXCEPT ![t] = "running"]
  <2>1. ~Running(t) /\ obj[t] = "unborn"
    BY <1>6 DEF start, Begin, Inv, UnbornUnknown, Running
  <2>2. CASE Install(d, t, ob, mt, tx, held)
    <3>1. Ready(t, ob, mt, tx)
      BY <2>1 DEF Ready, Inv, TypeOK
    <3> HIDE DEF ob, mt, tx
    <3> QED BY <2>1, <2>2, <3>1, InstallClears DEF ClearStep, EndsItself
  <2>3. CASE /\ old \in Trans /\ Running(old)
             /\ txn' = [Ended(txn, old, {}) EXCEPT ![t] = "committed"]
             /\ implicit' = Cleared(old)
    <3>1. ASSUME NEW u \in Trans, EndsItself(u) PROVE u = old
      <4>1. u # t /\ Running(u) /\ u \in Family(old)
        BY <2>1, <2>3, <3>1 DEF EndsItself, Ended, Running, Inv, TypeOK
      <4>2. txn'[old] # "running"
        BY <2>3 DEF Ended, Family
      <4> QED BY <2>3, <3>1, <4>1, <4>2 DEF EndsItself, Family
    <3>2. \A e \in Db : implicit'[e] # old
      BY <2>3, ClearedFacts, NullAssumption
    <3> QED BY <3>1, <3>2 DEF ClearStep, EndsItself
  <2>4. CASE Undefined
    BY <1>1, <2>4 DEF Undefined
  <2> QED BY <1>6, <2>2, <2>3, <2>4 DEF start
<1>7. ASSUME NEW d \in Db, DatabaseAbort(d)
      PROVE  ClearStep
  <2> DEFINE old == implicit[d]
  <2>1. CASE /\ old \in Trans /\ Running(old) /\ EndTxn(old, {}, TRUE, txn, mtxn)
             /\ implicit' = [Cleared(old) EXCEPT ![d] = NoTrans]
    <3>1. {} \in SUBSET Family(old)
      OBVIOUS
    <3>2. implicit' = Cleared(old)
      BY <2>1, ClearedFacts
    <3> QED BY <2>1, <3>1, <3>2, EmissionClears DEF EndTxn
  <2> QED BY <1>1, <1>7, <2>1 DEF DatabaseAbort, Undefined
<1>8. ASSUME NEW d \in Db, close(d)
      PROVE  ClearStep
  <2>1. Ready(NoTrans, obj, mtxn, txn)
    BY NullAssumption, ReferencedReady
  <2>2. CASE Install(d, NoTrans, obj, mtxn, txn, held)
    BY <2>1, <2>2, NullAssumption, InstallClears DEF ClearStep, EndsItself
  <2> QED BY <1>1, <1>8, <2>2, InstallThrowsClears DEF close, Undefined
<1> QED BY <1>2, <1>3, <1>4, <1>5, <1>6, <1>7, <1>8 DEF Next

\* A transaction that ends by itself is no database's implicit transaction any more,
\* but for a database that installs it by the same call.
THEOREM EndClearsTheorem == Spec => EndClearsImplicit
<1>1. Inv /\ [Next]_vars => [ClearStep]_vars
  BY NextClears
<1>2. Spec => [][ClearStep]_vars
  BY <1>1, InitInv, NextInv, PTL DEF Spec
<1> QED BY <1>2 DEF EndClearsImplicit, ClearStep

=============================================================================
