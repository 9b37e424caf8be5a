----------------------------- MODULE ImplicitTxn -----------------------------
(***************************************************************************)
(* STLdb4::Transaction and the implicit transaction of STLdb4::Database:   *)
(* the C++ objects that own, share and end a Berkeley DB transaction.      *)
(*                                                                         *)
(* A Transaction owns at most one DB_TXN (m_txn); smart pointers count its *)
(* references and the last one destroys it, which ends the DB_TXN.  Any    *)
(* number of databases may have the same Transaction as their implicit one;*)
(* they learn that it has ended from the signals it emits.  What BdbTxn    *)
(* says of DB_TXNs is kept here as far as the wrapper can tell: a DB_TXN   *)
(* runs, is committed or is aborted, and ending it ends its live kids.     *)
(***************************************************************************)
EXTENDS Naturals

CONSTANTS
    Db,              \* Database objects
    Trans,           \* Transaction objects that are ever created
    NullTrans,       \* the NullTransaction singleton
    NoTrans,         \* a null fh_trans
    FailingCommits,  \* may a DB_TXN be told DB_LOCK_DEADLOCK, so that its
                     \* commit fails
    Nesting          \* does the application create child transactions

ASSUME FlagAssumption == /\ FailingCommits \in BOOLEAN
                         /\ Nesting \in BOOLEAN
ASSUME NullAssumption == NullTrans \notin Trans /\ NoTrans \notin Trans \cup {NullTrans}

VARIABLES
    obj,        \* life of each Transaction object
    held,       \* the objects an fh_trans of the application points to
    mtxn,       \* m_txn # 0
    txn,        \* the DB_TXN each object was given
    ancestors,  \* DB_TXN.parent, transitively
    doomed,     \* DB_TXNs with TXN_DEADLOCK
    dtorAborts, \* m_DefaultDestructionIsAbort
    implicit,   \* m_implicitTransaction
    handlers,   \* <<t, d>>: d's handler is connected to t's signals
    db,         \* life of each Database
    signal,     \* the last signal emitted: its bool, and whether the DB_TXN's
                \* commit or abort returned 0
    fate        \* of the process

vars == <<obj, held, mtxn, txn, ancestors, doomed, dtorAborts, implicit,
          handlers, db, signal, fate>>

NoSignal == [arg |-> FALSE, ok |-> FALSE]

Init ==
    /\ obj = [t \in Trans |-> "unborn"]
    /\ held = {}
    /\ mtxn = [t \in Trans |-> FALSE]
    /\ txn = [t \in Trans |-> "none"]
    /\ ancestors = [t \in Trans |-> {}]
    /\ doomed = {}
    /\ dtorAborts = {}
    /\ implicit = [d \in Db |-> NoTrans]
    /\ handlers = {}
    /\ db = [d \in Db |-> "created"]
    /\ signal = NoSignal
    /\ fate = "ok"

-----------------------------------------------------------------------------
(* DB_TXNs. *)

Running(t) == txn[t] = "running"

\* m_txn points to a DB_TXN that has been freed.
Dangling(t) == mtxn[t] /\ ~Running(t)

Family(t) == {t} \cup {c \in Trans : Running(c) /\ t \in ancestors[c]}

\* The members of t's family that may be committed when t's commit is called:
\* none if it fails (BdbTxn!Kept without the log records it depends on).
PossiblyKept(t) ==
    {kept \in SUBSET Family(t) :
       /\ kept \cap doomed = {}
       /\ kept # {} => t \in kept
       /\ \A c \in kept, e \in Family(t) : e \in ancestors[c] => e \in kept
       /\ Family(t) \cap doomed = {} => kept = Family(t)}

\* tx once t's family has ended.
Ended(tx, t, kept) ==
    [u \in Trans |-> IF u \in kept THEN "committed"
                     ELSE IF u \in Family(t) THEN "aborted" ELSE tx[u]]

-----------------------------------------------------------------------------
(* Signals and references. *)

Connected(t) == {d \in Db : <<t, d>> \in handlers}

\* Mutant: the handler does not clear.
Cleared_none(t) == implicit

\* Every connected database runs clearImplicitTransaction.
Cleared(t) == [d \in Db |-> IF d \in Connected(t) THEN NoTrans ELSE implicit[d]]

\* Mutant: m_txn is not reset.
EndTxn_keepsHandle(t, kept, ok, tx, mt) ==
    /\ txn' = Ended(tx, t, kept)
    /\ mtxn' = mt
    /\ signal' = [arg |-> ~ok, ok |-> ok]

\* commit() and abort() of a Transaction whose DB_TXN runs, up to the emission.
\* ok: the DB_TXN's method returned 0; only then is m_txn reset.
EndTxn(t, kept, ok, tx, mt) ==
    /\ txn' = Ended(tx, t, kept)
    /\ mtxn' = IF ok THEN [mt EXCEPT ![t] = FALSE] ELSE mt
    /\ signal' = [arg |-> ~ok, ok |-> ok]

Referenced(t, imp, hld) == t \in hld \/ \E d \in Db : imp[d] = t

\* t after the references to it have become those of imp and hld: the last
\* smart pointer to let go deletes it, the RefCountBumpRAII of commit() and
\* abort() does not.
Released(t, imp, hld, ended) ==
    IF Referenced(t, imp, hld) THEN "live" ELSE IF ended THEN "leaked" ELSE "deleted"

-----------------------------------------------------------------------------
(* setImplicitTransaction( new ), with ob, mt and tx what obj, mtxn and txn  *)
(* are when it is called, and hld the application's pointers.               *)

\* Mutant: only a database's own transaction is committed, not the application's.
NeedsCommit_unheld(old) == old \in Trans /\ mtxn[old] /\ old \notin held

\* Mutant: the old transaction is just dropped.
NeedsCommit_never(old) == FALSE

\* The old implicit transaction still has a DB_TXN for commit() to commit.
NeedsCommit(old) == old \in Trans /\ mtxn[old]

\* Mutant: the signals are connected without looking at the pointer.
Connect_null(t, d) == handlers \cup {<<t, d>>}

\* Mutant: the signals are not connected.
Connect_never(t, d) == handlers

\* A non-null transaction that becomes implicit is connected.
Connect(t, d) == IF t = NoTrans THEN handlers ELSE handlers \cup {<<t, d>>}

\* There is none, or it has ended already: its commit() does nothing.
InstallOverNone(d, new, ob, mt, tx, hld) ==
    LET old == implicit[d]
        imp == [implicit EXCEPT ![d] = new]
    IN  /\ ~NeedsCommit(old)
        /\ implicit' = imp
        /\ handlers' = Connect(new, d)
        /\ obj' = IF old \in Trans
                    THEN [ob EXCEPT ![old] = Released(old, imp, hld, FALSE)] ELSE ob
        /\ txn' = tx
        /\ mtxn' = mt
        /\ fate' = fate
        /\ signal' = signal

\* The old one is committed, which clears it in every database that shares it.
InstallOverOld(d, new, ob, mt, tx, hld) ==
    LET old == implicit[d]
        imp == [Cleared(old) EXCEPT ![d] = new]
    IN  /\ NeedsCommit(old) /\ Running(old)
        /\ \E kept \in PossiblyKept(old) \ {{}} : EndTxn(old, kept, TRUE, tx, mt)
        /\ implicit' = imp
        /\ handlers' = Connect(new, d)
        /\ obj' = [ob EXCEPT ![old] = Released(old, imp, hld, TRUE)]
        /\ fate' = fate

Install(d, new, ob, mt, tx, hld) ==
    \/ InstallOverNone(d, new, ob, mt, tx, hld)
    \/ InstallOverOld(d, new, ob, mt, tx, hld)

\* Its commit fails: the databases have let go of it when the exception leaves
\* commit(), m_txn has not been reset, and new is not installed.
InstallThrows(d) ==
    LET old == implicit[d] IN
    /\ NeedsCommit(old) /\ Running(old)
    /\ {} \in PossiblyKept(old)
    /\ EndTxn(old, {}, FALSE, txn, mtxn)
    /\ implicit' = Cleared(old)
    /\ obj' = [obj EXCEPT ![old] = Released(old, Cleared(old), held, TRUE)]
    /\ UNCHANGED <<held, handlers>>

Undefined == fate' = "undefined" /\ UNCHANGED <<obj, held, mtxn, txn, implicit,
                                                handlers, signal>>

-----------------------------------------------------------------------------
(* The application's calls. *)

\* The txn_begin of a new Transaction; an ended parent is a null one.
Begin(t, p) ==
    /\ obj[t] = "unborn"
    /\ p \in Trans => p \in held /\ ~Dangling(p)
    /\ ancestors' = [ancestors EXCEPT ![t] =
                        IF p \in Trans /\ mtxn[p] THEN {p} \cup ancestors[p] ELSE {}]

NewTransaction(t, p) ==
    /\ fate = "ok"
    /\ p # NoTrans => Nesting
    /\ Begin(t, p)
    /\ obj' = [obj EXCEPT ![t] = "live"]
    /\ held' = held \cup {t}
    /\ mtxn' = [mtxn EXCEPT ![t] = TRUE]
    /\ txn' = [txn EXCEPT ![t] = "running"]
    /\ UNCHANGED <<doomed, dtorAborts, implicit, handlers, db, signal, fate>>

\* Some operation on t returns DB_LOCK_DEADLOCK.
TxnDeadlock(t) ==
    /\ fate = "ok"
    /\ FailingCommits
    /\ Running(t)
    /\ doomed' = doomed \cup {t}
    /\ UNCHANGED <<obj, held, mtxn, txn, ancestors, dtorAborts, implicit,
                   handlers, db, signal, fate>>

setDefaultDestructionIsAbort(t, v) ==
    /\ fate = "ok"
    /\ t \in held
    /\ dtorAborts' = IF v THEN dtorAborts \cup {t} ELSE dtorAborts \ {t}
    /\ UNCHANGED <<obj, held, mtxn, txn, ancestors, doomed, implicit, handlers,
                   db, signal, fate>>

TransactionCommit(t) ==
    /\ fate = "ok"
    /\ t \in held
    /\ mtxn[t]
    /\ \/ /\ Running(t)
          /\ \E kept \in PossiblyKept(t) : EndTxn(t, kept, kept # {}, txn, mtxn)
          /\ implicit' = Cleared(t)
          /\ UNCHANGED <<obj, held, handlers, fate>>
       \/ Dangling(t) /\ Undefined
    /\ UNCHANGED <<ancestors, doomed, dtorAborts, db>>

TransactionAbort(t) ==
    /\ fate = "ok"
    /\ t \in held
    /\ mtxn[t]
    /\ \/ /\ Running(t)
          /\ EndTxn(t, {}, TRUE, txn, mtxn)
          /\ implicit' = Cleared(t)
          /\ UNCHANGED <<obj, held, handlers, fate>>
       \/ Dangling(t) /\ Undefined
    /\ UNCHANGED <<ancestors, doomed, dtorAborts, db>>

\* An fh_trans of the application goes away; the last reference runs
\* ~Transaction, and an exception that leaves it ends the process.
DropHandle(t) ==
    LET rest == held \ {t} IN
    /\ fate = "ok"
    /\ t \in held
    /\ \/ /\ Referenced(t, implicit, rest)
          /\ held' = rest
          /\ UNCHANGED <<obj, mtxn, txn, implicit, handlers, signal, fate>>
       \/ /\ ~Referenced(t, implicit, rest)
          /\ ~mtxn[t]
          /\ held' = rest
          /\ obj' = [obj EXCEPT ![t] = "deleted"]
          /\ UNCHANGED <<mtxn, txn, implicit, handlers, signal, fate>>
       \/ /\ ~Referenced(t, implicit, rest)
          /\ mtxn[t] /\ Running(t)
          /\ \E kept \in IF t \in dtorAborts THEN {{}} ELSE PossiblyKept(t) :
               LET ok == t \in dtorAborts \/ kept # {} IN
               /\ EndTxn(t, kept, ok, txn, mtxn)
               /\ fate' = IF ok THEN fate ELSE "terminated"
          /\ held' = rest
          /\ obj' = [obj EXCEPT ![t] = "deleted"]
          /\ implicit' = Cleared(t)
          /\ UNCHANGED handlers
       \/ /\ ~Referenced(t, implicit, rest)
          /\ Dangling(t)
          /\ Undefined
    /\ UNCHANGED <<ancestors, doomed, dtorAborts, db>>

\* setImplicitTransaction( t ); Database::commit() is the call with a null t.
setImplicitTransaction(d, t) ==
    /\ fate = "ok"
    /\ db[d] # "closed"
    /\ t # NoTrans => t \in held
    /\ \/ Install(d, t, obj, mtxn, txn, held) /\ held' = held
       \/ InstallThrows(d) /\ fate' = fate
       \/ implicit[d] \in Trans /\ Dangling(implicit[d]) /\ Undefined
    /\ UNCHANGED <<ancestors, doomed, dtorAborts, db>>

\* start(): when the old transaction's commit throws, the argument that holds
\* the new one is destroyed and commits it.
start(d, t) ==
    /\ fate = "ok"
    /\ db[d] # "closed"
    /\ Begin(t, NoTrans)
    /\ \/ /\ Install(d, t, [obj EXCEPT ![t] = "live"], [mtxn EXCEPT ![t] = TRUE],
                     [txn EXCEPT ![t] = "running"], held)
          /\ held' = held
       \/ LET old == implicit[d] IN
          /\ old \in Trans /\ mtxn[old] /\ Running(old)
          /\ {} \in PossiblyKept(old)
          /\ txn' = [Ended(txn, old, {}) EXCEPT ![t] = "committed"]
          /\ signal' = [arg |-> FALSE, ok |-> TRUE]
          /\ implicit' = Cleared(old)
          /\ obj' = [obj EXCEPT ![old] = Released(old, Cleared(old), held, TRUE),
                                ![t] = "deleted"]
          /\ UNCHANGED <<held, mtxn, handlers, fate>>
       \/ implicit[d] \in Trans /\ Dangling(implicit[d]) /\ Undefined
    /\ UNCHANGED <<doomed, dtorAborts, db>>

DatabaseAbort(d) ==
    LET old == implicit[d] IN
    /\ fate = "ok"
    /\ db[d] # "closed"
    /\ old # NoTrans
    /\ \/ /\ old \in Trans /\ mtxn[old] /\ Running(old)
          /\ EndTxn(old, {}, TRUE, txn, mtxn)
          /\ implicit' = [Cleared(old) EXCEPT ![d] = NoTrans]
          /\ obj' = [obj EXCEPT ![old] = Released(old, implicit', held, TRUE)]
          /\ UNCHANGED <<held, handlers, fate>>
       \/ /\ old \in Trans => ~mtxn[old]
          /\ implicit' = [implicit EXCEPT ![d] = NoTrans]
          /\ obj' = IF old \in Trans
                      THEN [obj EXCEPT ![old] = Released(old, implicit', held, FALSE)]
                      ELSE obj
          /\ UNCHANGED <<held, mtxn, txn, handlers, signal, fate>>
       \/ old \in Trans /\ Dangling(old) /\ Undefined
    /\ UNCHANGED <<ancestors, doomed, dtorAborts, db>>

freshenTransaction(d, t) ==
    IF t # NoTrans THEN t ELSE IF implicit[d] # NoTrans THEN implicit[d] ELSE NullTrans

\* impl_open: whatever transaction was used becomes the implicit one.  A DB->open
\* that fails throws before anything has changed.
open(d, arg) ==
    LET t == freshenTransaction(d, arg) IN
    /\ fate = "ok"
    /\ db[d] = "created"
    /\ arg # NoTrans => arg \in held
    /\ \/ /\ t \in Trans => ~Dangling(t)
          /\ Install(d, t, obj, mtxn, txn, held) /\ held' = held
          /\ db' = [db EXCEPT ![d] = "open"]
       \/ /\ t \in Trans => ~Dangling(t)
          /\ InstallThrows(d) /\ fate' = fate
          /\ db' = [db EXCEPT ![d] = "open"]
       \/ /\ \/ t \in Trans /\ Dangling(t)
             \/ implicit[d] \in Trans /\ Dangling(implicit[d])
          /\ Undefined
          /\ UNCHANGED db
    /\ UNCHANGED <<ancestors, doomed, dtorAborts>>

\* Mutant: the implicit transaction is left to its other owners.
close_noCommit(d) ==
    /\ fate = "ok"
    /\ db[d] # "closed"
    /\ db' = [db EXCEPT ![d] = "closed"]
    /\ UNCHANGED <<obj, held, mtxn, txn, ancestors, doomed, dtorAborts, implicit,
                   handlers, signal, fate>>

\* close(), called by the application or by ~Database; in the destructor an
\* exception ends the process, elsewhere the database stays open.
close(d) ==
    /\ fate = "ok"
    /\ db[d] # "closed"
    /\ \/ /\ Install(d, NoTrans, obj, mtxn, txn, held) /\ held' = held
          /\ db' = [db EXCEPT ![d] = "closed"]
       \/ InstallThrows(d) /\ fate' \in {"ok", "terminated"} /\ UNCHANGED db
       \/ /\ implicit[d] \in Trans /\ Dangling(implicit[d])
          /\ Undefined
          /\ UNCHANGED db
    /\ UNCHANGED <<ancestors, doomed, dtorAborts>>

Next ==
    \/ \E t \in Trans : \/ \E p \in Trans \cup {NoTrans} : NewTransaction(t, p)
                        \/ TxnDeadlock(t)
                        \/ \E v \in BOOLEAN : setDefaultDestructionIsAbort(t, v)
                        \/ TransactionCommit(t)
                        \/ TransactionAbort(t)
                        \/ DropHandle(t)
    \/ \E d \in Db : \/ \E t \in Trans \cup {NoTrans} :
                          setImplicitTransaction(d, t) \/ open(d, t)
                     \/ \E t \in Trans : start(d, t)
                     \/ DatabaseAbort(d)
                     \/ close(d)

Spec == Init /\ [][Next]_vars

-----------------------------------------------------------------------------
(* Properties. *)

\* Every variable has its type.
TypeOK ==
    /\ obj \in [Trans -> {"unborn", "live", "leaked", "deleted"}]
    /\ held \subseteq Trans
    /\ mtxn \in [Trans -> BOOLEAN]
    /\ txn \in [Trans -> {"none", "running", "committed", "aborted"}]
    /\ ancestors \in [Trans -> SUBSET Trans]
    /\ doomed \subseteq Trans
    /\ dtorAborts \subseteq Trans
    /\ implicit \in [Db -> Trans \cup {NullTrans, NoTrans}]
    /\ handlers \subseteq (Trans \cup {NullTrans}) \X Db
    /\ db \in [Db -> {"created", "open", "closed"}]
    /\ signal \in [arg : BOOLEAN, ok : BOOLEAN]
    /\ fate \in {"ok", "undefined", "terminated"}

\* A running transaction tells its end to exactly the databases it is implicit
\* in, although no handler is ever disconnected: a stale connection only leads
\* to a transaction that cannot emit again (setImplicitTransaction,
\* clearImplicitTransaction).
HandlersMatchImplicit ==
    \A t \in Trans, d \in Db :
        Running(t) => (<<t, d>> \in handlers <=> implicit[d] = t)

\* No DB_TXN is left running (and holding its locks) when nothing refers to the
\* Transaction that owns it any more, leaks included.
NothingLost ==
    \A t \in Trans : Running(t) => obj[t] = "live" /\ mtxn[t] /\ Referenced(t, implicit, held)

\* A running transaction's signal never reaches a closed database.
ClosedIsQuiet ==
    \A t \in Trans, d \in Db : Running(t) /\ <<t, d>> \in handlers => db[d] # "closed"

\* Whatever ends a transaction itself, one of the databases that share it or its
\* own methods, it is no database's implicit transaction any more
\* (stldb4.hh:977-980), but for a database that installs it by the same call:
\* open() and setImplicitTransaction() of the transaction that is implicit
\* already.  (An ancestor's end takes it without telling anybody.)
EndClearsImplicit ==
    [][\A d \in Db, t \in Trans :
         /\ Running(t) /\ txn'[t] # "running"
         /\ \A a \in ancestors[t] : Running(a) => txn'[a] = "running"
         /\ implicit'[d] = t
         => setImplicitTransaction(d, t) \/ open(d, NoTrans) \/ open(d, t)]_vars

\* A Transaction that points to a freed DB_TXN had a commit that failed, since
\* it or a descendant was a deadlock victim, or lost its DB_TXN to an
\* ancestor's end: no other way leads there (stldb4.cpp:444-452, 466-474).
DanglingHasACause ==
    \A t \in Trans : obj[t] = "live" /\ Dangling(t) =>
        \/ \E c \in doomed : t \in {c} \cup ancestors[c]
        \/ \E a \in ancestors[t] : ~Running(a)

\* A database lets go of a running implicit transaction only by a step that
\* ends it: no operation drops one half way.
ImplicitKeptUntilEnd ==
    [][\A d \in Db, t \in Trans :
         implicit[d] = t /\ Running(t) /\ implicit'[d] # t => txn'[t] # "running"]_vars

=============================================================================
