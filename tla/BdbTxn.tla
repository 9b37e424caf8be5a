------------------------------- MODULE BdbTxn -------------------------------
(***************************************************************************)
(* The transaction subsystem of the Berkeley DB 4.6 tree that libstldb4    *)
(* wraps: the DB_TXN handles of txn/txn.c, the rules common/db_err.c       *)
(* imposes on an operation that names one, and the record locks lock/lock.c*)
(* grants to them.                                                         *)
(*                                                                         *)
(* A transaction updates the store in place.  The log records it keeps are *)
(* abstracted to the image a record had before the transaction first wrote *)
(* it: undoing the records newest first restores exactly that image.  A    *)
(* record that is logged is write locked, and both pass to the parent when *)
(* a child commits, so one variable stands for both.  A Key is one lock    *)
(* object: the page, in a B-tree, that holds the record.                   *)
(*                                                                         *)
(* A transaction id is larger than its parent's, because ids are handed    *)
(* out in increasing order (the wrap-around at TXN_MAXIMUM is left out).   *)
(***************************************************************************)
EXTENDS Naturals

CONSTANTS
    MaxTxn,            \* bound: how many transactions are begun
    MaxCursors,        \* bound: cursors open at a time in one transaction
    Key, Val,
    InitStore,         \* the store the environment is opened on
    NoImage,           \* not a value: the transaction has not logged the record
    ParentMayOperate   \* may the application use a parent that has active kids

ASSUME BoundAssumption == MaxTxn \in Nat /\ MaxCursors \in Nat
ASSUME StoreAssumption == InitStore \in [Key -> Val] /\ NoImage \notin Val
ASSUME ClientAssumption == ParentMayOperate \in BOOLEAN

Txn == 1..MaxTxn
None == 0              \* "no parent", NULL in the code
Clean == [k \in Key |-> NoImage]

VARIABLES
    lastTxnid,   \* region->last_txnid
    status,      \* td->status; a transaction that ended has no DB_TXN any more
    ancestors,   \* the chain of DB_TXN.parent, as a set
    deadlock,    \* TXN_DEADLOCK in DB_TXN.flags
    cursors,     \* DB_TXN.cursors
    readLocks,   \* DB_LOCK_READ locks of the transaction's locker
    before,      \* its log records: before[t][k] is the image t overwrote
    store,       \* the records, as a reader would find them
    panic        \* the environment has panicked

vars == <<lastTxnid, status, ancestors, deadlock, cursors, readLocks, before,
          store, panic>>

Init ==
    /\ lastTxnid = None
    /\ status = [t \in Txn |-> "unused"]
    /\ ancestors = [t \in Txn |-> {}]
    /\ deadlock = [t \in Txn |-> FALSE]
    /\ cursors = [t \in Txn |-> 0]
    /\ readLocks = [t \in Txn |-> {}]
    /\ before = [t \in Txn |-> Clean]
    /\ store = InitStore
    /\ panic = FALSE

-----------------------------------------------------------------------------
(* The transaction tree. *)

Running(t) == status[t] = "running"

IsParent(p, t) == ancestors[t] = {p} \cup ancestors[p]

\* Mutant: the end of a transaction forgets the kids of its kids.
Descendants_kidsOnly(t) == {c \in Txn : Running(c) /\ IsParent(t, c)}

Descendants(t) == {c \in Txn : Running(c) /\ t \in ancestors[c]}

Family(t) == {t} \cup Descendants(t)

\* DB_TXN.kids
Kids(t) == {c \in Descendants(t) : IsParent(t, c)}

-----------------------------------------------------------------------------
(* The lock table. *)

WriteLocked(t, k) == before[t][k] # NoImage

\* Mutant: any two transactions of one tree share their locks.
Stranger_sharesTree(t, u) == u # t /\ u \notin ancestors[t] /\ ancestors[u] \cap ancestors[t] = {}

\* A lock of the requester's own, or of an ancestor, stops nobody.
Stranger(t, u) == u # t /\ u \notin ancestors[t]

\* Mutant: writers do not wait for readers.
WriteConflict_ignoresReaders(t, k) == \E u \in Txn : Stranger(t, u) /\ WriteLocked(u, k)

WriteConflict(t, k) ==
    \E u \in Txn : Stranger(t, u) /\ (WriteLocked(u, k) \/ k \in readLocks[u])

\* Mutant: readers see uncommitted records.
ReadConflict_dirty(t, k) == FALSE

ReadConflict(t, k) == \E u \in Txn : Stranger(t, u) /\ WriteLocked(u, k)

\* The holders are scanned in the order they were granted, and a lock the
\* requester holds in the mode asked for is granted again at once.
GrantWrite(t, k) == WriteLocked(t, k) \/ ~WriteConflict(t, k)

GrantRead(t, k) == k \in readLocks[t] \/ ~ReadConflict(t, k)

-----------------------------------------------------------------------------
(* Operations on records. *)

\* What an operation that names transaction t needs before it asks for a lock.
MayUse(t) ==
    /\ ~panic
    /\ Running(t)
    /\ ~deadlock[t]
    /\ ParentMayOperate \/ Kids(t) = {}

TxnBegin(p) ==
    LET t == lastTxnid + 1 IN
    /\ ~panic
    /\ lastTxnid < MaxTxn
    /\ p # None => Running(p)
    /\ lastTxnid' = t
    /\ status' = [status EXCEPT ![t] = "running"]
    /\ ancestors' = [ancestors EXCEPT ![t] =
                        IF p = None THEN {} ELSE {p} \cup ancestors[p]]
    /\ UNCHANGED <<deadlock, cursors, readLocks, before, store, panic>>

DbPut(t, k, v) ==
    /\ MayUse(t)
    /\ GrantWrite(t, k)
    /\ store' = [store EXCEPT ![k] = v]
    /\ before' = [before EXCEPT ![t][k] =
                     IF WriteLocked(t, k) THEN @ ELSE store[k]]
    /\ UNCHANGED <<lastTxnid, status, ancestors, deadlock, cursors, readLocks,
                   panic>>

DbGet(t, k) ==
    /\ MayUse(t)
    /\ GrantRead(t, k)
    /\ readLocks' = [readLocks EXCEPT ![t] = @ \cup {k}]
    /\ UNCHANGED <<lastTxnid, status, ancestors, deadlock, cursors, before,
                   store, panic>>

\* The request has to wait and the detector picks its locker as the victim:
\* the operation returns DB_LOCK_DEADLOCK and the transaction remembers it.
LockRefused(t, k) ==
    /\ MayUse(t)
    /\ ~GrantWrite(t, k) \/ ~GrantRead(t, k)
    /\ deadlock' = [deadlock EXCEPT ![t] = TRUE]
    /\ UNCHANGED <<lastTxnid, status, ancestors, cursors, readLocks, before,
                   store, panic>>

CursorOpen(t) ==
    /\ MayUse(t)
    /\ cursors[t] < MaxCursors
    /\ cursors' = [cursors EXCEPT ![t] = @ + 1]
    /\ UNCHANGED <<lastTxnid, status, ancestors, deadlock, readLocks, before,
                   store, panic>>

CursorClose(t) ==
    /\ ~panic
    /\ Running(t)
    /\ cursors[t] > 0
    /\ cursors' = [cursors EXCEPT ![t] = @ - 1]
    /\ UNCHANGED <<lastTxnid, status, ancestors, deadlock, readLocks, before,
                   store, panic>>

-----------------------------------------------------------------------------
(* The end of a transaction. *)

\* Of the transactions in S that hold k, h is the one closest to the root.
Outermost(S, h, k) ==
    /\ WriteLocked(h, k)
    /\ \A g \in S : WriteLocked(g, k) => h = g \/ h \in ancestors[g]

\* The image k had before any transaction in S wrote it.
ImageOf(S, k) ==
    IF \E h \in S : Outermost(S, h, k)
      THEN before[CHOOSE h \in S : Outermost(S, h, k)][k]
      ELSE NoImage

\* Mutant: records that were never logged are restored as well.
Undone_unlogged(S) == [k \in Key |-> ImageOf(S, k)]

\* __txn_undo for every transaction in S.
Undone(S) ==
    [k \in Key |-> IF ImageOf(S, k) = NoImage THEN store[k] ELSE ImageOf(S, k)]

\* Mutant: the kids' records go behind the parent's, so they are undone last.
Inherited_kidsLast(p, kept) ==
    [k \in Key |-> IF ImageOf(kept, k) # NoImage THEN ImageOf(kept, k) ELSE before[p][k]]

\* The parent p's log once the records of kept are put in front of it.
Inherited(p, kept) ==
    [k \in Key |-> IF WriteLocked(p, k) THEN before[p][k] ELSE ImageOf(kept, k)]

\* t and its live descendants end.  Those in kept end committed: their records
\* and locks go to t's parent, or are given up when t has none.  The others are
\* undone.
EndFamily(t, kept) ==
    LET Heir(p) == kept # {} /\ IsParent(p, t) IN
    /\ status' = [u \in Txn |-> CASE u \in kept -> "committed"
                                  [] u \in Family(t) \ kept -> "aborted"
                                  [] OTHER -> status[u]]
    /\ store' = Undone(Family(t) \ kept)
    /\ before' = [u \in Txn |->
                    CASE u \in Family(t) -> Clean
                      [] u \notin Family(t) /\ Heir(u) -> Inherited(u, kept)
                      [] OTHER -> before[u]]
    /\ readLocks' = [u \in Txn |->
                       CASE u \in Family(t) -> {}
                         [] u \notin Family(t) /\ Heir(u) ->
                              readLocks[u] \cup UNION {readLocks[c] : c \in kept}
                         [] OTHER -> readLocks[u]]
    /\ UNCHANGED <<lastTxnid, ancestors, deadlock, cursors, panic>>

HasLog(t) == \E k \in Key : WriteLocked(t, k)

\* What __txn_commit returns for t.  It commits the kids, the youngest first,
\* and stops at the first that fails, whose error is kept in `ret'.  A parent
\* with log records - its own or those of a kid that has committed - overwrites
\* `ret' when it logs its own commit; one without goes to the error path.
Resolve[t \in Txn] ==
    LET Tried(c) == \A d \in Kids(t) : d > c => Resolve[d].ok
        kidFailed == \E c \in Kids(t) : Tried(c) /\ ~Resolve[c].ok
        logged == \/ HasLog(t)
                  \/ \E c \in Kids(t) : Tried(c) /\ Resolve[c].ok /\ Resolve[c].log
    IN [ok |-> ~deadlock[t] /\ (logged \/ ~kidFailed), log |-> logged]

\* The kid c is reached by its parent's loop and its commit succeeds.
KidCommits(c) ==
    /\ Resolve[c].ok
    /\ \A d \in Txn : Running(d) /\ ancestors[d] = ancestors[c] /\ d > c
                        => Resolve[d].ok

\* The part of t's family whose work survives a commit of t.
Kept(t) ==
    IF Resolve[t].ok
      THEN {c \in Family(t) :
              \A d \in Descendants(t) : d = c \/ d \in ancestors[c] => KidCommits(d)}
      ELSE {}

\* Mutant: only the transaction named in the call is looked at.
OpenCursors_ownOnly(t) == cursors[t] > 0

\* __txn_isvalid: resolving a transaction that still has cursors panics the
\* environment, as does meeting such a transaction further down the tree.
OpenCursors(t) == \E c \in Family(t) : cursors[c] > 0

Panic(t) ==
    /\ ~panic
    /\ Running(t)
    /\ OpenCursors(t)
    /\ panic' = TRUE
    /\ UNCHANGED <<lastTxnid, status, ancestors, deadlock, cursors, readLocks,
                   before, store>>

TxnCommit(t) ==
    /\ ~panic
    /\ Running(t)
    /\ ~OpenCursors(t)
    /\ EndFamily(t, Kept(t))

TxnAbort(t) ==
    /\ ~panic
    /\ Running(t)
    /\ ~OpenCursors(t)
    /\ EndFamily(t, {})

Next ==
    \/ \E p \in Txn \cup {None} : TxnBegin(p)
    \/ \E t \in Txn, k \in Key : \/ \E v \in Val : DbPut(t, k, v)
                                 \/ DbGet(t, k)
                                 \/ LockRefused(t, k)
    \/ \E t \in Txn : \/ CursorOpen(t)
                      \/ CursorClose(t)
                      \/ TxnCommit(t)
                      \/ TxnAbort(t)
                      \/ Panic(t)

Spec == Init /\ [][Next]_vars

-----------------------------------------------------------------------------
(* The refinement mapping: the in-place store seen as an AtomicStore. *)

\* The value k had before any live transaction wrote it.
Committed == [k \in Key |-> IF ImageOf(Txn, k) = NoImage THEN store[k]
                                                       ELSE ImageOf(Txn, k)]

\* What t itself has made of k: the image its nearest descendant saved, or the
\* store's value if none of them wrote it after t.
Work == [t \in Txn |-> [k \in Key |->
           IF ~WriteLocked(t, k) THEN NoImage
           ELSE IF ImageOf(Descendants(t), k) # NoImage
                  THEN ImageOf(Descendants(t), k)
                  ELSE store[k]]]

A == INSTANCE AtomicStore WITH work <- Work, committed <- Committed

-----------------------------------------------------------------------------
(* Properties. *)

\* Every variable has its type; unused and ended transactions own nothing.
TypeOK ==
    /\ lastTxnid \in 0..MaxTxn
    /\ status \in [Txn -> {"unused", "running", "committed", "aborted"}]
    /\ ancestors \in [Txn -> SUBSET Txn]
    /\ deadlock \in [Txn -> BOOLEAN]
    /\ cursors \in [Txn -> 0..MaxCursors]
    /\ readLocks \in [Txn -> SUBSET Key]
    /\ before \in [Txn -> [Key -> Val \cup {NoImage}]]
    /\ store \in [Key -> Val]
    /\ panic \in BOOLEAN

\* The live transactions form a forest: ids grow towards the leaves, a live
\* transaction's ancestors are live, and one that has ended (or was never begun)
\* has no lock, no log record and no cursor left (txn.c __txn_end).
TreeOK ==
    \A t \in Txn :
        /\ \A a \in ancestors[t] : a < t /\ ancestors[a] \subseteq ancestors[t]
        /\ Running(t) => \A a \in ancestors[t] : Running(a)
        /\ ~Running(t) => readLocks[t] = {} /\ before[t] = Clean /\ cursors[t] = 0
        /\ t > lastTxnid <=> status[t] = "unused"
        /\ t > lastTxnid => ancestors[t] = {}

\* The lock table never holds a write lock next to another lock on the same
\* record unless one holder descends from the other: what GRANT, inheritance by
\* the parent and release together promise (lock.c __lock_get_internal,
\* __lock_inherit_locks, __lock_vec).
LocksCompatible ==
    \A t, u \in Txn, k \in Key :
        /\ t # u
        /\ WriteLocked(t, k)
        /\ WriteLocked(u, k) \/ k \in readLocks[u]
        => t \in ancestors[u] \/ u \in ancestors[t]

\* What a DB->get would return right now is the transaction's own last value,
\* else its nearest ancestor's, else the committed one: never the uncommitted
\* work of a stranger, whatever has been inherited or undone before.
ReadsSeeOwnView ==
    \A t \in Txn, k \in Key :
        MayUse(t) /\ GrantRead(t, k) => store[k] = A!View(t, k)

\* In-place update with locks and undo implements atomic, isolated nested
\* transactions (txn.c __txn_commit, __txn_abort, __txn_undo).
ImplementsAtomicStore == A!Spec

\* While a transaction holds a read lock the record changes only through a
\* transaction related to it (degree 3 isolation: __db_lput keeps read locks).
RepeatableRead ==
    [][\A t \in Txn, k \in Key :
         Running(t) /\ k \in readLocks[t] /\ status'[t] = "running"
           /\ store'[k] # store[k]
         => \E u \in Txn : /\ u = t \/ u \in ancestors[t] \/ t \in ancestors[u]
                           /\ before'[u][k] # NoImage \/ WriteLocked(u, k)]_vars

=============================================================================
