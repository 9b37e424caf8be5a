------------------------------ MODULE Recovery ------------------------------
(***************************************************************************)
(* What Berkeley DB keeps over a crash: the write-ahead log, the pages in   *)
(* the cache and on disk, checkpoints, and the recovery every               *)
(* stldb4::Environment runs when it is opened (its default flags hold       *)
(* DB_RECOVER): db-4.6.21/txn/txn.c, txn_chkpt.c, txn_rec.c,                 *)
(* db/db_dispatch.c, env/env_recover.c.                                     *)
(*                                                                         *)
(* An LSN is an index of `log`. A page is the LSN of the last update        *)
(* applied to it: what it holds follows from that record, and every         *)
(* decision of recovery compares page LSNs (0: the page never changed).     *)
(* All updates go through one rule, that of __bam_repl_recover.             *)
(* Transactions keep the numbers of one generation: __txn_recycle records   *)
(* are left out, and no number is used twice.                               *)
(***************************************************************************)
EXTENDS Naturals, Sequences, FiniteSetsExt, SequencesExt

CONSTANTS Txn,        \* the transactions ever begun
          Page,       \* the pages of the databases
          NoTxn,      \* the parent of a top-level transaction
          Trees,      \* the nestings of transactions to consider
          MaxLog,     \* bound: records the running system writes to the log
          MaxCrash    \* bound: crashes

\* A transaction is begun in one that exists, so parents form no circle.
ASSUME RecoveryAssumption ==
    /\ NoTxn \notin Txn
    /\ \A tree \in Trees :
         /\ tree \in [Txn -> Txn \cup {NoTxn}]
         /\ \A S \in (SUBSET Txn) \ {{}} : \E t \in S : tree[t] \notin S
    /\ MaxLog \in Nat /\ MaxCrash \in Nat

VARIABLES parent,    \* the nesting of this behaviour, one of Trees
          txn,       \* TXN_DETAIL of each transaction: its status, the LSNs
                     \* of its first and last record, what is left to undo
          log,       \* the log, in memory and on disk
          flushed,   \* how much of it is on disk for certain
          cache,     \* the LSN of each page in the buffer pool
          disk,      \* the LSN of each page in its file
          ckp,       \* the checkpoint going on
          mode,      \* "up", "down", "recovering" or "failed"
          rec,       \* recovery: the pass, the cursor, first_lsn, the txnlist
          synced,    \* transactions whose synchronous commit has returned
          crashes

vars == <<parent, txn, log, flushed, cache, disk, ckp, mode, rec, synced, crashes>>

Update(t, p, before, prev) ==
    [type |-> "update", txn |-> t, page |-> p, before |-> before, prev |-> prev]
ChildRecord(t, kid, kidLast, prev) ==
    [type |-> "child", txn |-> t, child |-> kid, clsn |-> kidLast, prev |-> prev]
Regop(t, prev) == [type |-> "regop", txn |-> t, prev |-> prev]
Checkpoint(lsn) == [type |-> "ckp", lsn |-> lsn]

Running == {t \in Txn : txn[t].st = "running"}
Active  == {t \in Txn : txn[t].st \in {"running", "committing", "aborting"}}

\* A transaction and its ancestors.
Lineage[t \in Txn] == IF parent[t] = NoTxn THEN {t} ELSE {t} \cup Lineage[parent[t]]

\* The descendants of t that are unresolved and have records.
Kids(t) == {k \in Active : t \in Lineage[k] \ {k} /\ txn[k].last # 0}

Top(t) == CHOOSE a \in Lineage[t] : parent[a] = NoTxn

\* The records of transactions; 0 ends a chain of them.
Linked == {0} \cup {l \in DOMAIN log : log[l].type # "ckp"}

\* The updates a chain of records leads to, in the order __txn_undo visits
\* them: a child record leads to the child's last record first.
Chain[l \in Linked] ==
    IF l = 0 THEN <<>>
    ELSE (IF log[l].type = "update" THEN <<l>>
          ELSE IF log[l].type = "child" THEN Chain[log[l].clsn] ELSE <<>>)
         \o Chain[log[l].prev]

-----------------------------------------------------------------------------
\* The running system. MaxCrash bounds the runs: nothing happens after the
\* recovery from the last crash, and no page is written that no crash can show.

Up == mode = "up" /\ crashes < MaxCrash

\* Mutant of MayAct: a parent does not resolve its children first.
MayAct_kidsOpen(t) == Up /\ t \in Running

\* A transaction is told of from its first record on: before that it holds
\* nothing a crash could matter to. A parent does nothing while a child has
\* records and is unresolved.
MayAct(t) == Up /\ t \in Running /\ Kids(t) = {}

\* The page is write-locked by a transaction that is no ancestor.
LockedByAnother(t, p) ==
    \E u \in Active \ Lineage[t] : \E l \in ToSet(Chain[txn[u].last]) : log[l].page = p

\* __log_put has written record n for t: its last_lsn, and begin_lsn of its
\* top ancestor if that had none.
Logged(t, n) ==
    [[txn EXCEPT ![t].last = n]
        EXCEPT ![Top(t)].begin = IF @ = 0 THEN n ELSE @]

\* An update of a page: the record first, then the page and its LSN.
Change(t, p) ==
    /\ MayAct(t) /\ Lineage[t] \subseteq Running /\ Len(log) < MaxLog
    /\ ~LockedByAnother(t, p)
    /\ log' = Append(log, Update(t, p, cache[p], txn[t].last))
    /\ txn' = Logged(t, Len(log) + 1)
    /\ cache' = [cache EXCEPT ![p] = Len(log) + 1]
    /\ UNCHANGED <<parent, flushed, disk, ckp, mode, rec, synced, crashes>>

\* __txn_end frees the TXN_DETAIL.
Ended == [st |-> "ended", begin |-> 0, last |-> 0, undo |-> <<>>]

\* Commit of a child: a record in the parent's chain, not flushed.
CommitChild(t) ==
    /\ MayAct(t) /\ parent[t] # NoTxn /\ txn[t].last # 0 /\ Len(log) < MaxLog
    /\ log' = Append(log, ChildRecord(parent[t], t, txn[t].last, txn[parent[t]].last))
    /\ txn' = [Logged(parent[t], Len(log) + 1) EXCEPT ![t] = Ended]
    /\ UNCHANGED <<parent, flushed, cache, disk, ckp, mode, rec, synced, crashes>>

\* Mutant of FlushedByCommit: the commit record stays in memory.
FlushedByCommit_lazy(sync, n) == flushed

\* How much of the log is on disk after the commit record n of a top-level
\* transaction (DB_TXN_SYNC, or NOSYNC from the environment's flags).
FlushedByCommit(sync, n) == IF sync THEN n ELSE flushed

\* Commit of a top-level transaction: the record is written, and flushed when
\* the commit is synchronous; the locks are still held.
CommitTop(t, sync) ==
    /\ MayAct(t) /\ parent[t] = NoTxn /\ txn[t].last # 0 /\ Len(log) < MaxLog
    /\ log' = Append(log, Regop(t, txn[t].last))
    /\ txn' = [Logged(t, Len(log) + 1) EXCEPT ![t].st = "committing"]
    /\ flushed' = FlushedByCommit(sync, Len(log) + 1)
    /\ synced' = IF sync THEN synced \cup {t} ELSE synced
    /\ UNCHANGED <<parent, cache, disk, ckp, mode, rec, crashes>>

\* __txn_end: off the active list, its locks released.
CommitEnds(t) ==
    /\ Up /\ txn[t].st = "committing"
    /\ txn' = [txn EXCEPT ![t] = Ended]
    /\ UNCHANGED <<parent, log, flushed, cache, disk, ckp, mode, rec, synced, crashes>>

\* abort(): the children first; then the chain is undone, record by record.
Abort(t) ==
    /\ MayAct(t) /\ txn[t].last # 0
    /\ txn' = [txn EXCEPT ![t].st = "aborting", ![t].undo = Chain[txn[t].last]]
    /\ UNCHANGED <<parent, log, flushed, cache, disk, ckp, mode, rec, synced, crashes>>

\* Undo of update l on the pages pg: only a page that shows it is changed.
UndoneIn(pg, l) ==
    IF pg[log[l].page] = l THEN [pg EXCEPT ![log[l].page] = log[l].before] ELSE pg

UndoOne(t) ==
    /\ Up /\ txn[t].st = "aborting" /\ txn[t].undo # <<>>
    /\ cache' = UndoneIn(cache, Head(txn[t].undo))
    /\ txn' = [txn EXCEPT ![t].undo = Tail(@)]
    /\ UNCHANGED <<parent, log, flushed, disk, ckp, mode, rec, synced, crashes>>

\* An abort writes no record. The transaction leaves the active list.
AbortEnds(t) ==
    /\ Up /\ txn[t].st = "aborting" /\ txn[t].undo = <<>>
    /\ txn' = [txn EXCEPT ![t] = Ended]
    /\ UNCHANGED <<parent, log, flushed, cache, disk, ckp, mode, rec, synced, crashes>>

\* Mutant of FlushedForPage: a page is written ahead of the log.
FlushedForPage_none(p) == flushed

\* What of the log __memp_pgwrite has on disk before it writes page p.
FlushedForPage(p) == Max({flushed, cache[p]})

\* A dirty page is written: for the checkpoint, or to make room in the cache.
WritePage(p) ==
    /\ mode \in {"up", "recovering"} /\ crashes < MaxCrash /\ disk[p] # cache[p]
    /\ flushed' = FlushedForPage(p)
    /\ disk' = [disk EXCEPT ![p] = cache[p]]
    /\ ckp' = [ckp EXCEPT !.pages = @ \ {p}]
    /\ UNCHANGED <<parent, txn, log, cache, mode, rec, synced, crashes>>

-----------------------------------------------------------------------------
\* A checkpoint (the db_checkpoint program, beside the application).

NoCheckpoint == [st |-> "none", lsn |-> 0, pages |-> {}]
Dirty == {p \in Page : cache[p] # disk[p]}

\* The first guess at ckp_lsn is the LSN of the last record. Nothing is done
\* when nothing was logged since the last checkpoint.
StartCheckpoint ==
    /\ Up /\ ckp.st = "none" /\ Len(log) \in 1 .. MaxLog - 1
    /\ log[Len(log)].type # "ckp"
    /\ ckp' = [ckp EXCEPT !.st = "guessed", !.lsn = Len(log)]
    /\ UNCHANGED <<parent, txn, log, flushed, cache, disk, mode, rec, synced, crashes>>

\* Mutant of CheckpointLsn: active transactions are forgotten.
CheckpointLsn_guess == ckp.lsn

\* __txn_getactive: no later than the first record of an active transaction.
CheckpointLsn == Min({ckp.lsn} \cup {txn[t].begin : t \in {u \in Active : txn[u].begin # 0}})

\* The buffers __memp_sync_int has to write.
BuffersToSync == Dirty

GetActive ==
    /\ Up /\ ckp.st = "guessed"
    /\ ckp' = [st |-> "syncing", lsn |-> CheckpointLsn, pages |-> BuffersToSync]
    /\ UNCHANGED <<parent, txn, log, flushed, cache, disk, mode, rec, synced, crashes>>

\* The cache is on disk: the checkpoint record, flushed.
EndCheckpoint ==
    /\ Up /\ ckp.st = "syncing" /\ ckp.pages = {} /\ Len(log) < MaxLog
    /\ log' = Append(log, Checkpoint(ckp.lsn))
    /\ flushed' = Len(log) + 1
    /\ ckp' = NoCheckpoint
    /\ UNCHANGED <<parent, txn, cache, disk, mode, rec, synced, crashes>>

-----------------------------------------------------------------------------
\* A crash: memory is lost, and of the log everything after some record that
\* was never flushed.

NoRecovery == [pass |-> "none", at |-> 0, first |-> 0, list |-> [t \in Txn |-> "absent"]]

Crash(n) ==
    /\ mode \in {"up", "recovering"} /\ crashes < MaxCrash /\ n >= flushed
    /\ log' = SubSeq(log, 1, n)
    /\ flushed' = n
    /\ txn' = [t \in Txn |-> IF txn[t].last # 0 \/ txn[t].begin # 0 THEN Ended ELSE txn[t]]
    /\ cache' = disk
    /\ ckp' = NoCheckpoint /\ rec' = NoRecovery /\ mode' = "down"
    /\ crashes' = crashes + 1
    /\ UNCHANGED <<parent, disk, synced>>

-----------------------------------------------------------------------------
\* Recovery. The list of transactions it keeps gives each one a status:
\* "absent", "ok", "commit", "abort" or "ignore".

\* __db_txnlist_update with add_ok: what is to be ignored stays ignored.
Marked(list, t, status) == IF list[t] = "ignore" THEN list ELSE [list EXCEPT ![t] = status]

\* The openfiles pass at one record: a first record puts its transaction on
\* the list, and the parent of a child whose first record is too old is ignored.
OpenFiles(list, r) ==
    LET begun == IF r.type \in {"update", "child"} /\ r.prev = 0
                 THEN [list EXCEPT ![r.txn] = "ok"] ELSE list
    IN  IF r.type = "child" /\ begun[r.child] = "absent"
        THEN Marked(begun, r.txn, "ignore") ELSE begun

\* Where the passes begin: at the LSN in the last checkpoint record.
FirstLsn ==
    LET all == {l \in DOMAIN log : log[l].type = "ckp"}
    IN  IF all = {} THEN 1 ELSE log[Max(all)].lsn

\* The list after the openfiles pass, from FirstLsn to the end of the log.
Opened ==
    LET opened[n \in 0 .. Len(log)] ==
            IF n = 0 THEN NoRecovery.list
            ELSE IF n < FirstLsn THEN opened[n - 1] ELSE OpenFiles(opened[n - 1], log[n])
    IN  opened[Len(log)]

\* Pass 0 and 1: find first_lsn and collect the transactions begun after it.
\* With no log there is nothing to do.
StartRecovery ==
    /\ mode = "down"
    /\ IF log = <<>>
       THEN mode' = "up" /\ UNCHANGED rec
       ELSE /\ mode' = "recovering"
            /\ rec' = [pass  |-> "backward", at |-> Len(log), first |-> FirstLsn,
                       list |-> Opened]
    /\ UNCHANGED <<parent, txn, log, flushed, cache, disk, ckp, synced, crashes>>

\* Going backward, the transaction of a record that nothing has decided is
\* aborted; one that is not on the list was undone before and is ignored.
Decided(t) == CASE rec.list[t] = "absent" -> "ignore"
                [] rec.list[t] = "ok" -> "abort"
                [] OTHER -> rec.list[t]

\* __txn_child_recover, backward: a child shares the fate of its parent.
\* Its parent is on the list, or the record would not have been dispatched.
FateOfChild(kid, parentStatus) ==
    IF rec.list[kid] \notin {"absent", "ok", "commit"} THEN rec.list[kid]
    ELSE IF parentStatus \in {"commit", "ignore"} THEN parentStatus ELSE "abort"

RollBack(r, l) ==
    LET here == [rec EXCEPT !.at = l - 1]
    IN  \/ /\ r.type = "ckp"
           /\ rec' = here
           /\ UNCHANGED cache
        \/ /\ r.type = "regop"
           /\ rec' = [here EXCEPT !.list = Marked(@, r.txn, "commit")]
           /\ UNCHANGED cache
        \/ /\ r.type = "update"
           /\ rec' = [here EXCEPT !.list[r.txn] = Decided(r.txn)]
           /\ cache' = IF rec.list[r.txn] \in {"ok", "abort"} THEN UndoneIn(cache, l) ELSE cache
        \/ /\ r.type = "child" /\ rec.list[r.txn] = "absent"
           /\ rec' = [here EXCEPT !.list[r.txn] = "ignore"]
           /\ UNCHANGED cache
        \/ /\ r.type = "child" /\ rec.list[r.txn] # "absent"
           /\ rec' = [here EXCEPT !.list[r.txn] = Decided(r.txn),
                                  !.list[r.child] = FateOfChild(r.child, Decided(r.txn))]
           /\ UNCHANGED cache

\* A second commit record of one transaction is an error.
RollBackFails(r) ==
    r.type = "regop" /\ rec.list[r.txn] \notin {"absent", "ok", "ignore"}

Backward ==
    /\ mode = "recovering" /\ rec.pass = "backward" /\ rec.at >= rec.first
    /\ IF RollBackFails(log[rec.at])
       THEN mode' = "failed" /\ UNCHANGED <<cache, rec>>
       ELSE RollBack(log[rec.at], rec.at) /\ UNCHANGED mode
    /\ UNCHANGED <<parent, txn, log, flushed, disk, ckp, synced, crashes>>

TurnForward ==
    /\ mode = "recovering" /\ rec.pass = "backward" /\ rec.at < rec.first
    /\ rec' = [rec EXCEPT !.pass = "forward", !.at = rec.first]
    /\ UNCHANGED <<parent, txn, log, flushed, cache, disk, ckp, mode, synced, crashes>>

\* Going forward: the records of committed transactions only.
Redone(r) == r.type # "ckp" /\ rec.list[r.txn] = "commit"

\* Redo of update l: only a page in the state the update was made in.
RedoneIn(pg, l) ==
    IF pg[log[l].page] = log[l].before THEN [pg EXCEPT ![log[l].page] = l] ELSE pg

\* CHECK_LSN: the page misses an earlier update; or a child is not on the list.
RollForwardFails(r) ==
    \/ r.type = "update" /\ cache[r.page] < r.before /\ cache[r.page] # 0
    \/ r.type = "child" /\ rec.list[r.child] = "absent"

\* What is resolved by a commit or a child record leaves the list.
Resolved(r) ==
    IF ~Redone(r) THEN {}
    ELSE IF r.type = "regop" THEN {r.txn} ELSE IF r.type = "child" THEN {r.child} ELSE {}

RollForward(r, l) ==
    /\ rec' = [rec EXCEPT !.at = l + 1,
                 !.list = [t \in Txn |-> IF t \in Resolved(r) THEN "absent" ELSE @[t]]]
    /\ cache' = IF Redone(r) /\ r.type = "update" THEN RedoneIn(cache, l) ELSE cache

Forward ==
    /\ mode = "recovering" /\ rec.pass = "forward" /\ rec.at <= Len(log)
    /\ IF Redone(log[rec.at]) /\ RollForwardFails(log[rec.at])
       THEN mode' = "failed" /\ UNCHANGED <<cache, rec>>
       ELSE RollForward(log[rec.at], rec.at) /\ UNCHANGED mode
    /\ UNCHANGED <<parent, txn, log, flushed, disk, ckp, synced, crashes>>

\* The checkpoint that ends recovery: every page still dirty is written, then
\* its record, which nothing flushes.
EndRecovery ==
    /\ mode = "recovering" /\ rec.pass = "forward" /\ rec.at > Len(log)
    /\ crashes < MaxCrash => Dirty = {}
    /\ disk' = cache
    /\ log' = Append(log, Checkpoint(Len(log)))
    /\ mode' = "up" /\ rec' = NoRecovery
    /\ UNCHANGED <<parent, txn, flushed, cache, ckp, synced, crashes>>

-----------------------------------------------------------------------------
Init ==
    /\ parent \in Trees
    /\ txn = [t \in Txn |-> [st |-> "running", begin |-> 0, last |-> 0, undo |-> <<>>]]
    /\ log = <<>> /\ flushed = 0
    /\ cache = [p \in Page |-> 0] /\ disk = cache
    /\ ckp = NoCheckpoint
    /\ mode = "up" /\ rec = NoRecovery
    /\ synced = {} /\ crashes = 0

RecoveryStep == StartRecovery \/ Backward \/ TurnForward \/ Forward \/ EndRecovery

Next ==
    \/ \E t \in Txn, p \in Page : Change(t, p)
    \/ \E t \in Txn : CommitChild(t)
    \/ \E t \in Txn, sync \in BOOLEAN : CommitTop(t, sync)
    \/ \E t \in Txn : CommitEnds(t)
    \/ \E t \in Txn : Abort(t)
    \/ \E t \in Txn : UndoOne(t)
    \/ \E t \in Txn : AbortEnds(t)
    \/ \E p \in Page : WritePage(p)
    \/ StartCheckpoint
    \/ GetActive
    \/ EndCheckpoint
    \/ \E n \in 0 .. Len(log) : Crash(n)
    \/ RecoveryStep

Spec == Init /\ [][Next]_vars

-----------------------------------------------------------------------------
Lsn == 0 .. MaxLog + MaxCrash
Status == {"absent", "ok", "commit", "abort", "ignore"}

\* The state is well formed: LSNs lie in the log or are 0, a page in the cache
\* never shows a record the log does not hold, recovery's cursor stays in the log.
TypeOK ==
    /\ parent \in Trees
    /\ \A t \in Txn :
         /\ txn[t].st \in {"running", "committing", "aborting", "ended"}
         /\ txn[t].begin \in Lsn /\ txn[t].last \in Lsn
         /\ \A i \in DOMAIN txn[t].undo : log[txn[t].undo[i]].type = "update"
    /\ Len(log) \in Lsn /\ flushed \in 0 .. Len(log)
    /\ cache \in [Page -> 0 .. Len(log)] /\ disk \in [Page -> 0 .. Len(log)]
    /\ ckp.st \in {"none", "guessed", "syncing"} /\ ckp.lsn \in 0 .. Len(log)
    /\ ckp.pages \subseteq Page
    /\ mode \in {"up", "down", "recovering", "failed"}
    /\ rec.pass \in {"none", "backward", "forward"}
    /\ rec.at \in 0 .. Len(log) + 1 /\ rec.list \in [Txn -> Status]
    /\ synced \subseteq Txn /\ crashes \in 0 .. MaxCrash

\* The log says that t has committed, and all its ancestors.
Committed[t \in Txn] ==
    \E l \in DOMAIN log :
        \/ log[l].type = "regop" /\ log[l].txn = t
        \/ log[l].type = "child" /\ log[l].child = t /\ Committed[log[l].txn]

\* The updates a transaction in memory holds and has not undone.
Held(t) == ToSet(IF txn[t].st = "aborting" THEN txn[t].undo ELSE Chain[txn[t].last])

\* The updates of page p that count.
Effective(p) ==
    {l \in DOMAIN log : /\ log[l].type = "update" /\ log[l].page = p
                        /\ Committed[log[l].txn] \/ \E t \in Active : l \in Held(t)}

\* Atomicity over crashes: whenever the system is up, each page shows the last
\* of the updates of committed and of running transactions, whatever was on
\* disk at the crash, however much of the log survived and however often
\* recovery itself was interrupted (env_recover.c, txn_rec.c, txn_chkpt.c).
PagesRight ==
    mode = "up" => \A p \in Page : cache[p] = Max({0} \cup Effective(p))

\* Durability: what commit() reported as done with DB_TXN_SYNC, the default of
\* stldb4.hh:444, is committed after every crash (txn.c, __txn_commit).
SyncCommitsLast ==
    \A t \in synced : \E l \in DOMAIN log : log[l].type = "regop" /\ log[l].txn = t

\* Recovery never meets a page that misses an update ("Log sequence error"), a
\* second commit record, or a child it does not know of (txn_rec.c, log.h).
RecoveryNeverFails == mode # "failed"
=============================================================================
