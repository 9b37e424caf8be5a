---------------------------- MODULE SecondaryIndex ----------------------------
(***************************************************************************)
(* A primary database and the secondary indexes that                       *)
(* Database::makeSecondaryIndex() associates with it, used by several      *)
(* transactions at once.  An operation on the primary goes through the     *)
(* indexes one after the other: the model has one step for each page it    *)
(* locks, and a page for each key.  A transaction holds its locks until it *)
(* commits or has aborted, and takes its changes back one by one then.     *)
(*                                                                         *)
(* The indexes have sorted duplicates (DB_DUP | DB_DUPSORT), exist from    *)
(* the start of the primary on, and every handle that writes the primary   *)
(* has them associated.                                                    *)
(***************************************************************************)
EXTENDS Integers, FiniteSetsExt, SequencesExt

CONSTANTS
    Proc,        \* the threads, each with a transaction of its own
    Key,         \* the keys of the primary, numbers
    Value,       \* its values
    SecKey,      \* the keys of the indexes
    Indexes,     \* how many indexes there are
    Extract,     \* sec_idx_callback of each: a key for each value, or DoNotIndex
    DoNotIndex,  \* DB_DONOTINDEX
    Absent,      \* the value of a key that is not in the primary
    MaxOps       \* how many operations the transactions of each thread have

Index == 1..Indexes

ASSUME IndexAssumption ==
    /\ IsFiniteSet(Proc)
    /\ Key \subseteq Nat /\ Indexes \in Nat \ {0} /\ MaxOps \in [Proc -> Nat]
    /\ Extract \in [Index -> [Value -> SecKey \cup {DoNotIndex}]]
    /\ DoNotIndex \notin SecKey /\ Absent \notin Value

VARIABLES
    primary,  \* the primary: a value for each key, or Absent
    sec,      \* each index: pairs of a secondary and a primary key
    held,     \* the locks: <<thread, mode, page>>
    op,       \* the operation each thread is in
    undo,     \* the changes of each open transaction, in the order of the log
    spoilt    \* something was done that is known to spoil an index (Spoils)

vars == <<primary, sec, held, op, undo, spoilt>>

\* at: the next step of the operation; n: operations the transaction has done;
\* i: the index it is at; from: the one it came through; key, val, skey: its
\* arguments; old: the record it replaces or deletes; rc: how the last
\* operation ended.
Idle == [at |-> "idle", n |-> 0, i |-> 1, from |-> 1, key |-> Absent, val |-> Absent,
         skey |-> DoNotIndex, old |-> Absent, rc |-> "none"]

PrimaryPage(k) == <<0, k>>
SecPage(i, s) == <<i, s>>

NewKey(p) == Extract[op[p].i][op[p].val]
OldKey(p) == Extract[op[p].i][op[p].old]

-----------------------------------------------------------------------------
(* Locks. *)

\* Mutant: the old entry is deleted although the new one is the same.
Replaces_same(p, inCur) ==
    /\ OldKey(p) # DoNotIndex
    /\ inCur => NewKey(p) # DoNotIndex

\* __dbc_del_oldskey, for a record that is in the index and is not under the
\* same key again; inCur: on the way of DB_CURRENT, which calls it only for a
\* new record that is in the index.
Replaces(p, inCur) ==
    /\ OldKey(p) \notin {DoNotIndex, NewKey(p)}
    /\ inCur => NewKey(p) # DoNotIndex

\* Mutant: a put locks the record before the indexes.
NeedOfPrimary_first(p) ==
    CASE op[p].at \in {"new", "get", "getcur", "getdel"} -> {<<"w", PrimaryPage(op[p].key)>>}
      [] op[p].at \in {"position", "data"} -> {<<"r", PrimaryPage(op[p].key)>>}
      [] OTHER -> {}

\* The pages, and the modes, that the next step of an operation needs.
NeedOfPrimary(p) ==
    CASE op[p].at \in {"get", "getcur", "getdel"} -> {<<"w", PrimaryPage(op[p].key)>>}
      [] op[p].at \in {"position", "data"} -> {<<"r", PrimaryPage(op[p].key)>>}
      [] OTHER -> {}

NeedOfIndex(p) ==
    LET o == op[p]
    IN CASE o.at \in {"new", "curput"} /\ NewKey(p) # DoNotIndex ->
                {<<"w", SecPage(o.i, NewKey(p))>>}
         [] \/ o.at = "old" /\ Replaces(p, FALSE)
            \/ o.at = "cur" /\ Replaces(p, TRUE)
            \/ o.at = "del" /\ OldKey(p) # DoNotIndex -> {<<"w", SecPage(o.i, OldKey(p))>>}
         [] o.at = "pget" -> {<<"r", SecPage(o.i, o.skey)>>}
         [] o.at = "secdel" -> {<<"w", SecPage(o.i, o.skey)>>}
         [] OTHER -> {}

Need(p) == NeedOfPrimary(p) \cup NeedOfIndex(p)

\* Mutant: a page that others only read is not waited for.
Blocks_written(q, p) ==
    /\ q # p
    /\ \E n \in Need(p), l \in held : l[1] = q /\ l[3] = n[2] /\ l[2] = "w"

\* q holds a lock that p has to wait for.
Blocks(q, p) ==
    /\ q # p
    /\ \E n \in Need(p), l \in held :
          l[1] = q /\ l[3] = n[2] /\ (l[2] = "w" \/ n[1] = "w")

Lock(p) ==
    /\ \A q \in Proc : ~Blocks(q, p)
    /\ held' = held \cup {<<p, n[1], n[2]>> : n \in Need(p)}

-----------------------------------------------------------------------------
(* What the steps are made of. *)

Goto(p, at) == op' = [op EXCEPT ![p].at = at]

Finished(p, rc) == [Idle EXCEPT !.n = op[p].n + 1, !.rc = rc]
Finish(p, rc) == op' = [op EXCEPT ![p] = Finished(p, rc)]

\* On to the same step of the next index, or after the last one to another step.
NextIndex(p, at, after) ==
    op' = [op EXCEPT ![p].i = IF @ < Indexes THEN @ + 1 ELSE 1,
                     ![p].at = IF op[p].i < Indexes THEN at ELSE after]

Remember(p, change) == undo' = [undo EXCEPT ![p] = Append(@, change)]

AddEntry(p, i, e) ==
    IF e \in sec[i] THEN UNCHANGED <<sec, undo>>         \* DB_KEYEXIST
    ELSE /\ sec' = [sec EXCEPT ![i] = @ \cup {e}]
         /\ Remember(p, [what |-> "added", i |-> i, e |-> e])

RemoveEntry(p, i, e) ==
    /\ sec' = [sec EXCEPT ![i] = @ \ {e}]
    /\ Remember(p, [what |-> "removed", i |-> i, e |-> e])

\* An index entry to be deleted that is not there: __db_secondary_corrupt().
RemoveOrBad(p, i, e, at, after) ==
    IF e \in sec[i] THEN RemoveEntry(p, i, e) /\ NextIndex(p, at, after)
    ELSE Finish(p, "DB_SECONDARY_BAD") /\ UNCHANGED <<sec, undo>>

SetPrimary(p, v) ==
    /\ primary' = [primary EXCEPT ![op[p].key] = v]
    /\ Remember(p, [what |-> "set", key |-> op[p].key, old |-> primary[op[p].key]])

Start(p, o) ==
    /\ op[p].at = "idle"
    /\ op[p].n < MaxOps[p]
    /\ op' = [op EXCEPT ![p] = [o EXCEPT !.n = op[p].n]]
    /\ UNCHANGED <<primary, sec, held, undo>>

-----------------------------------------------------------------------------
(* Database::set( k, v ): __dbc_put with a key.  First the new entry of      *)
(* every index, then the old record, then the old entries, then the record. *)

Set(p, k, v) == Start(p, [Idle EXCEPT !.at = "new", !.key = k, !.val = v])

PutNewEntry(p) ==
    /\ op[p].at = "new"
    /\ Lock(p)
    /\ IF NewKey(p) = DoNotIndex THEN UNCHANGED <<sec, undo>>
       ELSE AddEntry(p, op[p].i, <<NewKey(p), op[p].key>>)
    /\ NextIndex(p, "new", "get")
    /\ UNCHANGED primary

GetOldRecord(p) ==
    /\ op[p].at = "get"
    /\ Lock(p)
    /\ op' = [op EXCEPT ![p].old = primary[op[p].key],
                        ![p].at = IF primary[op[p].key] = Absent THEN "put" ELSE "old"]
    /\ UNCHANGED <<primary, sec, undo>>

DeleteOldEntry(p) ==
    /\ op[p].at = "old"
    /\ Lock(p)
    /\ IF Replaces(p, FALSE) THEN RemoveOrBad(p, op[p].i, <<OldKey(p), op[p].key>>, "old", "put")
       ELSE NextIndex(p, "old", "put") /\ UNCHANGED <<sec, undo>>
    /\ UNCHANGED primary

PutRecord(p) ==
    /\ op[p].at = "put"
    /\ SetPrimary(p, op[p].val)
    /\ Finish(p, "ok")
    /\ UNCHANGED <<sec, held>>

-----------------------------------------------------------------------------
(* DatabaseIterator::setValue( v ): __dbc_put with DB_CURRENT, on the record *)
(* the iterator is at.                                                       *)

SetValue(p, k, v) == Start(p, [Idle EXCEPT !.at = "position", !.key = k, !.val = v])

Position(p) ==
    /\ op[p].at = "position"
    /\ Lock(p)
    /\ IF primary[op[p].key] = Absent THEN Finish(p, "DB_NOTFOUND") ELSE Goto(p, "getcur")
    /\ UNCHANGED <<primary, sec, undo>>

GetCurrent(p) ==
    /\ op[p].at = "getcur"
    /\ Lock(p)
    /\ op' = [op EXCEPT ![p].old = primary[op[p].key], ![p].at = "cur"]
    /\ UNCHANGED <<primary, sec, undo>>

\* The old entry goes first here, and nothing is done when the new record has
\* no entry: the deletes of "step 5" are left out when the old record is known.
DeleteCurrentEntry(p) ==
    /\ op[p].at = "cur"
    /\ Lock(p)
    /\ CASE NewKey(p) \in {DoNotIndex, OldKey(p)} ->
                NextIndex(p, "cur", "put") /\ UNCHANGED <<sec, undo>>
         [] Replaces(p, TRUE) ->
                IF <<OldKey(p), op[p].key>> \in sec[op[p].i]
                THEN RemoveEntry(p, op[p].i, <<OldKey(p), op[p].key>>) /\ Goto(p, "curput")
                ELSE Finish(p, "DB_SECONDARY_BAD") /\ UNCHANGED <<sec, undo>>
         [] OTHER -> Goto(p, "curput") /\ UNCHANGED <<sec, undo>>
    /\ UNCHANGED primary

PutCurrentEntry(p) ==
    /\ op[p].at = "curput"
    /\ Lock(p)
    /\ AddEntry(p, op[p].i, <<NewKey(p), op[p].key>>)
    /\ NextIndex(p, "cur", "put")
    /\ UNCHANGED primary

-----------------------------------------------------------------------------
(* Database::erase( k ) on the primary, and on an index, where it deletes    *)
(* every record that has the key.                                            *)

Erase(p, k) == Start(p, [Idle EXCEPT !.at = "getdel", !.key = k])

EraseBySecondary(p, i, s) == Start(p, [Idle EXCEPT !.at = "secdel", !.i = i, !.from = i, !.skey = s])

\* The first record with the secondary key, to be deleted from the primary.
NextToErase(p) ==
    LET keys == {k \in Key : <<op[p].skey, k>> \in sec[op[p].i]}
    IN /\ op[p].at = "secdel"
       /\ Lock(p)
       /\ IF keys # {}
          THEN op' = [op EXCEPT ![p].at = "getdel", ![p].key = Min(keys), ![p].old = Absent]
          ELSE Finish(p, IF op[p].key = Absent THEN "DB_NOTFOUND" ELSE "ok")
       /\ UNCHANGED <<primary, sec, undo>>

GetToErase(p) ==
    LET old == primary[op[p].key]
    IN /\ op[p].at = "getdel"
       /\ Lock(p)
       /\ IF old # Absent
          THEN op' = [op EXCEPT ![p].at = "del", ![p].old = old, ![p].i = 1]
          ELSE Finish(p, IF op[p].skey = DoNotIndex THEN "DB_NOTFOUND" ELSE "DB_SECONDARY_BAD")
       /\ UNCHANGED <<primary, sec, undo>>

\* __dbc_del_primary.
DeleteEntry(p) ==
    /\ op[p].at = "del"
    /\ Lock(p)
    /\ IF OldKey(p) = DoNotIndex THEN NextIndex(p, "del", "erase") /\ UNCHANGED <<sec, undo>>
       ELSE RemoveOrBad(p, op[p].i, <<OldKey(p), op[p].key>>, "del", "erase")
    /\ UNCHANGED primary

EraseRecord(p) ==
    /\ op[p].at = "erase"
    /\ SetPrimary(p, Absent)
    /\ IF op[p].skey = DoNotIndex THEN Finish(p, "ok")
       ELSE op' = [op EXCEPT ![p].at = "secdel", ![p].i = op[p].from]
    /\ UNCHANGED <<sec, held>>

-----------------------------------------------------------------------------
(* Database::pget( s ): the first record with the secondary key.            *)

Pget(p, i, s) == Start(p, [Idle EXCEPT !.at = "pget", !.i = i, !.skey = s])

\* Mutant: the page of the index is not kept locked.
PgetKey_unlocked(p) ==
    LET keys == {k \in Key : <<op[p].skey, k>> \in sec[op[p].i]}
    IN /\ op[p].at = "pget"
       /\ \A q \in Proc : ~Blocks(q, p)
       /\ IF keys = {} THEN Finish(p, "DB_NOTFOUND")
          ELSE op' = [op EXCEPT ![p].at = "data", ![p].key = Min(keys)]
       /\ UNCHANGED <<primary, sec, held, undo>>

PgetKey(p) ==
    LET keys == {k \in Key : <<op[p].skey, k>> \in sec[op[p].i]}
    IN /\ op[p].at = "pget"
       /\ Lock(p)
       /\ IF keys = {} THEN Finish(p, "DB_NOTFOUND")
          ELSE op' = [op EXCEPT ![p].at = "data", ![p].key = Min(keys)]
       /\ UNCHANGED <<primary, sec, undo>>

PgetData(p) ==
    LET v == primary[op[p].key]
    IN /\ op[p].at = "data"
       /\ Lock(p)
       /\ IF v = Absent THEN Finish(p, "DB_SECONDARY_BAD")
          ELSE op' = [op EXCEPT ![p] = [Finished(p, "ok") EXCEPT !.i = op[p].i,
                                           !.skey = op[p].skey, !.val = v]]
       /\ UNCHANGED <<primary, sec, undo>>

-----------------------------------------------------------------------------
(* The end of a transaction. *)

Release(p) == held' = {l \in held : l[1] # p}

Close(p) ==
    /\ op' = [op EXCEPT ![p] = Idle]
    /\ undo' = [undo EXCEPT ![p] = <<>>]
    /\ Release(p)

Commit(p) ==
    /\ op[p].at = "idle" /\ op[p].n > 0
    /\ Close(p)
    /\ UNCHANGED <<primary, sec>>

(* __txn_undo goes backward through the log records of the transaction; its *)
(* locks are kept until nothing is left to undo.                            *)
TurnBack(p) ==
    /\ op' = [op EXCEPT ![p] = [Idle EXCEPT !.at = "undo"]]
    /\ UNCHANGED <<primary, sec, held, undo>>

\* The application aborts between two operations.
Abort(p) ==
    /\ op[p].at = "idle" /\ op[p].n > 0
    /\ TurnBack(p)

\* A lock is refused to break a deadlock.  The operation fails between two of
\* its steps, and TXN_DEADLOCK leaves nothing but to abort the transaction.
Refused(p) ==
    /\ \E q \in Proc : Blocks(q, p)
    /\ TurnBack(p)

\* An operation that has changed nothing yet, or nothing of the record it is at.
Whole(o) ==
    \/ o.at \in {"position", "getcur", "getdel", "secdel", "pget", "data"}
    \/ o.at \in {"new", "cur"} /\ o.i = 1

\* The time of a request is up.  The operation fails as well, but TXN_DEADLOCK
\* is not set: the transaction may do more, and be committed.
TimesOut(p) ==
    /\ \E q \in Proc : Blocks(q, p)
    /\ Finish(p, IF Whole(op[p]) THEN "timed_out" ELSE "half_done")
    /\ UNCHANGED <<primary, sec, held, undo>>

\* The last operation of p has failed between two of its steps.
Torn(p) == op[p].at = "idle" /\ op[p].rc \in {"half_done", "DB_SECONDARY_BAD"}

\* What is known to leave an index different from its primary: a transaction
\* goes on, or commits, with an operation that is half done; and setValue()
\* leaves the old entry of a record whose new value the index leaves out.
Spoils(p) ==
    \/ Torn(p) /\ op'[p].at # "undo"
    \/ op[p].at = "cur" /\ NewKey(p) = DoNotIndex /\ OldKey(p) # DoNotIndex

SecBack(c) ==
    CASE c.what = "added" -> [sec EXCEPT ![c.i] = @ \ {c.e}]
      [] c.what = "removed" -> [sec EXCEPT ![c.i] = @ \cup {c.e}]
      [] OTHER -> sec

PrimaryBack(c) == IF c.what = "set" THEN [primary EXCEPT ![c.key] = c.old] ELSE primary

\* Mutant: the records of the log are undone in the order they were written.
UndoOne_forward(p) ==
    /\ op[p].at = "undo" /\ undo[p] # <<>>
    /\ sec' = SecBack(Head(undo[p]))
    /\ primary' = PrimaryBack(Head(undo[p]))
    /\ undo' = [undo EXCEPT ![p] = Tail(@)]
    /\ UNCHANGED <<held, op>>

UndoOne(p) ==
    /\ op[p].at = "undo" /\ undo[p] # <<>>
    /\ sec' = SecBack(Last(undo[p]))
    /\ primary' = PrimaryBack(Last(undo[p]))
    /\ undo' = [undo EXCEPT ![p] = Front(@)]
    /\ UNCHANGED <<held, op>>

AbortEnds(p) ==
    /\ op[p].at = "undo" /\ undo[p] = <<>>
    /\ Close(p)
    /\ UNCHANGED <<primary, sec>>

-----------------------------------------------------------------------------

Init ==
    /\ primary = [k \in Key |-> Absent]
    /\ sec = [i \in Index |-> {}]
    /\ held = {}
    /\ op = [p \in Proc |-> Idle]
    /\ undo = [p \in Proc |-> <<>>]
    /\ spoilt = FALSE

Begins(p) ==
    \/ \E k \in Key, v \in Value : Set(p, k, v) \/ SetValue(p, k, v)
    \/ \E k \in Key : Erase(p, k)
    \/ \E i \in Index, s \in SecKey : EraseBySecondary(p, i, s) \/ Pget(p, i, s)

Steps(p) ==
    \/ PutNewEntry(p) \/ GetOldRecord(p) \/ DeleteOldEntry(p) \/ PutRecord(p)
    \/ Position(p) \/ GetCurrent(p) \/ DeleteCurrentEntry(p) \/ PutCurrentEntry(p)
    \/ NextToErase(p) \/ GetToErase(p) \/ DeleteEntry(p) \/ EraseRecord(p)
    \/ PgetKey(p) \/ PgetData(p)

Ends(p) ==
    \/ Commit(p) \/ Abort(p) \/ Refused(p) \/ TimesOut(p)
    \/ UndoOne(p) \/ AbortEnds(p)

Next ==
    \E p \in Proc :
        /\ Begins(p) \/ Steps(p) \/ Ends(p)
        /\ spoilt' = (spoilt \/ Spoils(p))

Spec == Init /\ [][Next]_vars

-----------------------------------------------------------------------------
(* Properties. *)

\* Type correctness; two threads never hold a page in conflicting modes (Lock).
TypeOK ==
    /\ primary \in [Key -> Value \cup {Absent}]
    /\ sec \in [Index -> SUBSET (SecKey \X Key)]
    /\ \A l, m \in held : l[3] = m[3] /\ l[1] # m[1] => l[2] = "r" /\ m[2] = "r"

\* The record with key k calls for an entry with s in the index.
CalledFor(i, s, k) == primary[k] # Absent /\ Extract[i][primary[k]] = s

\* No operation of p is about the record with key k, nor does p have a change of
\* it to take back.
Settled(p, k) ==
    /\ op[p].key # k
    /\ Torn(p) \/ op[p].at = "undo" =>
          \A n \in DOMAIN undo[p] :
              IF undo[p][n].what = "set" THEN undo[p][n].key # k ELSE undo[p][n].e[2] # k

\* Every index has exactly the entry that a record calls for, unless an operation
\* is at work on that record or failed on it: also while other records are being
\* put and erased, within open transactions, and after transactions that were
\* refused a lock or ran out of time between two steps of an operation
\* (__dbc_put, __dbc_del, DB_TXN->abort).  It does not hold once an application
\* has gone on with, or committed, a transaction whose operation failed, or has
\* set a value through an iterator that an index leaves out (Spoils).
IndexesMatch ==
    spoilt \/
        \A k \in Key : (\A p \in Proc : Settled(p, k)) =>
            \A i \in Index, s \in SecKey : <<s, k>> \in sec[i] <=> CalledFor(i, s, k)

\* No operation ends with DB_SECONDARY_BAD, "secondary index corrupt": not while
\* other threads are between their index and their primary either.  As long as
\* the application does nothing that spoils an index (Spoils).
NeverBad == spoilt \/ \A p \in Proc : op[p].rc # "DB_SECONDARY_BAD"

\* The data pget() returns are those of a record with the key it was asked for,
\* whatever is put and erased between its two reads.  As long as the application
\* does nothing that spoils an index (Spoils): pget follows a stale entry.
PgetFindsTheKey ==
    spoilt \/
        \A p \in Proc :
            op[p].at = "idle" /\ op[p].rc = "ok" /\ op[p].skey # DoNotIndex
                => Extract[op[p].i][op[p].val] = op[p].skey

\* p comes to wait for itself.
InCircle(p) ==
    LET reach[n \in 0..Cardinality(Proc)] ==
            IF n = 0 THEN {q \in Proc : Blocks(q, p)}
            ELSE reach[n - 1] \cup {q \in Proc : \E r \in reach[n - 1] : Blocks(q, r)}
    IN p \in reach[Cardinality(Proc)]

\* The locks are taken "secondary, then primary", so that puts of new records
\* and gets through an index do not meet in a deadlock: while every transaction
\* is in its first operation, each circle has somebody who replaces or deletes a
\* record, holds its page and waits for the page of an index, or, in setValue(),
\* to write the page it has read.  Unless an index has been spoilt.
CirclesNeedAReplacement ==
    spoilt \/
        \A p \in Proc :
            (\A q \in Proc : op[q].n = 0) /\ InCircle(p)
                => \E q \in Proc :
                      /\ InCircle(q)
                      /\ op[q].at \in {"old", "cur", "curput", "del", "secdel", "getcur"}
                      /\ \E l \in held : l[1] = q /\ l[3][1] = 0

=============================================================================
