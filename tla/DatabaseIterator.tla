-------------------------- MODULE DatabaseIterator --------------------------
(***************************************************************************)
(* DatabaseIterator and the calls of Database that make iterators or change*)
(* records under them (STLdb4/stldb4.cpp, stldb4.hh), for a B-tree.        *)
(*                                                                         *)
(* An iterator owns a Berkeley DB cursor; end() is the null cursor.  Records*)
(* are numbered in their order; MaxDup of them share a key.  A cursor whose*)
(* record is deleted keeps its place in that order (__bamc_del), so a      *)
(* cursor is modelled by the number of its record, live or not.            *)
(*                                                                         *)
(* The calls of one thread are atomic but for erase(range), clear() and    *)
(* insert(range).  Their loops make one call of Berkeley DB or one read    *)
(* through an iterator in a step, and when Shared the calls of other       *)
(* threads come between any two of them.  A call may be refused as a       *)
(* deadlock victim when Contended.  Values have one length (UpdateCache()  *)
(* throws for one that grows while it reads it).  A commit with open       *)
(* cursors panics the environment (see BdbTxn); here nobody asks for one.  *)
(***************************************************************************)
EXTENDS Naturals, FiniteSets, FiniteSetsExt

CONSTANTS
    Iter,                  \* the application's iterator variables
    Trans,                 \* Transaction objects
    NoTrans, NullTrans,    \* a null smart pointer; the transaction that does nothing
    NumRec, MaxDup,        \* bounds: how many records, how many of them share a key
    Val, Empty, Absent,    \* values, the empty one; "there is no such record"
    NoObject,              \* the variable holds no iterator
    HasCompare,            \* the database has a comparison function (m_bt_compare_fcn)
    Contended,             \* calls may be refused by the deadlock detector
    Careful,               \* the application keeps to what an STL container allows
    Shared                 \* other calls may run between the steps of the loops

ASSUME RecordAssumption == NumRec \in Nat \ {0} /\ MaxDup \in Nat \ {0}
ASSUME ValueAssumption == Empty \in Val /\ Absent \notin Val
ASSUME TransAssumption ==
    /\ NoTrans \notin Trans \cup {NullTrans}
    /\ NullTrans \notin Trans
ASSUME SwitchAssumption ==
    {HasCompare, Contended, Careful, Shared} \subseteq BOOLEAN

Rec == 1..NumRec
KeyOf(r) == (r - 1) \div MaxDup + 1
Key == {KeyOf(r) : r \in Rec}
Unset == 0               \* a cursor that has not been positioned
AtEnd == NumRec + 1      \* m_cursor is null

DB_FIRST == 7
DB_LAST == 15
DB_NEXT == 16
DB_NEXT_DUP == 17
DB_NEXT_NODUP == 18
DB_PREV == 23

\* m_trans, the transaction m_cursor was opened in, and where m_cursor is.
Iterator == [trans : Trans \cup {NullTrans}, within : Trans \cup {NullTrans},
             at : Rec \cup {Unset, AtEnd}]

ASSUME ObjectAssumption == NoObject \notin Iterator

VARIABLES
    store,      \* the value of each record, or Absent
    it,         \* the iterator in each variable, or NoObject
    txn,        \* "unused", "running" or "ended"
    victim,     \* transactions that have been refused a lock (TXN_DEADLOCK)
    implicit,   \* Database.m_implicitTransaction
    erasing,    \* a running erase(range): its variables, and what it does next
    inserting   \* *it and t of a running insert(range)

vars == <<store, it, txn, victim, implicit, erasing, inserting>>

Operands == {"iter", "last"}

\* step: the loop is about to compare keys or values (of the operands that are
\* unread; seen: the value read of the other), to move next, to read *iter or
\* to erase its key.  lost: the end of the range could be missed (see below).
NotErasing == [step |-> "none", iter |-> NoObject, last |-> NoObject, next |-> NoObject,
               trans |-> NoTrans, unread |-> {}, seen |-> Absent, lost |-> FALSE]
NotInserting == [rec |-> Unset, val |-> Absent, trans |-> NoTrans]

Init ==
    /\ store \in [Rec -> Val \cup {Absent}]
    /\ it = [i \in Iter |-> NoObject]
    /\ txn = [t \in Trans |-> "unused"]
    /\ victim = {}
    /\ implicit = NoTrans
    /\ erasing = NotErasing
    /\ inserting = NotInserting

-----------------------------------------------------------------------------
(* Transactions. *)

Freshen(t) == IF t # NoTrans THEN t ELSE IF implicit # NoTrans THEN implicit ELSE NullTrans

\* Mutant: an ended transaction still hands out its DB_TXN.
Raw_stale(t) == t

\* Transaction::raw(): the DB_TXN, null once it has ended.
Raw(t) == IF t = NullTrans \/ txn[t] # "running" THEN NullTrans ELSE t

\* What the application may pass: nothing, or a transaction that runs.
Given == Trans \cup {NoTrans}
Passes(t) == t \in Trans => txn[t] = "running"

\* The calling thread is not inside erase(range) or insert(range).
Idle == Shared \/ (erasing = NotErasing /\ inserting = NotInserting)

\* A call of Database in transaction t, which a victim only ends.
MayCall(t) == Idle /\ Passes(t) /\ Raw(Freshen(t)) \notin victim

\* The call in transaction t is refused: its locker is chosen as a victim.
Refuse(t) == Contended /\ victim' = victim \cup ({Raw(t)} \cap Trans)

\* A call in transaction t throws: it is refused, or made for a victim.
CallThrows(t) == Refuse(t) \/ (Raw(t) \in victim /\ UNCHANGED victim)

-----------------------------------------------------------------------------
(* Cursors. *)

Live == {r \in Rec : store[r] # Absent}

First(S) == IF S = {} THEN {} ELSE {Min(S)}
Last(S) == IF S = {} THEN {} ELSE {Max(S)}

\* What DBC->c_get finds from `at': at most one record.
CGet(at, flags) ==
    LET after == {r \in Live : r > at}
        prior == {r \in Live : at = Unset \/ r < at}
        dup(r) == at # Unset /\ KeyOf(r) = KeyOf(at)
    IN CASE flags = DB_FIRST -> First(Live)
         [] flags = DB_LAST -> Last(Live)
         [] flags = DB_NEXT -> First(after)
         [] flags = DB_NEXT_DUP -> {r \in First(after) : dup(r)}
         [] flags = DB_NEXT_NODUP -> First({r \in after : ~dup(r)})
         [] flags = DB_PREV -> Last(prior)

CGetSet(k) == First({r \in Live : KeyOf(r) = k})

\* Mutant: the key itself is not a match.
CGetSetRange_after(k) == First({r \in Live : KeyOf(r) > k})

CGetSetRange(k) == First({r \in Live : KeyOf(r) >= k})

\* a & b, as a condition, for the flags above.
SharesBit(a, b) ==
    \E bit \in {2^n : n \in 0..4} : (a \div bit) % 2 = 1 /\ (b \div bit) % 2 = 1

\* The first half of moveCursor(): a null cursor is replaced by a new one.
Opened(x) == [x EXCEPT !.within = Raw(x.trans), !.at = Unset]

setCursorToEnd(x) == [x EXCEPT !.within = NullTrans, !.at = AtEnd]

\* Mutant: a cursor whose record is deleted has lost its place and starts afresh.
moveCursor_restarts(x, flags) ==
    LET y == IF x.at \in Live THEN x ELSE Opened(x)
        found == CGet(y.at, flags)
    IN IF found = {} THEN setCursorToEnd(y) ELSE [y EXCEPT !.at = Min(found)]

\* moveCursor() when nothing is thrown.
moveCursor(x, flags) ==
    LET fromEnd == x.at = AtEnd /\ SharesBit(flags, DB_PREV)
        y == IF fromEnd THEN Opened(x) ELSE x
        f == IF fromEnd THEN DB_LAST ELSE flags
        found == CGet(y.at, f)
    IN CASE found # {} -> [y EXCEPT !.at = Min(found)]
         [] found = {} /\ SharesBit(f, DB_NEXT_DUP) -> setCursorToEnd(y)
         [] OTHER -> y

\* moveCursor() when c_get is refused and the exception leaves it.
Thrown(x) == IF x.at = AtEnd THEN Opened(x) ELSE x

\* Reading through an iterator throws unless it is at a live record.
Readable(x) == x.at \in Live

At(t, found) ==
    IF found = {} THEN [trans |-> t, within |-> NullTrans, at |-> AtEnd]
                  ELSE [trans |-> t, within |-> Raw(t), at |-> Min(found)]

-----------------------------------------------------------------------------
(* Iterators that a call of Database returns. *)

end(t) == At(Freshen(t), {})

begin(t) == IF Live = {} THEN end(NoTrans) ELSE At(Freshen(t), First(Live))

find(k, t) == At(Freshen(t), CGetSet(k))

find_partial(k, t) == At(Freshen(t), CGetSetRange(k))

lower_bound(k, t) ==
    LET found == find(k, t)
        first == begin(NoTrans)
    IN IF found.at = AtEnd /\ HasCompare /\ first.at # AtEnd /\ k < KeyOf(first.at)
         THEN first
         ELSE found

upper_bound(k, t) == moveCursor(lower_bound(k, t), DB_NEXT_NODUP)

\* operator==, when neither read throws: two null cursors, or two records with
\* the same key and value (of two duplicates that are equal, each is the other).
Equal(x, y) ==
    IF AtEnd \in {x.at, y.at}
        THEN x.at = y.at
        ELSE KeyOf(x.at) = KeyOf(y.at) /\ store[x.at] = store[y.at]

\* distance( lower_bound( k ), upper_bound( k ) ), in steps of operator++.
count(k) ==
    LET walk[n \in 0..AtEnd] ==
            IF n = 0 THEN lower_bound(k, NoTrans) ELSE moveCursor(walk[n - 1], DB_NEXT)
    IN Min({n \in 0..AtEnd : Equal(walk[n], upper_bound(k, NoTrans))})

\* The iterator is assigned to the application's variable i.
Assign(i, x) == it' = [it EXCEPT ![i] = x]

Quiet == UNCHANGED <<txn, implicit, erasing, inserting>>

\* A call that only makes an iterator: refused, it leaves the variable alone.
Makes(i, t, x) ==
    /\ MayCall(t)
    /\ \/ Assign(i, x) /\ UNCHANGED victim
       \/ Refuse(Freshen(t)) /\ UNCHANGED it
    /\ Quiet /\ UNCHANGED store

End(i, t) == MayCall(t) /\ Assign(i, end(t)) /\ Quiet /\ UNCHANGED <<store, victim>>

Begin(i, t) == Makes(i, t, begin(t))

\* find() returns its cursor after any error but "not found".
Unpositioned(t) == [trans |-> Freshen(t), within |-> Raw(Freshen(t)), at |-> Unset]

Find(i, k, t) ==
    /\ MayCall(t)
    /\ \/ Assign(i, find(k, t)) /\ UNCHANGED victim
       \/ Refuse(Freshen(t)) /\ Assign(i, Unpositioned(t))
    /\ Quiet /\ UNCHANGED store

\* find_partial() takes any error for "not found".
FindPartial(i, k, t) ==
    /\ MayCall(t)
    /\ \/ Assign(i, find_partial(k, t)) /\ UNCHANGED victim
       \/ Refuse(Freshen(t)) /\ Assign(i, end(t))
    /\ Quiet /\ UNCHANGED store

Present(k) == \E r \in Live : KeyOf(r) = k

\* Where lower_bound(k, t) found nothing it calls begin(), without passing t on.
AsksBegin(k, t) == HasCompare /\ find(k, t).at = AtEnd
BeginIsVictim(k, t) == AsksBegin(k, t) /\ Raw(Freshen(NoTrans)) \in victim

LowerBound(i, k, t) ==
    /\ MayCall(t)
    /\ Careful => Present(k)
    /\ \/ ~BeginIsVictim(k, t) /\ Assign(i, lower_bound(k, t)) /\ UNCHANGED victim
       \/ Refuse(Freshen(t)) /\ Assign(i, Unpositioned(t))
       \/ AsksBegin(k, t) /\ CallThrows(Freshen(NoTrans)) /\ UNCHANGED it
    /\ Quiet /\ UNCHANGED store

\* After a refused find() the unpositioned cursor moves, if it is not refused too.
UpperBound(i, k, t) ==
    /\ MayCall(t)
    /\ Careful => Present(k)
    /\ \/ ~BeginIsVictim(k, t) /\ Assign(i, upper_bound(k, t)) /\ UNCHANGED victim
       \/ Refuse(Freshen(t)) /\ UNCHANGED it
       \/ AsksBegin(k, t) /\ CallThrows(Freshen(NoTrans)) /\ UNCHANGED it
       \/ Refuse(Freshen(t)) /\ Assign(i, moveCursor(Unpositioned(t), DB_NEXT_NODUP))
    /\ Quiet /\ UNCHANGED store

-----------------------------------------------------------------------------
(* Methods of an iterator. *)

\* The variable i holds an iterator, and a victim is not worked with any more.
MayUse(i) ==
    /\ Idle
    /\ it[i] # NoObject
    /\ {it[i].within, Raw(it[i].trans)} \cap victim = {}

\* A move that throws leaves the cursor where Thrown says.
Moves(i, flags) ==
    /\ \/ Assign(i, moveCursor(it[i], flags)) /\ UNCHANGED victim
       \/ Refuse(Thrown(it[i]).within) /\ Assign(i, Thrown(it[i]))
    /\ Quiet /\ UNCHANGED store

\* At the last record moveCursor() has already made the iterator end().
Increment(i) ==
    /\ MayUse(i)
    /\ Careful => it[i].at # AtEnd
    /\ Moves(i, DB_NEXT)

\* operator--() throws at the first record, but has made the iterator end().
Decrement(i) ==
    /\ MayUse(i)
    /\ Careful => \E r \in Live : r < it[i].at
    /\ Moves(i, DB_PREV)

\* moveCursorNextDup() turns every exception into end().
moveCursorNextDup(i) ==
    /\ MayUse(i)
    /\ Careful => it[i].at # AtEnd
    /\ \/ /\ Assign(i, IF it[i].at = Unset THEN setCursorToEnd(it[i])
                                           ELSE moveCursor(it[i], DB_NEXT_DUP))
          /\ UNCHANGED victim
       \/ Refuse(Thrown(it[i]).within) /\ Assign(i, setCursorToEnd(it[i]))
    /\ Quiet /\ UNCHANGED store

Copy(i, j) ==
    /\ Idle
    /\ it[i] # NoObject
    /\ Assign(j, it[i])
    /\ Quiet /\ UNCHANGED <<store, victim>>

Destroy(i) ==
    /\ Idle
    /\ Assign(i, NoObject)
    /\ Quiet /\ UNCHANGED <<store, victim>>

\* setValue() and erase(pos) through a null cursor crash: nobody does it.
SetValue(i, v) ==
    /\ MayUse(i)
    /\ Readable(it[i])
    /\ \/ store' = [store EXCEPT ![it[i].at] = v] /\ UNCHANGED victim
       \/ Refuse(it[i].within) /\ UNCHANGED store
    /\ Quiet /\ UNCHANGED it

EraseAt(i) ==
    /\ MayUse(i)
    /\ Readable(it[i])
    /\ \/ store' = [store EXCEPT ![it[i].at] = Absent] /\ UNCHANGED victim
       \/ Refuse(it[i].within) /\ UNCHANGED store
    /\ Quiet /\ UNCHANGED it

-----------------------------------------------------------------------------
(* Calls of Database that change records. *)

EraseKey(k, t) ==
    /\ MayCall(t)
    /\ Present(k)
    /\ \/ /\ store' = [r \in Rec |-> IF KeyOf(r) = k THEN Absent ELSE store[r]]
          /\ UNCHANGED victim
       \/ Refuse(Freshen(t)) /\ UNCHANGED store
    /\ Quiet /\ UNCHANGED it

Put(r, v, t) ==
    /\ MayCall(t)
    /\ \/ store' = [store EXCEPT ![r] = v] /\ UNCHANGED victim
       \/ Refuse(Freshen(t)) /\ UNCHANGED store
    /\ Quiet /\ UNCHANGED it

\* insert() puts the record and looks its key up again.
FirstOfKey(r) == \A s \in Live : KeyOf(s) = KeyOf(r) => s >= r

Insert(i, r, v, t) ==
    /\ MayCall(t)
    /\ Careful => FirstOfKey(r)
    /\ \/ /\ store' = [store EXCEPT ![r] = v]
          /\ Assign(i, At(Freshen(t), First({s \in Live \cup {r} : KeyOf(s) = KeyOf(r)})))
          /\ UNCHANGED victim
       \/ Refuse(Freshen(t)) /\ UNCHANGED <<store, it>>
       \/ /\ Refuse(Freshen(t))
          /\ store' = [store EXCEPT ![r] = v]
          /\ Assign(i, Unpositioned(t))
    /\ Quiet

\* The record operator[] picks for key k, when a key has one record.
Slot(k) ==
    LET x == lower_bound(k, implicit)
    IN IF x.at = AtEnd \/ k > KeyOf(x.at) THEN k ELSE x.at

\* db[ k ] = v.  Refused half way, it leaves an empty value behind.
Subscript(k, v) ==
    /\ MayCall(implicit)
    /\ MaxDup = 1
    /\ Careful => ~HasCompare \/ Present(k)
    /\ \/ store' = [store EXCEPT ![Slot(k)] = v] /\ UNCHANGED victim
       \/ Refuse(Freshen(implicit)) /\ UNCHANGED store
       \/ /\ Refuse(Freshen(implicit))
          /\ Slot(k) \notin Live
          /\ store' = [store EXCEPT ![Slot(k)] = Empty]
    /\ Quiet /\ UNCHANGED it

-----------------------------------------------------------------------------
(* erase(iter, last) and insert(it, end): loops of many calls. *)

Rest == UNCHANGED <<it, txn, implicit>>

\* Before `iter != last' reads anything: two null cursors are equal, and one alone
\* is different from every record.
Turn(e) ==
    CASE e.iter.at = AtEnd /\ e.last.at = AtEnd -> NotErasing
      [] e.iter.at # AtEnd /\ e.last.at # AtEnd ->
            [e EXCEPT !.step = "keys", !.unread = Operands]
      [] OTHER -> [e EXCEPT !.step = "move"]

\* From a record or end() to one that is not before it.
IsRange(x, y) == (\A z \in {x, y} : Readable(z) \/ z.at = AtEnd) /\ x.at <= y.at

Entered(x, y, t) ==
    Turn([NotErasing EXCEPT !.iter = x, !.last = y, !.trans = t, !.lost = ~IsRange(x, y)])

EraseRangeStart(i, j, t) ==
    /\ erasing = NotErasing
    /\ MayUse(i) /\ MayUse(j) /\ MayCall(t)
    /\ Careful => IsRange(it[i], it[j])
    /\ erasing' = Entered(it[i], it[j], t)
    /\ Rest /\ UNCHANGED <<store, victim, inserting>>

\* clear(): t is for begin() and end(), and is not passed on to erase().
Clear(t) ==
    /\ erasing = NotErasing
    /\ MayCall(t)
    /\ \/ erasing' = Entered(begin(t), end(t), NoTrans) /\ UNCHANGED victim
       \/ Refuse(Freshen(t)) /\ UNCHANGED erasing
    /\ Rest /\ UNCHANGED <<store, inserting>>

Operand(x) == IF x = "iter" THEN erasing.iter ELSE erasing.last

\* Operand x is read for a comparison: the operands are read in either order, the
\* values after the keys and only if those are equal.
Reads(x, step) ==
    /\ erasing.step = step /\ x \in erasing.unread
    /\ Readable(Operand(x)) /\ Operand(x).within \notin victim
    /\ Rest /\ UNCHANGED <<store, victim, inserting>>

SameKey == KeyOf(erasing.iter.at) = KeyOf(erasing.last.at)
SameRecord == erasing.iter.at = erasing.last.at

\* x->first == y->first
CompareKeys(x) ==
    /\ Reads(x, "keys")
    /\ erasing' = IF erasing.unread # {x} THEN [erasing EXCEPT !.unread = @ \ {x}]
                  ELSE IF SameKey THEN [erasing EXCEPT !.step = "values", !.unread = Operands]
                  ELSE [erasing EXCEPT !.step = "move", !.unread = {}]

\* x->second == y->second.  lost: iter is at last, and its value has been changed
\* between the two reads, so that the loop goes on.
CompareValues(x) ==
    /\ Reads(x, "values")
    /\ erasing' = IF erasing.unread # {x}
                     THEN [erasing EXCEPT !.unread = @ \ {x}, !.seen = store[Operand(x).at]]
                  ELSE IF erasing.seen = store[Operand(x).at] THEN NotErasing
                  ELSE [erasing EXCEPT !.step = "move", !.unread = {}, !.seen = Absent,
                                       !.lost = @ \/ SameRecord]

\* iterator next = iter; ++next.  lost: last's record is gone, so that next may
\* pass it.
MoveNext ==
    /\ erasing.step = "move"
    /\ Thrown(erasing.iter).within \notin victim
    /\ erasing' = [erasing EXCEPT !.step = "read", !.next = moveCursor(erasing.iter, DB_NEXT),
                      !.lost = @ \/ (erasing.last.at # AtEnd /\ erasing.last.at \notin Live)]
    /\ Rest /\ UNCHANGED <<store, victim, inserting>>

\* iter->first
ReadFirst ==
    /\ erasing.step = "read"
    /\ Readable(erasing.iter) /\ erasing.iter.within \notin victim
    /\ erasing' = [erasing EXCEPT !.step = "erase"]
    /\ Rest /\ UNCHANGED <<store, victim, inserting>>

\* iter->first reads through a null cursor, and the process is gone.
Crash ==
    /\ erasing.step = "read"
    /\ erasing.iter.at = AtEnd
    /\ erasing' = [NotErasing EXCEPT !.step = "crashed"]
    /\ Rest /\ UNCHANGED <<store, victim, inserting>>

\* Mutant: the iterator has been advanced when its key is read.
ErasedKey_next == KeyOf(erasing.next.at)

\* The key that was read: records keep theirs.
ErasedKey == KeyOf(erasing.iter.at)

\* erase( key, t ), with all the duplicates of the key; iter = next.
EraseOne ==
    /\ erasing.step = "erase"
    /\ Present(ErasedKey) /\ Raw(Freshen(erasing.trans)) \notin victim
    /\ store' = [r \in Rec |-> IF KeyOf(r) = ErasedKey THEN Absent ELSE store[r]]
    /\ erasing' = Turn([erasing EXCEPT !.iter = erasing.next, !.next = NoObject])
    /\ Rest /\ UNCHANGED <<victim, inserting>>

\* The loop's next call throws: a record or a key has gone, or a call is refused.
TurnThrows ==
    \/ /\ erasing.step \in {"keys", "values"}
       /\ \E x \in erasing.unread :
             (~Readable(Operand(x)) /\ UNCHANGED victim) \/ CallThrows(Operand(x).within)
    \/ erasing.step = "move" /\ CallThrows(Thrown(erasing.iter).within)
    \/ /\ erasing.step = "read" /\ erasing.iter.at # AtEnd
       /\ (~Readable(erasing.iter) /\ UNCHANGED victim) \/ CallThrows(erasing.iter.within)
    \/ /\ erasing.step = "erase"
       /\ (~Present(ErasedKey) /\ UNCHANGED victim) \/ CallThrows(Freshen(erasing.trans))

\* Mutant: the loop catches the exception and tries again.
EraseRangeThrows_caught == TurnThrows /\ UNCHANGED erasing /\ Rest /\ UNCHANGED <<store, inserting>>

\* An exception leaves the loop.
EraseRangeThrows ==
    /\ TurnThrows
    /\ erasing' = NotErasing
    /\ Rest /\ UNCHANGED <<store, inserting>>

InsertRangeStart(r, v, t) ==
    /\ ~Careful
    /\ inserting = NotInserting
    /\ MayCall(t)
    /\ inserting' = [rec |-> r, val |-> v, trans |-> t]
    /\ Rest /\ UNCHANGED <<store, victim, erasing>>

\* `it' is never advanced: the same record is inserted again.  A refusal of the
\* look-up in insert() goes unnoticed.
InsertRangeStep ==
    /\ inserting # NotInserting
    /\ Raw(Freshen(inserting.trans)) \notin victim
    /\ store' = [store EXCEPT ![inserting.rec] = inserting.val]
    /\ UNCHANGED victim \/ Refuse(Freshen(inserting.trans))
    /\ Rest /\ UNCHANGED <<erasing, inserting>>

\* The put is refused or made for a victim, and the exception leaves the loop.
InsertRangeThrows ==
    /\ inserting # NotInserting
    /\ \/ Raw(Freshen(inserting.trans)) \in victim /\ UNCHANGED victim
       \/ Refuse(Freshen(inserting.trans))
    /\ inserting' = NotInserting
    /\ Rest /\ UNCHANGED <<store, erasing>>

-----------------------------------------------------------------------------
(* Transactions of the application. *)

StartTransaction(t) ==
    /\ Idle
    /\ txn[t] = "unused"
    /\ txn' = [txn EXCEPT ![t] = "running"]
    /\ UNCHANGED <<store, it, victim, implicit, erasing, inserting>>

setImplicitTransaction(t) ==
    /\ Idle
    /\ implicit = NoTrans /\ txn[t] = "running"
    /\ implicit' = t
    /\ UNCHANGED <<store, it, txn, victim, erasing, inserting>>

HasCursor(t) == \E x \in {it[i] : i \in Iter} \cup {erasing.iter, erasing.last, erasing.next} :
                    x # NoObject /\ x.at # AtEnd /\ x.within = t

\* A commit; the end of a victim, which undoes its writes, is BdbTxn's.
Commit(t) ==
    /\ Idle
    /\ txn[t] = "running" /\ t \notin victim /\ ~HasCursor(t)
    /\ txn' = [txn EXCEPT ![t] = "ended"]
    /\ implicit' = IF implicit = t THEN NoTrans ELSE implicit
    /\ UNCHANGED <<store, it, victim, erasing, inserting>>

IteratorStep(i) ==
    \/ Increment(i) \/ Decrement(i) \/ moveCursorNextDup(i) \/ Destroy(i) \/ EraseAt(i)
    \/ \E j \in Iter : Copy(i, j) \/ \E t \in Given : EraseRangeStart(i, j, t)
    \/ \E v \in Val : SetValue(i, v)

DatabaseStep(t) ==
    \/ Clear(t)
    \/ \E r \in Rec, v \in Val : InsertRangeStart(r, v, t)
    \/ \E k \in Key : EraseKey(k, t)
    \/ \E r \in Rec, v \in Val : Put(r, v, t) \/ \E i \in Iter : Insert(i, r, v, t)
    \/ \E i \in Iter : Begin(i, t) \/ End(i, t)
    \/ \E i \in Iter, k \in Key :
          Find(i, k, t) \/ FindPartial(i, k, t) \/ LowerBound(i, k, t) \/ UpperBound(i, k, t)

EraseLoop ==
    \/ \E x \in Operands : CompareKeys(x) \/ CompareValues(x)
    \/ MoveNext \/ ReadFirst \/ EraseOne
    \/ Crash \/ EraseRangeThrows
InsertLoop == InsertRangeStep \/ InsertRangeThrows

Next ==
    /\ erasing.step # "crashed"
    /\ \/ \E i \in Iter : IteratorStep(i)
       \/ \E t \in Given : DatabaseStep(t)
       \/ \E k \in Key, v \in Val : Subscript(k, v)
       \/ EraseLoop
       \/ InsertLoop
       \/ \E t \in Trans : StartTransaction(t) \/ setImplicitTransaction(t) \/ Commit(t)

Spec == Init /\ [][Next]_vars

\* The thread inside erase(range) keeps running.
FairSpec == Spec /\ WF_vars(EraseLoop)

-----------------------------------------------------------------------------
(* Properties. *)

\* Every variable has its type, and a cursor that is open is open in a
\* transaction that runs, or in none.
TypeOK ==
    /\ store \in [Rec -> Val \cup {Absent}]
    /\ it \in [Iter -> Iterator \cup {NoObject}]
    /\ txn \in [Trans -> {"unused", "running", "ended"}]
    /\ victim \in SUBSET Trans
    /\ implicit \in Trans \cup {NoTrans}
    /\ erasing \in [step : {"none", "keys", "values", "move", "read", "erase", "crashed"},
                    iter : Iterator \cup {NoObject}, last : Iterator \cup {NoObject},
                    next : Iterator \cup {NoObject}, trans : Trans \cup {NoTrans},
                    unread : SUBSET Operands, seen : Val \cup {Absent}, lost : BOOLEAN]
    /\ inserting \in {NotInserting} \cup
          [rec : Rec, val : Val, trans : Trans \cup {NoTrans}]
    /\ \A t \in Trans : HasCursor(t) => txn[t] = "running"

Position(x) == IF x = NoObject THEN 0 ELSE x.at
M == INSTANCE SortedMap WITH pos <- [i \in Iter |-> Position(it[i])]

\* How many records have a key, for the keys that exist.
CountIsRight ==
    \A k \in Key : Present(k) => count(k) = Cardinality({r \in Live : KeyOf(r) = k})

\* The step changes no iterator but i, and leaves the records or not.
OnlyOf(i) == it' = [it EXCEPT ![i] = it'[i]] /\ UNCHANGED erasing
OnlyMoves(i) == OnlyOf(i) /\ UNCHANGED store

\* Every call that makes or moves an iterator does what the call of that name
\* does in a sorted map (find_partial() is its lower bound).
CallsMatch ==
    [][\A i \in Iter : OnlyOf(i) =>
         /\ EraseAt(i) => M!Erase(i)
         /\ \A t \in Given, r \in Rec : LET v == store'[r]
                IN v \in Val /\ Insert(i, r, v, t) => M!Insert(i, r, v)
         /\ OnlyMoves(i) =>
              /\ Increment(i) => M!Increment(i)
              /\ Decrement(i) => M!Decrement(i)
              /\ moveCursorNextDup(i) => M!NextDup(i)
              /\ \A t \in Given :
                   /\ Begin(i, t) => M!Begin(i)
                   /\ End(i, t) => M!End(i)
                   /\ \A k \in Key : /\ Find(i, k, t) => M!Find(i, k)
                                     /\ FindPartial(i, k, t) => M!LowerBound(i, k)
                                     /\ LowerBound(i, k, t) => M!LowerBound(i, k)
                                     /\ UpperBound(i, k, t) => M!UpperBound(i, k)]_vars

\* The iterators are those of a sorted map, as the STL promises (stldb4.hh:897):
\* each call does what it does there, from wherever erasing and inserting through
\* other iterators, by key or by range have left the iterator, and no other call
\* moves it; and count(k) is right for the keys that exist.
ImplementsSortedMap == M!Spec /\ CallsMatch /\ []CountIsRight

\* erase(iter, last) and clear() remove records of the keys in the range only,
\* with all their duplicates, since they erase by key, and never read through a
\* null cursor, whatever calls of other threads come between the comparison,
\* ++next, the read of the key and its erasure (stldb4.hh:1650-1656).  The loop
\* is lost, and may erase up to the end and crash there, when it was not given a
\* range, when ++next ran while last's record was gone (it may be back by now),
\* or when iter had reached last and the value of that record changed while the
\* two were compared.
EraseRangeSound ==
    [][~erasing.lost =>
         /\ ~Crash
         /\ EraseOne => \A r \in Rec : store'[r] # store[r] =>
                           /\ KeyOf(erasing.iter.at) <= KeyOf(r)
                           /\ KeyOf(r) <= KeyOf(erasing.last.at - 1)]_vars

\* erase(iter, last) comes to its end, by reaching last, by an exception or by
\* the crash, even if other threads erase the records it stands on.
EraseRangeEnds == erasing.step # "none" ~> erasing.step \in {"none", "crashed"}

\* db[ k ] = v changes no record but those of key k (stldb4.cpp:1773).
SubscriptKeepsOthers ==
    [][\A k \in Key, v \in Val : Subscript(k, v) =>
         \A r \in Rec : KeyOf(r) # k => store'[r] = store[r]]_vars
=============================================================================
