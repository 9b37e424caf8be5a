# A verification model of libstldb4

libstldb4 wraps Berkeley DB (the tree under `src/db-4.6.21` is vendored) in C++ objects that look like
standard containers: an `Environment`, `Transaction`s, `Database`s, iterators, streams over values. This
directory holds TLA+ modules translated from that code, TLC configurations that check them on small
instances, and proofs checked by TLAPS. Paths below are relative to the repository; `stldb4.cpp` and
`stldb4.hh` are in `STLdb4/`, and `txn.c`, `lock.c`, ... are files of `db-4.6.21/txn`, `db-4.6.21/lock`, ...

## 1. The system

| Component | State | Operations | Talks to | Hard behaviour | What makes it correct |
|---|---|---|---|---|---|
| **Transaction** (`stldb4.cpp:355-527`) | `m_txn`, two signals, reference count, `m_DefaultDestructionIsAbort` | constructor (with parent), `commit`, `abort`, destructor | owns a `DB_TXN`; signals every connected `Database` | destruction by the last of many references; exceptions between the end of the `DB_TXN` and the reset of `m_txn`; reentrant reference counting | a running `DB_TXN` is always owned and referenced; a dead one is never used |
| **Implicit transaction of Database** (`stldb4.cpp:727-786`, `1104-1147`, `663-690`; `stldb4.hh:895-1013`) | `m_implicitTransaction`, two connections | `setImplicitTransaction`, `start`, `commit`, `abort`, `open`, `close`, the two signal handlers | shares one Transaction with other databases, learns of its end by signal | one transaction ended through any of many databases; stale connections; a throwing commit half way | handlers match references; implicit means live; none is dropped while it runs |
| **Berkeley DB transactions** (`txn.c`, `db_err.c`) | tree of `DB_TXN`s with log lists, status, cursor counts, `TXN_DEADLOCK` | begin, commit, abort, undo, end | lock manager, log, every operation naming a transaction | failure of one of several kids, order of undo, inheritance | atomicity and isolation of nested transactions |
| **Lock manager** (`lock.c`, `db_meta.c`) | lock table: holders, waiters, lockers | get, inherit, put, promote, timeouts | transactions, deadlock detector | grant among relatives, starvation, deadlock, timeouts | compatible holders; no wake-up is lost; deadlocks, and only deadlocks, are found |
| **DatabaseIterator** (`stldb4.cpp:1387-1424`, `1955-2251`, `2417-2651`) | `m_cursor` (null at end), cache, transaction | begin/end, copy, assign, `++`, `--`, read, write, erase | one Berkeley DB cursor each, pins the transaction | end position simulated by a null cursor, bit tests on enumerated flags, deleted records, cache | `++`/`--` walk the records; a cursor is closed exactly once |
| **Range queries and partial lookup** (`stldb4.cpp:1471-1718`, `1888`) | none | find, bounds, equal ranges, count, advance functors | iterators, comparators | missing keys, custom orders, prefixes ending in 0xff | ranges hold exactly the matching records |
| **Data operations** (`stldb4.cpp:1150-1354`, `1723-1883`) | the records | get, set, insert, `operator[]`, append, erase | transactions, secondaries | two calls per read, default values, lower bound used for a lookup | read your own writes; no other record touched |
| **Comparators** (`stldb4.cpp:828-1005`) | a global functor map | numeric, text, composed, reversed | the B-tree of each database | wrap-around, truncation, prefixes | each is a total order |
| **Secondary indexes** (`stldb4.cpp:604-660`, `1010-1067`; `stldb4.hh:1860-1930`) | index databases | associate, pget, extractors | updated inside each primary update | updates half done, extraction of absent fields | index and primary agree |
| **Value streams** (`stldb4.cpp:2255-2415`) | get/put buffer over one record | read, write, seek, sync | partial reads and writes of the iterator | buffer flushed at the wrong offset, seek between read and write | the stream reads what was written |
| **Environment** (`stldb4.cpp:168-342`) | `DB_ENV`, process-wide default | open, close, deadlock and memory settings | every object | closed while transactions live | outlives its users |
| **Log, recovery, buffer pool, access methods, replication, XA, tools** (vendored) | files, caches | write-ahead logging, `DB_RECOVER`, pages | below everything | crashes, partial writes | committed work survives, uncommitted work does not |

A data operation on a `Database` first picks its transaction (`freshenTransaction`: the argument, else the
implicit one, else `NullTransaction`), passes its `DB_TXN` to Berkeley DB, which checks it
(`__db_check_txn`), locks the page and updates in place, keeping log records to undo with. Iterators hold a
cursor open inside the transaction; a transaction that is resolved with open cursors panics the environment.

## 2. Modules

| Module | Models |
|---|---|
| `AtomicStore` | what nested transactions promise: writes collected per transaction, passed to the parent or the committed store all together or not at all |
| `BdbTxn` | `txn.c`, the grant and inheritance rules of `lock.c`, the checks of `db_err.c`; refines `AtomicStore` |
| `MCBdbTxn` | its constants for TLC |
| `BdbTxn_proofs` | theorems about `BdbTxn`, its refinement of `AtomicStore` among them |
| `ImplicitTxn` | `Transaction`, signals, references, implicit transactions of databases |
| `MCImplicitTxn` | its constants for TLC |
| `ImplicitTxn_proofs` | theorems about `ImplicitTxn` |
| `SortedMap` | what a sorted map of the STL promises the holders of its iterators |
| `DatabaseIterator` | iterators, and the calls of `Database` that make them or change records under them; refines `SortedMap`, call by call, for an application that keeps to what the STL allows |
| `MCDatabaseIterator` | its constants for TLC |
| `LockTable` | the lock table with its wait queues, timeouts and the deadlock detector |
| `OrderedKeys` | the comparison functions, the search and insertion of a leaf page with them, partial lookups |
| `SecondaryIndex` | a primary with its indexes, one page lock at a time, in transactions |
| `ValueAccess` | `get()` in its two calls, streams over parts of a value |
| `Recovery` | log, page writes, checkpoints, crashes and the recovery that opening an `Environment` runs |
| `MCLockTable`, `MCOrderedKeys`, `MCSecondaryIndex`, `MCValueAccess`, `MCRecovery` | their instances for TLC |
| `DatabaseIterator_proofs`, `LockTable_proofs`, `OrderedKeys_proofs`, `SecondaryIndex_proofs`, `ValueAccess_proofs`, `Recovery_proofs` | theorems about the module of that name |

### BdbTxn

A record is updated in place. `before[t][k]` is the image of `k` in `t`'s oldest log record for it, which is
what undoing `t`'s records newest first restores; a logged record is write locked, and log and lock go to the
parent together, so `before` stands for both. `readLocks` are the `DB_LOCK_READ` locks, `ancestors` the
chain of `DB_TXN.parent`. A key is one lock object, that is one page of a B-tree.

`TxnBegin` is `__txn_begin_int`; `DbPut`, `DbGet` an operation that passes `__db_check_txn` and whose lock
`__lock_get_internal` grants; `LockRefused` one whose request has to wait and whose locker the deadlock
detector picks (which locker it picks is left open; waiting itself changes no state here). `TxnCommit` and
`TxnAbort` are whole calls of `__txn_commit` and `__txn_abort`, with the recursion over the kids: `Resolve`
computes what `ret` is at the end of each kid's commit, `Kept` which part of the family ends committed, and
`EndFamily` the sum of the `__txn_end` and `__txn_undo` calls. `Panic` is `__txn_isvalid` meeting an open
cursor. The whole commit is one step: the transactions of one family are used by one thread, and others see
only locks, which are released last.

### ImplicitTxn

`obj` is the life of each `Transaction` object, `held` the objects the application has a smart pointer to,
`mtxn` says whether `m_txn` is non-null, `txn` what became of the `DB_TXN`; `implicit` and `handlers` are
`m_implicitTransaction` and the signal connections, which nobody ever cuts (`m_OnCommitConnection` is never
assigned). Each method is one action with its exception path: `TransactionCommit`, `TransactionAbort`,
`DropHandle` (a smart pointer of the application goes away, perhaps running `~Transaction`),
`setImplicitTransaction` (also `Database::commit()`), `start`, `DatabaseAbort`, `open`, `close` (also
`~Database`). `Install` is the body of `setImplicitTransaction` once as a definition with parameters, so that
`start`, `open` and `close` can call it. Using a freed `DB_TXN` is undefined: `fate` becomes `"undefined"` and
the model says nothing of what follows. An exception leaving a destructor makes it `"terminated"`.

`Nesting` and `FailingCommits` are switches for the application and for Berkeley DB's failures.
The application does not call methods of a database it has closed. The signal's only listeners are databases.

### DatabaseIterator

Records are numbered in their order and `MaxDup` of them share a key; `store` holds the value of each or
`Absent`. A Berkeley DB cursor keeps its place when its record is deleted, so it is modelled by the number of
its record, live or not; `Unset` is a cursor that was opened and not positioned, `AtEnd` the null cursor that
libstldb4 uses for `end()`. An iterator `it[i]` is its cursor `at`, `m_trans` (`trans`), and the transaction the
cursor was opened in (`within`), which differ when `m_trans` has ended. `erasing` and `inserting` are the local
variables of a running `erase(iter, last)` (also `clear()`) and `insert(it, end)`.

`CGet`, `CGetSet`, `CGetSetRange` are what `DBC->c_get` finds; `moveCursor` is the method of that name, with
its bit tests on the enumerated flags (`SharesBit` with the values of `db.in`); `find`, `find_partial`, `lower_bound`,
`upper_bound`, `begin`, `end`, `count` compute the iterator each call returns, and an action of the same name
assigns it to a variable of the application. The other actions are `++`, `--`, `moveCursorNextDup`, copying,
destroying, writing through an iterator, `erase(pos)`, `erase(key)`, `set`, `insert`, `operator[]`, and
transactions that start, become implicit and commit.

A call of one thread is one step, since it changes at most one record, under its lock, and one iterator. The
exceptions are the two loops over many calls. `erase(iter, last)` has a step for each call of Berkeley DB and each
read through an iterator (`erasing.step` is the next): `CompareKeys` and `CompareValues` are `iter != last`, which
reads the key of each operand, in either order, and then, if they are equal, the values; `MoveNext` is `++next`,
`ReadFirst` the read of the key, `EraseOne` the erasure. `EraseRangeThrows` is an exception from any of them, `Crash` the read
through a null cursor that follows when `++next` was called at `end()`, which goes to the last record.
`clear(t)` uses `t` for the ends of its range only and erases in the implicit transaction, as the code does.
`erasing.lost` remembers that the end of the range may be missed; nothing but properties reads it. When `Contended`, a call may be refused by the
deadlock detector; each action says what the refusal leaves behind, and a victim is not worked with any more.
Aborting it belongs to `BdbTxn`. `Shared` lets the calls of others run between any two steps of a loop, `Careful` confines the
application to what an STL container allows and to keys that exist in `lower_bound` and `upper_bound`,
`HasCompare` says whether the database has a comparison function, which `lower_bound` looks at, by a call of `begin()` in
the implicit transaction.

Keys are numbers whose order is both the comparator's and that of `std::string`. The value cache of an iterator
is left out: `m_isCacheValid` is never set to true, so every read asks the cursor. Iterators are equal when their keys
and values are (`Equal`), whether or not they stand on the same record.
Writing through or erasing at `end()` crashes in the code and is not taken in the model; after `Crash` nothing happens
any more. `operator[]` is modelled for keys with one record.

### LockTable

`BdbTxn` has no waiting: a request is granted or refused. `LockTable` has the rest of `lock.c`. For each object
`table` has the held locks and the queue; `PromoteOne` and `Promoted` are `__lock_promote`, run whenever a lock
or a request goes (`PutOne`, `Inherited`, `WakeExpired`, `DetectorAborts`). `Grantable`, `IHold` and `Enqueued`
are the two loops of `__lock_get_internal`, with its early exit at the first holder in the way, and the choice
between the head and the tail of the queue. A request that is promoted is `pending` until its thread wakes
(`WakeGranted`), one that is expired stays in the queue until its thread removes it (`WakeExpired`), one that is
aborted is removed by the detector (`WakeAborted`). `GivesBack` is the lock coupling of `__db_lget` for a cursor
without a transaction, which has a locker of its own (`Stray`). A transaction has any number of children at once
(`Begin`; `txn.c:416-420`), in as many threads, which is where two lockers of one family can sleep; what it does not do
is to lock, commit or abort while it has a child (`InUse`), which is Berkeley DB's rule for its users.

The detector is two steps, as it is in the code: `DetectorBuilds` copies the table under the region lock, follows
the circles (`Find`, with rows changed while they are read) and decides; `DetectorAborts` takes one victim after the
other, and looks for its request by the copy (`last`). Several may be at it (`Detector`). A family is one row, named by its
root, so whoever waits for its own family is taken to wait for itself or not at all, by its places in the queues (`WaitsForItself`);
of several members that sleep one is the victim (`Victims`). `DetectorExpires` is the run for timeouts only.
A locker that has ended is used again by the next `Begin`; locker ids and their reuse are left out, and so are the
policies: any member of a circle may be the victim. Pages are the only objects.

### OrderedKeys

`bt_compare` is what the database's function returns, with an int of `2 * Half` values, bytes up to `MaxByte`
and floats in halves. `bam_search` is the binary search of a page, `InsertSearch` with the short cut of
`__bamc_search` for insertions at an end (`edge` is `bt_lpgno`). `held` is what the application believes to be
stored. `FirstSearch`, `SecondSearch` are the two halves of `find_partial`, `AdvanceFunctorBytes` and
`upper_bound_partial` the other end of `equal_range_partial`; `buf` is the caller's partial key, which `setup()`
lets Berkeley DB write the found key into (`Overwritten`). One leaf page: the tree above it takes the same
comparisons. Keys of the string functions end in NUL, on which those functions rely, and partial lookups are
taken in the default order. `TellsApart` is what a careful application keeps to.

### SecondaryIndex

An operation is a sequence of steps, each with the page it locks (`NeedOfPrimary`, `NeedOfIndex`); `op[p].at` is
the next. `PutNewEntry`, `GetOldRecord`, `DeleteOldEntry`, `PutRecord` are the steps of `__dbc_put`,
`Position` to `PutCurrentEntry` the way of `DB_CURRENT`, `GetToErase`, `DeleteEntry`, `EraseRecord` and `NextToErase`
deletion by either key, `PgetKey` and `PgetData` `pget`. Wherever an operation has to wait its lock may be refused to a
victim (`Refused`): `TXN_DEADLOCK` is set, and the transaction can only be taken back by its log. Or its time is up (`TimesOut`):
then nothing is set (`db_meta.c:1045-1049`), and the transaction may do more operations and commit, with one that is
half done (`Torn`), on purpose or by `~Transaction` (`stldb4.cpp:384`). The indexes exist from the start and every handle has
them associated.

`spoilt` is set once by what is known to make an index differ from its primary (`Spoils`): going on after a half done
operation other than by abort, and `setValue` with a value that an index leaves out while it holds the old one
(section 7). The model goes on after that; the properties other than `TypeOK` speak of what comes before.

### ValueAccess

`get` is the thread in `Database::get()`: `GetSize` resizes the caller's string, which may hold anything, to the size of the
value (`Resized`), and `GetBytes` has the value copied over its front (`Copied`). A stream has the
offsets `g` and `p`; `Read` is `make_new_data_avail` with `partialRead`, `Write` `my_write_out_given_data` with
`partialWrite` and what `__bam_build` makes of it, `Seek` `seekoff` and `seekpos` with `clamp`, `SeekThrows` the seek of a
stream whose record has gone, where `clamp` throws after the offset was assigned. Seeks ask for one byte more or less, and
nobody writes from a negative offset, which would be a write outside a buffer in `__bam_build`. The rest of a
stream's record remembers what it did, for the properties. In an environment the cursor of a stream keeps the
page locked; without one nothing locks, and there is one thread. The buffer in front of the stream is
libferris's and outside.

### Recovery

An LSN is an index of `log`. A page is represented by the LSN of the last update applied to it, which is what every
decision of recovery compares; all updates follow the rule of `__bam_repl_recover`. `Change`, `CommitChild`,
`CommitTop`, `CommitEnds`, `Abort`, `UndoOne`, `AbortEnds` are the life of a transaction as the log sees it (an abort
writes nothing, a child's commit is a record of its parent). `WritePage` is any write of a dirty page,
`StartCheckpoint`, `GetActive`, `EndCheckpoint` the three parts of `txn_checkpoint`, which `db_checkpoint` runs beside
the application. `Crash` keeps any prefix of the log that holds what was flushed. `StartRecovery` is `__db_apprec`
up to its openfiles pass, `Backward` and `Forward` one record each, `EndRecovery` its checkpoint; `rec.list` is the
list of transactions with their fates.

A transaction begins with its first record. Transactions have numbers that are not used twice, so recycle records
are left out; so are prepared transactions and the records of files. `CHECK_LSN` is the variant of
`HAVE_FTRUNCATE`. The last crash ends the work of the system but for its recovery: `Up` says so.

## 3. Runs

| Run | Instance | Shows |
|---|---|---|
| `bdb_nested` | 3 transactions, 2 records, 2 values | locks stay compatible, reads see the reader's own view, read locks give repeatable reads, and the whole implements `AtomicStore` |
| `bdb_cursors` | 4 transactions, 1 record, at most 1 cursor each | the tree stays a forest of live transactions and what ended owns nothing |
| `implicit_any` | 2 databases, 2 transactions, every switch open | handlers match references, nothing is lost, closed databases hear nothing, an implicit transaction is kept until it ends and let go of when it ends, and a handle dangles only for the two known causes |
| `iter_map` | a key of 2 records and one of 1, 1 value, 2 iterators, careful, other threads between any two steps of `erase(iter, last)` | the iterators are those of a sorted multimap whatever is erased and inserted between the calls; `count` is right for keys that exist; `erase(iter, last)` leaves the keys of its range, or crashes, only after one of two things happened at `last`, and comes to an end |
| `iter_any` | 2 keys, 1 value, 1 iterator, 1 transaction, every switch open | types, and no cursor is left open in a transaction that has ended |
| `iter_subscript` (violation) | 3 keys, comparison function | `db[k] = v` writes the first record when `k` sorts before it |
| `lock_family` | a transaction with a timeout and two children in two threads, another transaction and a cursor without one in a third, 2 pages, 2 calls each, 2 detectors | holders are compatible, no wake-up is lost, the detector finds deadlocks of families and only those |
| `keys_order` | 8 comparison functions and their reverses, 4 to 6 keys each, 4-bit ints, 3-bit bytes, 7 partial keys | stored keys are found, pages are in the order of the function's name, partial lookups land where they should |
| `keys_any` (violation) | the same, keys the functions do not tell apart | a stored key is not found |
| `index_txn` | 2 transactions of 2 and 1 operations, 2 keys, 2 values, 2 indexes of which one leaves a value out | until an index is spoilt: indexes match the records, nothing is reported corrupt, `pget` finds the key asked for, first operations take locks in order but for replacements and deletions |
| `values_parts` | 2 streams, 1 thread in `get()`, values up to 2 bytes | streams read and write what they should where they should, also after a seek that threw, `get` is exact or wrong only in the ways stated |
| `recovery_crash` | a transaction with a child and another one, 2 pages, 4 log records, 2 crashes | atomicity and durability over crashes, also in the middle of recovery; recovery never fails |

Three transactions are enough for a grandparent, a kid and a grandkid, for two kids of one parent of which one
fails, and for a family next to a stranger; four add two kids with a kid of their own. Two records let one be
written by the parent and the other by the kid. Two databases share a transaction, and one of them replaces it
while the other keeps it. The bounds `MaxTxn` and `MaxCursors` are guards of
`TxnBegin` and `CursorOpen`. Records are symmetric, and so are databases and transactions of `ImplicitTxn`.
`CHECK_DEADLOCK FALSE` where the
system may stop: when all transactions have been used, at a panic, after a crash of the process, at a bound, or, in
`lock_family`, with everyone asleep in a circle that no detector finds. `index_txn` checks for
deadlock: a thread there can always go on or be refused.

In `iter_map` three records are a first, a last and one between, two of them of one key: a range that ends in the
middle of a key, an iterator on either duplicate, and records another thread may
erase inside and outside of the range. Every instance starts from every possible store. Two iterators are a range,
or one that stands where the other erases. With its one value, duplicates are always equal and no value changes between two reads; that
`last` is missed for a changed value, and unequal duplicates, are covered by the proofs (section 4).

`lock_family` has the smallest family in which siblings can wait for each other, a stranger, and the one kind of locker
that is in no transaction. What each may ask for is chosen so that circles of every kind occur: between families, inside one, and
through a cursor of the waiter's own thread. The cursor never holds two locks in it, so
`GivesBack` does not show there; the proofs cover it, and two instances with a second page for the cursor (603 000 and
677 000 states) were checked beside the runs, without a violation. `keys_order` gives each
comparison function keys at the ends of its type, adjacent ones, and prefixes of each other; a binary search over
more than three keys has an inner step. `index_txn` has an index in which a value is
replaced by one with another key, an index that leaves one value out, and two records that collide in both; a second
operation changes again what the first of its transaction has changed, which only an undo in reverse order takes back,
and transactions follow each other without a bound in each thread. Its constraint `MCUnspoilt` ends a behaviour at the state
in which an index is spoilt. That loses nothing: all properties but `TypeOK` are true from there on, and `TypeOK` is proved
of what follows.
`values_parts` has values to overwrite in part and to write on from their end, and a record that goes and comes back at
other lengths between the calls of a stream and of `get`; the caller's string holds the one byte written, or zero, in any order.
`recovery_crash`: four records are two updates, a child's commit and the parent's, or a checkpoint between an update
and its commit; the second crash may fall into recovery. The instances with a grandchild (a chain of three transactions,
954 039 states) and with five records and one crash (11 million) were checked beside the runs, without a violation; the
theorems hold for every nesting. At these bounds the runs tell apart undoing a page that does not show the update, a wrong fate of a child, a checkpoint that
does not write the pages; they do not tell apart variants in how statuses of partly known transactions are kept.

Fairness is assumed in one place, `FairSpec` of `DatabaseIterator`. It is weak fairness of `EraseLoop`:
the thread inside the loop keeps being scheduled, and either it can make its next call, or the call throws, or it crashes,
each of which is a step of `EraseLoop`. Nothing is assumed of other threads. That `erase(iter, last)` ends although
others insert into the range holds because the iterator only moves forwards, but for the one step from the end to the last
record that the crash or an exception follows, and the model's keys are finitely many;
with unboundedly many keys a thread that goes on inserting before `last` could keep it busy.

No liveness is claimed of the lock manager. That requests are answered would rest on a detector that runs, and libstldb4
never calls `set_lk_detect`; and even then two children of one transaction that wait for each other, or a thread that waits
for a cursor of its own, sleep for good (section 7).

## 4. Proofs

`ImplicitTxn_proofs` proves, for any sets of databases and transactions and any setting of the switches,
`TypeOK`, `HandlersMatchImplicit`, `NothingLost`, `ClosedIsQuiet` and the action property
`ImplicitKeptUntilEnd`. The assumptions are those of the module: the switches are Booleans, and `NullTrans` and
`NoTrans` are two values outside `Trans`.

The inductive invariant is `Inv`: the three invariants, and two facts they need. A transaction object that has
not been constructed is known to nobody (`UnbornUnknown`), or `start()` could install one that handlers of an
earlier life are connected to; a closed database has no implicit transaction (`ClosedHasNone`), which makes
`ClosedIsQuiet` a consequence of `HandlersMatchImplicit`. The argument for the handlers, which are never
disconnected: an emission happens only when a transaction ends, so whatever a stale connection leads to has
ended and cannot emit again, and a running transaction can stop being implicit in a database only by ending.
`EmissionLinks` does this for every action that ends a family, `InstallLinks` and `InstallThrowsLinks` for the
two outcomes of `setImplicitTransaction`; each action has a lemma of its own on top of these, and
`InvFromLinks` adds the variables it leaves alone. `KeptStep` is the action property for one step.

`BdbTxn_proofs` proves, for any numbers of transactions, cursors, records and values, `TypeOK`, `TreeOK`,
`LocksCompatible` and the action property `RepeatableRead`. The assumptions: the bounds are naturals, the store
the environment is opened on maps records to values, and `NoImage` is not a value. The inductive invariant
`Inv` adds `ChainOK`, that the ancestors of one transaction are relatives of each other: without it two heirs
of one family could hold incompatible locks. The steps that put locks into the table are a grant, which looks
at every stranger (`OperationInv`), and inheritance (`EndFamilyInv`). There a lock goes from a member `h` of the
ending family to the parent of its root; whoever held an incompatible lock is related to `h` by the old
invariant, is outside the family, and so is an ancestor of the root (`OutsideRelative`), and two ancestors of
one transaction are related. Undoing changes only what a member of the family has write locked (`ImageFacts`),
so `RepeatableRead` follows from the locks.

`BdbTxn_proofs` goes on with `ReadsSeeOwnView` and the refinement, `ImplementsAtomicStore`, under the hypothesis
`~ParentMayOperate`: the application leaves a transaction alone while it has active kids. It is the constant the
run `bdb_nested` uses, and it is needed: a parent that operates under an active kid is granted the lock it owns
past the kid's, and then both properties are false. The invariant becomes `TreeInv == Inv /\ ParentOK /\ KidsOK`:
what a transaction with active kids has logged was logged before they began. It makes the writers of one record a
chain of ancestors, each of which found in the store what the one above it left. So the writes a set of
transactions adds to what is committed (`Seen`) are read off the images of the chain's upper part, what a
transaction reads is what the chain's last member left, and the end of a family, of which any part closed upwards
(`UpperPart`, shown of `Kept`) may commit, is one step of `AtomicStore` (`EndFamilyRefines`).

`ImplicitTxn_proofs` also has `DanglingHasACause` and `EndClearsImplicit`. The first needs a cause to survive every
later step (`Causes`): a dangling `m_txn` names a failed commit, an exception, or an ended ancestor, transactions
never leave those sets, and an object that is not constructed yet is no cause. The second looks at one step: whoever
ends a family without an ancestor being ended with it is its root (`EndsItself`, `OnlyTheRoot`), the signal reaches
every database the root is implicit in, by `HandlersMatchImplicit`, and what sets an implicit transaction later in
the same step sets another one.

`DatabaseIterator_proofs` proves `TypeOK` and `EraseRangeSound` for every application, and `ImplementsSortedMap` under
`Careful` and `~Contended`. Neither hypothesis can go: a refused `find`
returns an unpositioned cursor and `++` at the end goes to the last record, which is section 7. Nothing is
assumed of `Shared`, `HasCompare`, the numbers of records, duplicates and values, or transactions. The assumptions on
constants are that there is a record, and that the names for "no object", "no transaction" and "absent" are
nobody's. The invariants are short: `Types` adds that an open cursor is open in a running transaction to every
iterator, also those of the loops; `InRange` says that, unless the loop is lost, `iter` has not passed `last`, and is before
it from the comparison to the erasure: `++next` goes to the next live record, which is no further than `last` if that is live or the end;
`Placed` says that every iterator has a position.
`FlagsShareBits` shows that both bit tests of `moveCursor` hold for all flags it is called with, so
that `MoveCursorIs` is the method without them; `NextAt`, `NextDupAt`, `NextNodupAt`, `PrevAt`, `LowerBoundIs`, `UpperBoundIs`
say where each call leads, by the order of keys along records (`KeysInOrder`). `CountHolds` follows the
walk of `count` by induction on its steps.

`LockTable_proofs` proves `TypeOK`, `HoldersCompatible`, `NobodyWaitsForNothing` and `FindsDeadlocks`, for any lockers,
pages, locks and policy of the detectors, however many of them run. It assumes that the parents of lockers form no circle, as
`__txn_begin` makes them, and that there are finitely many, as the lock region has room for (`LockerAssumption`). `HoldersCompatible` says that conflicting holders
are of one family; it needs that what is granted in `__lock_get_internal` or promoted has been compared with every holder that
is no ancestor, although the loop stops at the first one in the way. `NobodyWaitsForNothing` is a statement about `PromoteOne`
repeated to its end: after `Promoted` a first waiter that still waits has a holder in its way, so each action that takes a
holder or a waiter from a queue ends in a state where the head is blocked.

`FindsDeadlocks` compares two graphs: what really keeps a request waiting (`Blockers`: conflicting holders, and the requests
before it) and what the detector copies (`WaitsFor`: every holder, and nobody in the queue). The argument has three parts.

- The search, in rows of any kind. `FindsACircle`: if each of a set waits for one of the set (`Circle`), something is found.
  The row of the n-th, unless it leads back to itself, has one of the set later in the order than n (`FollowLeadsOn`), since
  following it replaces earlier ones by later ones; the last of the set has no such row. `FindReaches`: rows hold only what can be
  reached (`Reach`), so each find has a member that reaches itself, and who does is in a circle (`CircleAround`).
- Families. One that is not `Crowded`, of which at most one locker sleeps, has one request in all the table (`OneOfFamily`), and
  none of its locks is in its own way or still `pending` (`FamilyHolds`). Who is in a circle of the one graph is in it by that request.
- Both ways between the graphs, for families that are not crowded. `RealIsCircle`: who waits behind a request of the circle, in a queue, also waits by the detector's rule,
  for the holder that blocks the first of the circle in that queue; if that holder is the waiter's own family, it is the wait for itself that
  `__dd_build` keeps for all but the head of a queue. `CircleIsReal`: a circle of the detector's, with the heads of the queues its
  members are in, stands still, because any family that holds the object blocks the head (`HeadIsBlocked`: with a WRITE request
  directly, with a READ through compatibility of holders).

The exception for crowded families is needed, since they are one row and one bit to `__dd_build`: let two siblings j and k sleep, j
holding a page for reading that a stranger b waits to write, and k behind b in that queue, so that the row of the family is not
cleared for it but b's is followed by it; with j waiting for k's other page the detector finds nothing and forgets `need_dd`.
`lock_family` has such families, which TLC's check of `FindsDeadlocks` passes through.

`SecondaryIndex_proofs` proves `TypeOK`, `IndexesMatch`, `NeverBad` and `PgetFindsTheKey`, for any transactions, keys,
values and indexes, also with operations that time out. All but the first have the form `spoilt \/ ...`, and so has
what is invariant (`Invariance == Spec => [](spoilt \/ Inv)`): they are false once an application has gone on with a half done operation or met the
stale entries of section 7. `TypeOK` holds without that exception, and has an invariant of its own (`Typed`). The inductive
invariant `Inv` says of each transaction what it sees: the table with the undo of all others applied, which two phase locking
lets it rely on. There the entries of an index are those of the records but for the one operation in progress, for
which each step (`op[p].at`) names the entries made too early and those not gone yet. A half done operation keeps that
description until its transaction is taken back.

`CirclesNeedAReplacement`, which is about states in which every transaction is in its first operation, rests on a second invariant (`FirstLocks`): while it only adds, it
has locked just the indexes before its own step and, at last, the record. So a thread of a circle that neither replaces nor
deletes waits for one that is further on (`Rank`, by `RankGrows`), and in a circle of such threads the ranks would grow
without end. `CircleIs` relates that to `InCircle`, which walks the waits-for relation as many times as there are
threads; it needs finitely many of them, which `IndexAssumption` says.

`ValueAccess_proofs` proves all properties of its run, `TypeOK`, `ReadsAreContiguous`, `WritesStay` and the action
property `GetIsExact`, for values and buffers of any length up to a bound that is any number, and seeks of one byte. `ValueAssumption` has that the names for "absent" and
"default" are no values. While a stream remembers what it read or wrote, its offset lies within the value and the
value is that of the moment it began, since its cursor keeps the page locked; a seek that throws ends that. The rest is the algebra
of `SubSeq` and `Built`.

`Recovery_proofs` proves all properties of its run, `TypeOK`, `SyncCommitsLast`, `PagesRight` and `RecoveryNeverFails`, for
any number of transactions, pages, log records and crashes and any nesting. `RecoveryAssumption` has that parents form no
circle (`__txn_begin` is given a parent that exists) and that `NoTxn` is no transaction. There are two inductive invariants. `Inv` is
the write-ahead rule: no page on disk shows an update beyond the flushed log, a checkpoint record names an LSN before it, what
recovery still has to do names records of the log, a transaction's undo list is updates in the log (`Types`, `LogOK`,
`TxnsInLog`, `WriteAhead`, `CkpInLog`, `RecInLog`), and a commit that returned is in the flushed log (`SyncedOnDisk`).

`PageInv` says how log, transactions, cache, disk and recovery's list belong together; `PagesRight` and `RecoveryNeverFails` are
read off it. A page is the LSN of its last update, so its parts speak of sets of updates of one page: such a set is
`Linear` when each update in it was made on the one before it.

- Of the log (`LogFacts`): whoever commits does so once and writes nothing after that, and the updates that the first `n` records
  commit are linear for every `n` (`CommittedLinear`), so a crash can cut the log anywhere (`CutLogFacts`).
- While the system is up (`UpFacts`): a chain leads to a transaction's own updates, latest first (`Chains`); two transactions
  hold updates of one page only if one is an ancestor of the other, whose updates came first (`Apart`); what is held came
  after what is committed (`Above`). So the updates that count are linear, and the page shows the last of them (`CacheRight`).
- Of the disk (`DiskFacts`): a checkpoint settles the families that have a record before its LSN. All of them have
  ended, and each page on disk shows of them exactly what is committed (`Image`, `Must`). That is what allows recovery to begin behind
  their records, and it is kept by every page write, also one in the middle of recovery (`UpImage`, `RecoveringImage`).
- Of recovery: going backward, who has committed behind the cursor is on the list as `commit` or `ignore`, only settled
  families are ignored, and every page is an `Image` whose last update, if it lies behind the cursor, is committed (`BackList`, `BackPages`);
  going forward, each page shows a committed update no earlier than any the cursor has passed (`ForwardList`, `ForwardPages`). At
  the end these are the committed updates alone, and the last checkpoint settles everything.

Each action has a lemma that it keeps `PageInv`; `CommittedIs` is about the recursive function `Committed`, by induction over families.

`OrderedKeys_proofs` proves all properties of its run, `TypeOK`, `EveryKeyFound`, `PageInOrder`, `PartialRangeIsThePrefix` and the
action property `PartialFindLands`, for any keys, widths of an int and bytes, under `Careful`; without it `EveryKeyFound` is
false (`keys_any`). `KeysAssumption` has that keys are of the type of their function (`KeyOf`), that an int holds a
byte and the length of a key, and that `toupper` changes no two bytes into one. The proof has three layers.

- Comparisons (`CompareTells`): on keys that `TellsApart` admits, the result of each function has the sign of the order it is
  named for and is zero on equal keys only. For bytes everything is about the first place where two keys differ
  (`FirstPart`, `PartsOnce`); case-insensitive comparison of letters of one case is the plain one (`CisIsCs`); an int that was
  not narrowed (`ToIntIs`) can be negated, which the reversed functions do. These orders are transitive (`OrderedTransitive`).
- The search (`SearchFinds`): on a sorted page the loop ends at the key, or between the keys before and after it, by induction
  on the entries left; `SearchExists` shows that the recursive function is one. `InsertFinds` has the same for the short cut at
  the ends of the tree. So insertion and removal keep the page sorted (`PutKeepsOrder`, `DelKeepsOrder`).
- Look-ups (`LookOk`): after the first search either the buffer is measured for the record to find, unless another thread has
  written since, or a cursor stands on the partial key itself and nobody may write (`Measured`). `AdvanceIs` and `PrefixIsRange` say that
  what lies between a prefix and the key made from it is what begins with the prefix.

The proof showed that a careful application needs care with `erase(k)` too: a key that was never stored, and that the function
cannot tell apart from two stored ones (1 between 0 and 2 as floats count here), takes away one of them. The guard of
`Del` says so.

Only model-checked:

- `EraseRangeEnds`, which is liveness: every other property of the passing runs is proved.

## 5. Plan

Done: every module of section 2, its runs, and the proofs of section 4. What is left: reentrant signal handlers, and
the lifetimes of environments, databases and transactions. A liveness property of `LockTable` ("every request is answered") was planned
and dropped: section 3 says why.

## 6. Not modelled

Page splits, overflow pages, hash and queue, replication, XA, the RPC server, other language bindings and the
utilities are vendored and below the level of the properties here, or never called. Formatting of errors,
statistics and logging are left out everywhere. FerrisLoki's reference counting and sigc++'s signals are not in
the repository: the first is modelled by who refers to an object, the second as a synchronous call of every
connected handler. Transaction identifiers do not wrap around.
Cursors that walk an index, associating a primary that already has records, `append`, `size`, and the lifetime of the default
environment are left out of the modules that would hold them.

An environment's default flags hold `DB_RECOVER` (`stldb4.cpp:289-296`): a second process that opens it runs recovery
under the first. `Recovery` has one process; what happens with two is no state the code is written for.

## 7. Disagreements without a run

Each violation run shows one place where the code does not do what its documentation or a comment says. These
others came up while modelling; the actions named state what the code does, and no property claims otherwise. Each can
be seen by stating its opposite as a property of the module.

Transactions:

- `lock.c:577-581` grants a lock the requester already holds before it has looked at the rest of the holders,
  which the comment at 545-547 makes a condition (`DbPut`: only relatives can be among them, `LocksCompatible`).
- Connections to signals are never cut, although `stldb4.hh:936` says so: `m_OnCommitConnection` is never assigned
  (`handlers`; `HandlersMatchImplicit` shows that it does no harm while the transaction runs).
- The `Transaction` that `start()` makes is not destroyed when `Database::commit()` ends it: the last reference is
  `RefCountBumpRAII`'s, whose destructor only decrements (`Released` with `"leaked"`; `stldb4.hh:971`).
- The end of a parent frees the `DB_TXN` of a child whose `Transaction` still points to it (`Dangling`,
  `DanglingHasACause`).
- When a kid's commit fails its error is left in `ret`, the other kids are aborted, and a parent with log records overwrites
  `ret` and commits, against `txn.c:614-616` ("then abort the parent"; `txn.c:641-642, 653-655, 684-686`; `Resolve`).
- `impl_open()` ends with `setImplicitTransaction( t )` where `t` may be the implicit transaction itself: it is committed, and the ended
  one becomes implicit again, against `stldb4.hh:977-980` (`open`; the exception in `EndClearsImplicit`).
- When `DB_TXN->commit` fails, `commit()` throws before `m_txn` is reset, and the next use of the object is one of a freed
  `DB_TXN`, against `txn.c:588-589` (`EndTxn`, `Dangling`).
- The bool of the signal is `rc != 0`, true on failure, against `stldb4.hh:416-418` (`stldb4.cpp:450`).

Iterators:
- `erase(iter, last)` deletes by key, so with duplicates it erases records outside its range, of its first and last keys,
  and is left by an exception at the next duplicate (`EraseOne`, `ReadFirst`; `EraseRangeSound` is about whole keys).
- Its loop passes `last`, erases up to the end and crashes there, when another thread erases `last`'s record and puts it back
  around `++next`, or changes its value between the two reads of the comparison (`lost`, `Crash`; `stldb4.hh:1650-1656`).
- `clear(t)` erases in the implicit transaction or in none, not in `t` (`Clear`; `stldb4.hh:1658-1661`).
- `upper_bound` of a missing key is the last record, since `moveCursor` leaves `end()` with `DB_LAST`, and `count` of a
  missing key is 1 (`count`; hence `Present` in `CountIsRight`).
- `find` takes a deadlock for a find and returns an unpositioned cursor, `find_partial` takes it for "not found"
  (`Find`, `FindPartial`).
- `begin(t)` of an empty database and `lower_bound(k, t)` before the first record forget `t`, against
  `stldb4.hh:990` (`begin`, `lower_bound`).
- `insert(it, end)` never advances `it` (`InsertRangeStep`; `stldb4.hh:1628-1632`).

Locks and the detector (`LockTable`):

- A request of a locker that holds the object already goes to the head of the queue, says `lock.c:609-614`; but the loop
  over the holders ends at the first one in the way, so whether the own lock was seen depends on the order of the
  holders (`IHold`, `Enqueued`). An upgrade may queue up behind others that way.
- `__dd_verify` takes a circle of one other family for confirmed, whatever it waits for; if the victim has meanwhile nothing to
  abort, the deadlock stays and `need_dd` is cleared until the next waiter, or a release that promotes nobody, sets it
  (`Verified`, `DetectorAborts`).
- The least timeout of the waiters is reset by one that has none, so that a waiter with a timeout may never be expired
  (`NextTimeout`; `lock_deadlock.c:614-617`, against `dbinc/lock.h:73`).
- Two separate circles that lead into each other's row are broken by one victim (`Find`), against `lock.c:1549-1556`.
- Two children of one transaction that wait for each other are never found: both are their parent's row, and the bit of a
  family that waits for itself is cleared (`lock_deadlock.c:656-660`; `WaitsForItself`). Neither is a thread that waits, with one
  locker, for a cursor without a transaction of its own, whose locker waits for nothing.
- Two lockers of one family that sleep at once can hide a deadlock with another family (`Crowded`).
- A request whose time is over and that is still queued makes the detector see a circle that is not there
  (`over` in `FindsDeadlocks`).

Keys (`OrderedKeys`): 64-bit keys that differ by a multiple of 2^32 are equal, and so are floats closer than 1
(`bt_compare_numeric`). The string comparisons read to a NUL that keys need not have. `AdvanceFunctorBytes` leaves the
first byte of a prefix alone: a range of a one-byte prefix, or of one that ends in `0xff`, ends too early
(`PartialRangeIsThePrefix` excludes them).

Secondary indexes (`SecondaryIndex`):

- `IndexesMatch` and `NeverBad` are violated without `spoilt`. On the way of `DB_CURRENT` the code says "we'll handle any necessary deletes in step
  5" (`db_cam.c:1170-1174`) and then skips step 5 (`1350-1351`), so the entry of a record that the index leaves
  out from now on stays; `pget` follows it to a record with another key.
- A request whose time is up does not set `TXN_DEADLOCK` (`db_meta.c:1045-1049`), so a transaction with a put that is half done can be
  committed, by `~Transaction` too (`stldb4.cpp:384`; `TimesOut`, `Spoils`).
- Without transactions, `pget` can meet the record gone and report `DB_SECONDARY_BAD`. A put of a part of a value under a new key with
  indexes does so too.
- `associate` is called without `DB_CREATE`, so records that exist already are not indexed. The extractor for
  NUL-terminated fields can step past the end of a value. `max_size()` is `2^41`, which C++ reads as 43.
  `size()` and `empty()` ask for `DB_FAST_STAT`, which a B-tree does not keep up to date.

Values (`ValueAccess`): without a transaction a writer between the two calls of `get()` makes it return a shorter
value followed by bytes that the caller's string held before (`stldb4.cpp:1278`), or throw, in which case `getWithDefault()` returns the default of a record that exists (`GetIsExact` states
both). `my_write_out_given_data` returns the bytes written; its comment says 0 for success (`stldb4.cpp:2313`).
A seek of a stream whose record has gone throws with the offset already moved, which may be negative or behind any value
(`SeekThrows`; `stldb4.cpp:2341-2359`).
