----------------------------- MODULE LockTable -----------------------------
(***************************************************************************)
(* The lock table of Berkeley DB (db-4.6.21/lock/lock.c): for every object *)
(* the locks that are held and a queue of the requests that wait, the      *)
(* promotion of waiters, the inheritance of a child's locks, timeouts, and *)
(* the deadlock detector (lock_deadlock.c), which looks at the table in    *)
(* one step and aborts its victims in later ones.                          *)
(*                                                                         *)
(* A locker is a transaction or a cursor that was opened without one       *)
(* (Stray).  A thread waits inside the call that asked for the lock, so    *)
(* none of its other lockers moves meanwhile.  A transaction may have any  *)
(* number of children at once, in several threads, and does nothing itself *)
(* while it has one.  BdbTxn has the other side: what a transaction does   *)
(* with the locks, and nobody who waits.                                   *)
(***************************************************************************)
EXTENDS Integers, FiniteSets, SequencesExt

CONSTANTS
    Locker,         \* places for lockers; one that has ended is used again
    Object,         \* lock objects: pages
    NoLocker,       \* parent_locker == INVALID_ROFF
    ParentOf,       \* the parent of each locker
    ThreadOf,       \* the thread that works with it
    Stray,          \* cursors without a transaction
    TimesOut,       \* top level transactions with a timeout
    Requests,       \* <<object, mode>> pairs that each locker may ask for
    MaxRequests,    \* how many calls a transaction makes before it ends
    Detector        \* threads or processes that may run the detector

ASSUME LockerAssumption ==
    /\ IsFiniteSet(Locker) /\ NoLocker \notin Locker
    /\ IsFiniteSet(Object)
    /\ ParentOf \in [Locker -> Locker \cup {NoLocker}]
    /\ \A S \in (SUBSET Locker) \ {{}} : \E l \in S : ParentOf[l] \notin S    \* no cycles
    /\ DOMAIN ThreadOf = Locker
    /\ Stray \subseteq Locker /\ TimesOut \subseteq Locker
    /\ \A c \in Stray : ParentOf[c] = NoLocker
    /\ Requests \in [Locker -> SUBSET (Object \X {"READ", "WRITE"})]
    /\ MaxRequests \in Nat

VARIABLES
    table,          \* holders and waiters of each object
    life,           \* what each locker's thread is doing with it
    used,           \* how many calls it has made
    need_dd,        \* the detector has something to look at
    next_timeout,   \* whether a next time to expire a lock is set
    late,           \* transactions whose time is over
    detector        \* deadlocks that each detector still has to break

vars == <<table, life, used, need_dd, next_timeout, late, detector>>

-----------------------------------------------------------------------------
(* Lockers and modes *)

Ancestors[l \in Locker] ==
    IF ParentOf[l] = NoLocker THEN {} ELSE {ParentOf[l]} \cup Ancestors[ParentOf[l]]

\* The locker at the root of a family: master_locker.
Master[l \in Locker] == IF ParentOf[l] = NoLocker THEN l ELSE Master[ParentOf[l]]

Masters == {l \in Locker : ParentOf[l] = NoLocker}

Kids(l) == {k \in Locker : ParentOf[k] = l}

Conflicts(held, wanted) == "WRITE" \in {held, wanted}

\* Lock h keeps locker l from getting its object in this mode.
InTheWay(h, l, mode) ==
    h.locker # l /\ Conflicts(h.mode, mode) /\ h.locker \notin Ancestors[l]

Waits(w) == w.status = "waiting"

\* Where l's request is queued.
QueuedAt(l) == {o \in Object : \E w \in Range(table[o].waiters) : w.locker = l}

RequestOf(l, o) == CHOOSE w \in Range(table[o].waiters) : w.locker = l

IsWaiting(l) == \E o \in Object : \E w \in Range(table[o].waiters) : w.locker = l /\ Waits(w)

Holds(l, o) == {h \in Range(table[o].holders) : h.locker = l}

Asleep(thread) == \E l \in Locker : ThreadOf[l] = thread /\ life[l] = "asleep"

\* The thread is free, and l has no child: Berkeley DB's rule for its users.
InUse(l) ==
    /\ life[l] \in {"active", "doomed"}
    /\ ~Asleep(ThreadOf[l])
    /\ \A k \in Kids(l) : life[k] = "idle"

-----------------------------------------------------------------------------
(* The queue of one object *)

(* __lock_promote: in the order of the queue, up to the first request that *)
(* still has a holder in its way.                                          *)
PromoteOne(t, w) ==
    IF Waits(w) /\ ~t.stopped /\ \A h \in Range(t.holders) : ~InTheWay(h, w.locker, w.mode)
    THEN [t EXCEPT !.holders = Append(@, [w EXCEPT !.status = "pending"]), !.changed = TRUE]
    ELSE [t EXCEPT !.waiters = Append(@, w), !.stopped = @ \/ Waits(w)]

Promoted(t) ==
    LET scan[n \in 0..Len(t.waiters)] ==
            IF n = 0 THEN [holders |-> t.holders, waiters |-> <<>>, stopped |-> FALSE,
                           changed |-> t.waiters = <<>>]
            ELSE PromoteOne(scan[n - 1], t.waiters[n])
    IN  scan[Len(t.waiters)]

Entry(t) == [holders |-> t.holders, waiters |-> t.waiters]

\* The elements of s that are in T, in their order.
Kept(s, T) ==
    LET kept[n \in 0..Len(s)] ==
            IF n = 0 THEN <<>>
            ELSE IF s[n] \in T THEN Append(kept[n - 1], s[n]) ELSE kept[n - 1]
    IN  kept[Len(s)]

Without(s, x) == Kept(s, Range(s) \ {x})

\* __lock_put_internal of one held lock; `stuck' when nobody was promoted.
PutOne(t, h) ==
    LET p == Promoted([t EXCEPT !.holders = Without(@, h)])
    IN  [holders |-> p.holders, waiters |-> p.waiters, stuck |-> t.stuck \/ ~p.changed]

\* DB_LOCK_PUT_ALL on one object, the newest lock first.
PutAll(o, l) ==
    LET hs == table[o].holders
        put[n \in 0..Len(hs)] ==
            IF n = 0 THEN [holders |-> hs, waiters |-> table[o].waiters, stuck |-> FALSE]
            ELSE LET h == hs[Len(hs) + 1 - n]
                 IN  IF h.locker = l THEN PutOne(put[n - 1], h) ELSE put[n - 1]
    IN  put[Len(hs)]

\* __lock_inherit_locks on one object: the parent's own locks absorb equal ones.
Inherited(o, l) ==
    LET parent == ParentOf[l]
        absorbed == {h \in Holds(l, o) : \E g \in Holds(parent, o) : g.mode = h.mode}
        moved == Kept(table[o].holders, Range(table[o].holders) \ absorbed)
    IN  IF Holds(l, o) = {} THEN table[o]
        ELSE Entry(Promoted([table[o] EXCEPT !.holders =
                 [i \in DOMAIN moved |-> IF moved[i].locker = l
                                         THEN [moved[i] EXCEPT !.locker = parent] ELSE moved[i]]]))

-----------------------------------------------------------------------------
(* Asking for a lock: __lock_get_internal *)

InTheWayAt(l, o, mode) == {i \in DOMAIN table[o].holders : InTheWay(table[o].holders[i], l, mode)}

(* `ihold': the locker or an ancestor holds the object.  The loop over the *)
(* holders ends at the first one in the way, so it does not see the rest.  *)
IHold(l, o, mode) ==
    \E i \in DOMAIN table[o].holders :
        /\ table[o].holders[i].locker \in {l} \cup Ancestors[l]
        /\ \A j \in InTheWayAt(l, o, mode) : i < j

\* Mutant: whoever has a lock on the object gets any other.
Grantable_ihold(l, o, mode) ==
    \/ IHold(l, o, mode)
    \/ /\ InTheWayAt(l, o, mode) = {}
       /\ \A w \in Range(table[o].waiters) : w.locker = l \/ ~Conflicts(w.mode, mode)

\* No holder in the way; and no waiter, unless the object is held already.
Grantable(l, o, mode) ==
    /\ InTheWayAt(l, o, mode) = {}
    /\ \/ IHold(l, o, mode)
       \/ \A w \in Range(table[o].waiters) : w.locker = l \/ ~Conflicts(w.mode, mode)

Asks(l, o, mode) ==
    /\ InUse(l) /\ life[l] = "active" /\ used[l] < MaxRequests
    /\ <<o, mode>> \in Requests[l]
    /\ \A h \in Holds(l, o) : h.mode # mode     \* that would be counted only
    /\ used' = [used EXCEPT ![l] = @ + 1]

(* A cursor without a transaction gives the page it comes from back in the *)
(* same call (__db_lget, LCK_COUPLE).                                      *)
GivesBack(l, o) == IF l \in Stray THEN {p \in Object \ {o} : Holds(l, p) # {}} ELSE {}

LockGranted(l, o, mode) ==
    /\ Asks(l, o, mode)
    /\ Grantable(l, o, mode)
    /\ table' = [p \in Object |->
                    IF p = o THEN [table[o] EXCEPT !.holders =
                                       Append(@, [locker |-> l, mode |-> mode, status |-> "held"])]
                    ELSE IF p \in GivesBack(l, o) THEN Entry(PutAll(p, l)) ELSE table[p]]
    /\ need_dd' = (need_dd \/ \E p \in GivesBack(l, o) : PutAll(p, l).stuck)
    /\ UNCHANGED <<life, next_timeout, late, detector>>

\* To the head of the queue if `ihold' and a holder is in the way, else to its tail.
Enqueued(l, o, mode) ==
    LET w == [locker |-> l, mode |-> mode, status |-> "waiting"]
    IN  IF InTheWayAt(l, o, mode) # {} /\ IHold(l, o, mode)
        THEN <<w>> \o table[o].waiters
        ELSE Append(table[o].waiters, w)

LockWaits(l, o, mode) ==
    /\ Asks(l, o, mode)
    /\ ~Grantable(l, o, mode)
    /\ Master[l] \notin late
    /\ table' = [table EXCEPT ![o].waiters = Enqueued(l, o, mode)]
    /\ life' = [life EXCEPT ![l] = "asleep"]
    /\ need_dd' = TRUE
    /\ next_timeout' = (next_timeout \/ Master[l] \in TimesOut)
    /\ UNCHANGED <<late, detector>>

\* A transaction whose time is over does not wait at all.
LockTooLate(l, o, mode) ==
    /\ Asks(l, o, mode)
    /\ ~Grantable(l, o, mode)
    /\ Master[l] \in late
    /\ LET p == Promoted(table[o])
       IN  /\ table' = [table EXCEPT ![o] = Entry(p)]
           /\ need_dd' = (need_dd \/ ~p.changed)
    /\ UNCHANGED <<life, next_timeout, late, detector>>

-----------------------------------------------------------------------------
(* Waking up *)

\* The lock was promoted; a stray cursor then gives back the page it came from.
WakeGranted(l, o) ==
    /\ life[l] = "asleep"
    /\ \E h \in Holds(l, o) : h.status = "pending"
    /\ table' = [p \in Object |->
                    IF p = o
                    THEN [table[o] EXCEPT !.holders =
                            [i \in DOMAIN @ |-> IF @[i].locker = l
                                                THEN [@[i] EXCEPT !.status = "held"] ELSE @[i]]]
                    ELSE IF p \in GivesBack(l, o) THEN Entry(PutAll(p, l)) ELSE table[p]]
    /\ need_dd' = (need_dd \/ \E p \in GivesBack(l, o) : PutAll(p, l).stuck)
    /\ life' = [life EXCEPT ![l] = "active"]
    /\ UNCHANGED <<used, next_timeout, late, detector>>

\* Mutant: the requests behind it are not promoted.
WakeExpired_alone(l, o) ==
    /\ life[l] = "asleep"
    /\ o \in QueuedAt(l) /\ ~Waits(RequestOf(l, o))
    /\ table' = [table EXCEPT ![o].waiters = Without(@, RequestOf(l, o))]
    /\ need_dd' = TRUE
    /\ life' = [life EXCEPT ![l] = "active"]
    /\ UNCHANGED <<used, next_timeout, late, detector>>

(* The time is over: the request leaves the queue.  The caller is told of  *)
(* a deadlock, but TXN_DEADLOCK is not set and it may go on.               *)
WakeExpired(l, o) ==
    /\ life[l] = "asleep"
    /\ o \in QueuedAt(l) /\ ~Waits(RequestOf(l, o))
    /\ LET p == Promoted([table[o] EXCEPT !.waiters = Without(@, RequestOf(l, o))])
       IN  /\ table' = [table EXCEPT ![o] = Entry(p)]
           /\ need_dd' = (need_dd \/ ~p.changed)
    /\ life' = [life EXCEPT ![l] = "active"]
    /\ UNCHANGED <<used, next_timeout, late, detector>>

\* Mutant: a sleeper whose time is over is taken for one that was aborted.
WakeAborted_expired(l) ==
    /\ life[l] = "asleep"
    /\ ~IsWaiting(l)
    /\ \A o \in Object : \A h \in Holds(l, o) : h.status = "held"
    /\ life' = [life EXCEPT ![l] = "doomed"]
    /\ UNCHANGED <<table, used, need_dd, next_timeout, late, detector>>

\* The detector has taken the request out of the queue; TXN_DEADLOCK is set.
WakeAborted(l) ==
    /\ life[l] = "asleep"
    /\ QueuedAt(l) = {}
    /\ \A o \in Object : \A h \in Holds(l, o) : h.status = "held"
    /\ life' = [life EXCEPT ![l] = "doomed"]
    /\ UNCHANGED <<table, used, need_dd, next_timeout, late, detector>>

-----------------------------------------------------------------------------
(* Lockers come and go *)

\* A detector that looks for a locker that has ended does not find it.
Forgotten(l) ==
    [d \in Detector |->
        [i \in DOMAIN detector[d] |-> [detector[d][i] EXCEPT !.last = {r \in @ : r.locker # l}]]]

\* A child begins in any thread, beside the children that there are.
Begin(l) ==
    /\ life[l] = "idle"
    /\ ~Asleep(ThreadOf[l])
    /\ IF ParentOf[l] = NoLocker THEN UNCHANGED used
       ELSE /\ life[ParentOf[l]] = "active"
            /\ used[ParentOf[l]] < MaxRequests
            /\ used' = [used EXCEPT ![ParentOf[l]] = @ + 1]
    /\ life' = [life EXCEPT ![l] = "active"]
    /\ UNCHANGED <<table, need_dd, next_timeout, late, detector>>

Ends(l) ==
    /\ InUse(l)
    /\ life' = [life EXCEPT ![l] = "idle"]
    /\ used' = [used EXCEPT ![l] = 0]
    /\ late' = late \ {l}
    /\ detector' = Forgotten(l)
    /\ UNCHANGED next_timeout

\* Commit at the top, abort anywhere, or a stray cursor that is closed.
LockerEnds(l) ==
    /\ Ends(l)
    /\ table' = [o \in Object |-> Entry(PutAll(o, l))]
    /\ need_dd' = (need_dd \/ \E o \in Object : PutAll(o, l).stuck)

KidCommits(l) ==
    /\ ParentOf[l] # NoLocker /\ life[l] = "active"
    /\ Ends(l)
    /\ table' = [o \in Object |-> Inherited(o, l)]
    /\ UNCHANGED need_dd

TimePasses(l) ==
    /\ l \in TimesOut \ late /\ life[l] # "idle"
    /\ late' = late \cup {l}
    /\ UNCHANGED <<table, life, used, need_dd, next_timeout, detector>>

-----------------------------------------------------------------------------
(* The detector: __lock_detect *)

\* The families that hold the object.  A lock just promoted is not counted.
HeldBy(o) == {Master[h.locker] : h \in {g \in Range(table[o].holders) : g.status = "held"}}

\* Requests that wait and are not about to be told that their time is over.
StillWaiting(o) == {w \in Range(table[o].waiters) : Waits(w) /\ Master[w.locker] \notin late}

\* The requests of these families, with their objects.
WaitingOf(members) ==
    {e \in UNION {{o} \X StillWaiting(o) : o \in Object} : Master[e[2].locker] \in members}

\* A family whose request is the first of the queue, or another's place in it.
WaitsFirst(m, o) ==
    table[o].waiters # <<>> /\ Head(table[o].waiters) \in StillWaiting(o)
                            /\ Master[Head(table[o].waiters).locker] = m

WaitsLater(m, o) ==
    \E i \in DOMAIN table[o].waiters :
        i > 1 /\ table[o].waiters[i] \in StillWaiting(o) /\ Master[table[o].waiters[i].locker] = m

(* __dd_build, one object of the list after the other: a family that waits *)
(* behind others for what it holds is taken to wait for itself, until it   *)
(* is found first in the queue of the same or a later object.              *)
WaitsForItself(m, objects) ==
    \E n \in DOMAIN objects :
        /\ WaitsLater(m, objects[n]) /\ m \in HeldBy(objects[n])
        /\ \A k \in DOMAIN objects : k > n => ~WaitsFirst(m, objects[k])

\* `self_wait': its bit was set when it was found first in a queue.
SelfWait(m, objects) ==
    \E n \in DOMAIN objects : \E k \in 1..n :
        /\ WaitsFirst(m, objects[n]) /\ m \in HeldBy(objects[k])
        /\ WaitsFirst(m, objects[k]) \/ WaitsLater(m, objects[k])

\* The families that hold what m waits for.
HeldBefore(m) == UNION {HeldBy(e[1]) : e \in WaitingOf({m})}

\* Mutant: nobody is taken to wait for itself, wherever it is in the queue.
WaitsFor_others(objects) == [m \in Masters |-> HeldBefore(m) \ {m}]

\* Who waits for whom: a waiter is taken to wait for every holder.
WaitsFor(objects) ==
    [m \in Masters |-> {x \in HeldBefore(m) : x = m => WaitsForItself(m, objects)}]

\* One row of __dd_find: follow the row in order until it leads back to i.
FollowOne(rows, i, row, j) ==
    IF j \in row.set /\ ~row.cycle
    THEN LET more == row.set \cup (IF j = i THEN row.set ELSE rows[j])
         IN  [set |-> more, cycle |-> i \in more]
    ELSE row

Follow(rows, order, i) ==
    LET row[n \in 0..Len(order)] ==
            IF n = 0 THEN [set |-> rows[i], cycle |-> FALSE]
            ELSE FollowOne(rows, i, row[n - 1], order[n])
    IN  row[Len(order)]

\* __dd_find: each row that leads back to itself is a deadlock of all it reaches.
FindFrom(s, order, i) ==
    LET row == Follow(s.rows, order, i)
    IN  IF i \notin s.valid THEN s
        ELSE [rows |-> [s.rows EXCEPT ![i] = row.set],
              valid |-> IF row.cycle THEN s.valid \ row.set ELSE s.valid,
              dead |-> IF row.cycle THEN Append(s.dead, row.set) ELSE s.dead]

Find(rows, order) ==
    LET found[n \in 0..Len(order)] ==
            IF n = 0 THEN [rows |-> rows, valid |-> Masters, dead |-> <<>>]
            ELSE FindFrom(found[n - 1], order, order[n])
    IN  found[Len(order)].dead

\* __dd_verify: without m, somebody of the deadlock is no longer waited for.
Verified(objects, members, m) ==
    LET others == members \ {m}
    IN  \/ Cardinality(others) = 1
        \/ \E j \in others : j \notin UNION {WaitsFor(objects)[i] : i \in others}
                                      \cup {i \in others : SelfWait(i, objects)}

LastRequests(members) ==
    {[locker |-> e[2].locker, object |-> e[1], mode |-> e[2].mode] : e \in WaitingOf(members)}

\* Requests whose time is over are marked, and their threads woken.
Expire(o) ==
    [table[o] EXCEPT !.waiters =
        [i \in DOMAIN @ |-> IF Waits(@[i]) /\ Master[@[i].locker] \in late
                            THEN [@[i] EXCEPT !.status = "expired"] ELSE @[i]]]

(* The next time to expire a lock: the least of the waiters', where one    *)
(* that has none counts as zero and clears what was found before it.  The  *)
(* objects are looked at in the order of a list, `last' at the end.        *)
NextTimeout ==
    LET busy == {o \in Object : StillWaiting(o) # {}}
        lastOf(o) == SelectLastInSeq(table[o].waiters, LAMBDA w : w \in StillWaiting(o))
        timed(o) == Master[table[o].waiters[lastOf(o)].locker] \in TimesOut
    IN  IF next_timeout /\ busy # {} THEN {timed(o) : o \in busy} ELSE {FALSE}

Builds ==
    /\ next_timeout' \in NextTimeout
    /\ table' = [o \in Object |-> Expire(o)]

(* The application runs lock_detect, in as many threads as it likes;       *)
(* libstldb4 does not.  The lists of families and of objects have some     *)
(* order.                                                                  *)
DetectorBuilds(d, order, objects) ==
    /\ detector[d] = <<>>
    /\ need_dd
    /\ Builds
    /\ need_dd' = FALSE
    /\ LET dead == Find(WaitsFor(objects), order)
       IN  detector' = [detector EXCEPT ![d] = [i \in DOMAIN dead |->
               [members |-> dead[i],
                verified |-> {m \in dead[i] : Verified(objects, dead[i], m)},
                last |-> LastRequests(dead[i])]]]
    /\ UNCHANGED <<life, used, late>>

\* DB_LOCK_EXPIRE: nothing to look at but a time that has come.
DetectorExpires ==
    /\ ~need_dd /\ next_timeout
    /\ \/ late # {}
       \/ \A l \in Locker : IsWaiting(l) => Master[l] \notin TimesOut
    /\ Builds
    /\ UNCHANGED <<life, used, need_dd, late, detector>>

\* The request of family m that was noted: of several children, one.
Victims(d, m) ==
    LET last == {r \in Head(detector[d]).last : Master[r.locker] = m}
    IN  IF last = {} THEN {{}} ELSE {{r} : r \in last}

(* __dd_abort of family m, if its request is still there.  Which member is *)
(* the best victim depends on the policy; one that __dd_verify does not    *)
(* confirm makes the detector run again.                                   *)
DetectorAborts(d, m) ==
    /\ detector[d] # <<>>
    /\ m \in Head(detector[d]).members
    /\ need_dd' = (need_dd \/ m \notin Head(detector[d]).verified)
    /\ \E victim \in Victims(d, m) :
        LET found(o) == {w \in Range(table[o].waiters) :
                Waits(w) /\ [locker |-> w.locker, object |-> o, mode |-> w.mode] \in victim}
        IN  table' = [o \in Object |->
                IF found(o) = {} THEN table[o]
                ELSE LET rest == Kept(table[o].waiters, Range(table[o].waiters) \ found(o))
                     IN  Entry(Promoted([table[o] EXCEPT !.waiters = rest]))]
    /\ detector' = [detector EXCEPT ![d] = Tail(@)]
    /\ UNCHANGED <<life, used, next_timeout, late>>

-----------------------------------------------------------------------------
Init ==
    /\ table = [o \in Object |-> [holders |-> <<>>, waiters |-> <<>>]]
    /\ life = [l \in Locker |-> "idle"]
    /\ used = [l \in Locker |-> 0]
    /\ need_dd = FALSE /\ next_timeout = FALSE
    /\ late = {}
    /\ detector = [d \in Detector |-> <<>>]

Orders(S) == SetToSeqs(S)

Next ==
    \/ \E l \in Locker : Begin(l) \/ LockerEnds(l) \/ KidCommits(l) \/ TimePasses(l)
    \/ \E l \in Locker, o \in Object, mode \in {"READ", "WRITE"} :
           LockGranted(l, o, mode) \/ LockWaits(l, o, mode) \/ LockTooLate(l, o, mode)
    \/ \E l \in Locker, o \in Object : WakeGranted(l, o) \/ WakeExpired(l, o)
    \/ \E l \in Locker : WakeAborted(l)
    \/ \E d \in Detector, order \in Orders(Masters), objects \in Orders(Object) :
           DetectorBuilds(d, order, objects)
    \/ DetectorExpires
    \/ \E d \in Detector, m \in Masters : DetectorAborts(d, m)

Spec == Init /\ [][Next]_vars

-----------------------------------------------------------------------------
(* What really keeps a request waiting: a holder in its way, or a request  *)
(* before it in the queue.                                                 *)
Blockers(w, o) ==
    LET i == CHOOSE n \in DOMAIN table[o].waiters : table[o].waiters[n] = w
    IN  {h.locker : h \in {g \in Range(table[o].holders) : InTheWay(g, w.locker, w.mode)}}
        \cup {table[o].waiters[n].locker : n \in {k \in 1..i - 1 : Waits(table[o].waiters[k])}}

\* Families that wait for each other: each for another of them.
StandStill(S) ==
    \A m \in S : \E o \in Object : \E w \in Range(table[o].waiters) :
        /\ Waits(w) /\ Master[w.locker] = m
        /\ \E b \in Blockers(w, o) : Master[b] \in S \ {m}

Deadlocks == {S \in (SUBSET Masters) \ {{}} : StandStill(S)}

\* Families of which two lockers sleep: siblings in several threads.
Crowded ==
    {Master[l] : l \in {x \in Locker : life[x] = "asleep" /\
        \E y \in Locker \ {x} : life[y] = "asleep" /\ Master[y] = Master[x]}}

(* A locker is in the table with each mode once, it sleeps exactly while   *)
(* its request is unanswered, and what has ended holds nothing.            *)
TypeOK ==
    /\ life \in [Locker -> {"idle", "active", "asleep", "doomed"}]
    /\ used \in [Locker -> 0..MaxRequests]
    /\ need_dd \in BOOLEAN /\ next_timeout \in BOOLEAN
    /\ late \subseteq TimesOut
    /\ \A l \in Locker :
        /\ Cardinality(QueuedAt(l)) <= 1
        /\ QueuedAt(l) # {} => life[l] = "asleep"
        /\ life[l] = "idle" => \A o \in Object : Holds(l, o) = {}
    /\ \A o \in Object : IsInjective(table[o].holders)

\* Locks on one object that conflict belong to a transaction and its kin.
HoldersCompatible ==
    \A o \in Object : \A h, g \in Range(table[o].holders) :
        Conflicts(h.mode, g.mode) => Master[h.locker] = Master[g.locker]

(* No wake-up is lost: the first request of a queue that still waits has a *)
(* holder in its way, or a request before it that is about to leave and    *)
(* will promote it (lock.c:1532-1620).                                     *)
NobodyWaitsForNothing ==
    \A o \in Object : \A i \in DOMAIN table[o].waiters :
        LET w == table[o].waiters[i]
        IN  Waits(w) => \/ Blockers(w, o) # {}
                        \/ \E n \in 1..i - 1 : ~Waits(table[o].waiters[n])

FindsStep ==
    need_dd /\ ~need_dd' =>             \* only DetectorBuilds resets it
        LET real == {S \in Deadlocks : S \cap late = {}}
            over == {e \in Object \X Locker : e[1] \in QueuedAt(e[2]) /\
                        (~Waits(RequestOf(e[2], e[1])) \/ Master[e[2]] \in late)}
            dead == UNION {{detector'[d][i].members : i \in DOMAIN detector'[d]} :
                           d \in {x \in Detector : detector[x] = <<>>}}
        IN  /\ (\E S \in real : S \cap Crowded = {}) => dead # {}
            /\ over = {} /\ Crowded = {} => \A d \in dead : \E S \in real : S \cap d # {}

(* The detector sees the circles of families and nothing but such circles, *)
(* although it takes every holder for a blocker and nobody in the queue:   *)
(* if families wait for each other it finds a deadlock, and each of its    *)
(* finds has a member that really is in one.  The first fails only for a   *)
(* family of which two lockers sleep at once, which is one row and one bit *)
(* to __dd_build; the second also while a request whose time is over is    *)
(* still in a queue.  Two children of one transaction that wait for each   *)
(* other are no circle of families, and are never found                    *)
(* (lock_deadlock.c:361-803, 656-660).                                     *)
FindsDeadlocks == [][FindsStep]_vars

=============================================================================
