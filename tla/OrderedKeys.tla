----------------------------- MODULE OrderedKeys -----------------------------
(***************************************************************************)
(* The keys of a DB_BTREE database in their order: the comparison          *)
(* functions libstldb4 offers for Database::set_bt_compare(), the search   *)
(* of Berkeley DB that relies on them, and the partial lookups             *)
(* find_partial() and equal_range_partial(), each of which searches twice. *)
(*                                                                         *)
(* The tree is one leaf page, a sequence of distinct keys.  A key is a     *)
(* number (a float counts halves), a sequence of bytes, or a number        *)
(* followed by bytes.  The keys of the string comparisons are those of     *)
(* applications that store the terminating NUL, which these functions rely *)
(* on and which is left out here.                                          *)
(***************************************************************************)
EXTENDS Integers, SequencesExt, FiniteSetsExt

CONSTANTS
    Kind,       \* the comparison functions of this instance
    Keys,       \* for each of them, the keys the application stores
    Partial,   \* the partial keys it looks up (in the default order)
    Half,       \* an int goes from -Half to Half - 1
    MaxByte,    \* a byte goes from 0 to MaxByte
    Upper,      \* toupper(), for the bytes it changes
    Careful     \* the application keeps to keys its function can tell apart

Numeric == {"int16", "int32", "int64", "float"}

Byte == 0..MaxByte

\* The keys a comparison function is for.  An int holds a byte, a 16-bit number
\* and the length of a key.
KeyOf(kind) ==
    CASE kind \in Numeric -> Int
      [] kind = "uint16ThenBinary" ->
            {k \in Seq(0..(Half - 1)) : k # <<>> /\ Tail(k) \in Seq(Byte)}
      [] OTHER -> {k \in Seq(Byte) : Len(k) < Half}

ASSUME KeysAssumption ==
    /\ Half \in Nat /\ MaxByte \in 1..(Half - 1) /\ Careful \in BOOLEAN
    /\ Kind \subseteq Numeric \cup {"default", "cs", "cis", "uint16ThenBinary"}
    /\ \A kind \in Kind : Keys[kind] \subseteq KeyOf(kind)
    /\ Partial \subseteq {k \in Seq(Byte) : Len(k) + 1 < Half}
    /\ DOMAIN Upper \subseteq Byte /\ Upper \in [DOMAIN Upper -> Byte]
    /\ \A c, d \in DOMAIN Upper : Upper[c] = Upper[d] => c = d

VARIABLES
    compare,  \* the comparison function of the database, [kind, reverse]
    page,     \* the leaf page
    edge,     \* bt_lpgno: the last insertion was at an end of the tree
    held,     \* what the application stored and did not delete
    look      \* the partial lookup in progress, or the last one

vars == <<compare, page, edge, held, look>>

-----------------------------------------------------------------------------
(* The comparison functions. *)

\* Mutant: the result is narrowed to a short.
ToInt_short(n) == ((n + Half \div 4) % (Half \div 2)) - Half \div 4

\* The value of n in an int.
ToInt(n) == ((n + Half) % (2 * Half)) - Half

Truncated(halves) == IF halves < 0 THEN -((-halves) \div 2) ELSE halves \div 2

\* int( ai - bi ): whatever the width of the type, the low bits of the
\* difference are what is left of it.
bt_compare_numeric(kind, a, b) ==
    IF kind = "float" THEN Truncated(a - b) ELSE ToInt(a - b)

SignedByte(b) == IF 2 * b > MaxByte THEN b - (MaxByte + 1) ELSE b

toupper(b) == IF b \in DOMAIN Upper THEN Upper[b] ELSE b

Common(a, b) == 1..(IF Len(a) < Len(b) THEN Len(a) ELSE Len(b))

\* bt_compare_cs and, with Fold = toupper, bt_compare_cis: the bytes are
\* folded to find the place where the keys differ, and then compared as they are.
StringCompare(a, b, Fold(_)) ==
    LET differ == {i \in Common(a, b) : Fold(a[i]) # Fold(b[i])}
    IN CASE differ # {} -> SignedByte(a[Min(differ)]) - SignedByte(b[Min(differ)])
         [] differ = {} /\ Len(a) < Len(b) -> 1
         [] differ = {} /\ Len(a) > Len(b) -> -1
         [] OTHER -> 0

bt_compare_cs(a, b) == StringCompare(a, b, LAMBDA c : c)
bt_compare_cis(a, b) == StringCompare(a, b, toupper)

bt_compose_compare_cs(a, b) ==
    LET rc == bt_compare_numeric("int16", Head(a), Head(b))
    IN IF rc # 0 THEN rc ELSE bt_compare_cs(Tail(a), Tail(b))

\* Mutant: the bytes have a sign.
bam_defcmp_signed(a, b) ==
    LET differ == {i \in Common(a, b) : a[i] # b[i]}
    IN IF differ # {} THEN SignedByte(a[Min(differ)]) - SignedByte(b[Min(differ)])
       ELSE Len(a) - Len(b)

\* Berkeley DB's own: unsigned bytes, then the lengths.
bam_defcmp(a, b) ==
    LET differ == {i \in Common(a, b) : a[i] # b[i]}
    IN IF differ # {} THEN a[Min(differ)] - b[Min(differ)] ELSE Len(a) - Len(b)

bt_compare(a, b) ==
    LET ret == CASE compare.kind \in Numeric -> bt_compare_numeric(compare.kind, a, b)
                 [] compare.kind = "default" -> bam_defcmp(a, b)
                 [] compare.kind = "cs" -> bt_compare_cs(a, b)
                 [] compare.kind = "cis" -> bt_compare_cis(a, b)
                 [] compare.kind = "uint16ThenBinary" -> bt_compose_compare_cs(a, b)
    IN IF compare.reverse THEN ToInt(-1 * ret) ELSE ret

-----------------------------------------------------------------------------
(* The search of a leaf page. *)

Exact(i) == [exact |-> TRUE, indx |-> i]
Before(i) == [exact |-> FALSE, indx |-> i]

\* base and lim: the lim entries of a page of n from base on.
PartsOfPage(n) == {part \in (1..(n + 1)) \X (0..n) : part[1] + part[2] =< n + 1}

\* DB_BINARY_SEARCH_FOR of __bam_search: the place of k, or the place of the
\* smallest key after it.
bam_search(k) ==
    LET n == Len(page)
        in[part \in PartsOfPage(n)] ==
            LET base == part[1]
                lim == part[2]
                indx == base + lim \div 2
                cmp == bt_compare(k, page[indx])
            IN IF lim = 0 THEN Before(base)
               ELSE IF cmp = 0 THEN Exact(indx)
               ELSE IF cmp > 0 THEN in[<<indx + 1, (lim - 1) \div 2>>]
               ELSE in[<<base, lim \div 2>>]
    IN in[<<1, n>>]

\* Mutant: a match at an end is not told to be one.
FastSearch_unmatched(k) ==
    LET n == Len(page)
    IN CASE bt_compare(k, page[n]) > 0 -> Before(n + 1)
         [] bt_compare(k, page[1]) <= 0 -> Before(1)
         [] OTHER -> bam_search(k)

\* The fast_search of __bamc_search for an insertion: the two ends first, when
\* the last insertion was at one.
FastSearch(k) ==
    LET n == Len(page)
        last == bt_compare(k, page[n])
        first == bt_compare(k, page[1])
    IN CASE last > 0 -> Before(n + 1)
         [] last = 0 -> Exact(n)
         [] last < 0 /\ first < 0 -> Before(1)
         [] last < 0 /\ first = 0 -> Exact(1)
         [] OTHER -> bam_search(k)

InsertSearch(k) == IF edge /\ page # <<>> THEN FastSearch(k) ELSE bam_search(k)

-----------------------------------------------------------------------------
(* The cursors of a partial lookup. *)

Nowhere == [on |-> "nowhere"]
AtEnd == [on |-> "end"]
On(k) == [on |-> "record", key |-> k]

Idle == [phase |-> "none", for |-> "find", asked |-> <<>>, buf |-> <<>>, ulen |-> 0,
         at |-> Nowhere, lower |-> Nowhere, overwritten |-> FALSE, disturbed |-> FALSE]

-----------------------------------------------------------------------------
(* Insertion and removal. *)

\* What an application must keep to for its comparison function to be an order:
\* numbers whose differences an int holds, and, of floats, no two closer than 1;
\* letters of one case.
TellsApart(keys) ==
    CASE compare.kind \in {"int16", "int32", "int64"} ->
            \A a, b \in keys : a - b < Half
      [] compare.kind = "float" ->
            \A a, b \in keys : a - b < 2 * Half /\ (a > b => a - b >= 2)
      [] compare.kind = "cis" ->
            \/ \A a \in keys, c \in DOMAIN Upper : c \notin Range(a)
            \/ \A a \in keys, c \in DOMAIN Upper : Upper[c] \notin Range(a)
      [] OTHER -> TRUE

\* A cursor on a record holds its page locked for reading.
MayWrite ==
    \/ look.phase \in {"none", "done"}
    \/ look.at.on # "record" /\ look.lower.on # "record"

\* Whoever looks the keys up sees them change, unless it has finished.
Disturbed ==
    look' = IF look.phase \in {"none", "done"} THEN Idle ELSE [look EXCEPT !.disturbed = TRUE]

Put(k) ==
    LET s == InsertSearch(k)
        after == IF s.exact THEN page ELSE InsertAt(page, s.indx, k)
    IN /\ MayWrite
       /\ Careful => TellsApart(held \cup {k})
       /\ page' = after
       /\ edge' = (s.indx \in {1, Len(after)})
       /\ held' = held \cup {k}
       /\ Disturbed
       /\ UNCHANGED compare

Del(k) ==
    LET s == bam_search(k)
    IN /\ MayWrite
       /\ Careful => TellsApart(held \cup {k})
       /\ s.exact
       /\ page' = RemoveAt(page, s.indx)
       /\ held' = {h \in held : bt_compare(h, k) # 0}
       /\ Disturbed
       /\ UNCHANGED <<compare, edge>>

-----------------------------------------------------------------------------
(* Partial lookups.  setup() makes the buffer of the caller the one the     *)
(* library returns the key in, so the first search of find_partial() may    *)
(* write on it; the second one searches for what the buffer then holds.     *)

\* The result of DB_SET_RANGE in a user's buffer of ulen bytes.
SetRange(k, ulen) ==
    LET i == bam_search(k).indx
    IN IF i > Len(page) THEN [rc |-> "DB_NOTFOUND"]
       ELSE [rc |-> IF Len(page[i]) > ulen THEN "DB_BUFFER_SMALL" ELSE "ok", key |-> page[i]]

Overwritten(buf, key) == key \o SubSeq(buf, Len(key) + 1, Len(buf))

\* The look-up l is done with one bound: the iterator is at a.
Bound(l, a) ==
    IF l.for = "lower" THEN [l EXCEPT !.lower = a, !.at = Nowhere, !.phase = "between"]
                       ELSE [l EXCEPT !.at = a, !.phase = "done"]

\* Mutant: the buffer of the second search is as long as the partial key.
FirstSearch_ulen(k, l) ==
    LET r == SetRange(k, Len(k))
        found == [l EXCEPT !.phase = "sized", !.ulen = Len(k), !.buf = k, !.at = Nowhere]
    IN CASE r.rc = "DB_NOTFOUND" -> Bound([l EXCEPT !.buf = k], AtEnd)
         [] r.rc = "DB_BUFFER_SMALL" -> found
         [] r.rc = "ok" -> [found EXCEPT !.buf = Overwritten(k, r.key), !.at = On(r.key),
                                         !.overwritten = @ \/ r.key # k]

\* The first search of find_partial( k ), for the length of the key it finds.
FirstSearch(k, l) ==
    LET r == SetRange(k, Len(k))
        found == [l EXCEPT !.phase = "sized", !.ulen = Len(r.key), !.buf = k, !.at = Nowhere]
    IN CASE r.rc = "DB_NOTFOUND" -> Bound([l EXCEPT !.buf = k], AtEnd)
         [] r.rc = "DB_BUFFER_SMALL" -> found
         [] r.rc = "ok" -> [found EXCEPT !.buf = Overwritten(k, r.key), !.at = On(r.key),
                                         !.overwritten = @ \/ r.key # k]

find_partial(k) ==
    /\ compare.kind = "default"
    /\ look.phase \in {"none", "done"}
    /\ look' = FirstSearch(k, [Idle EXCEPT !.asked = k, !.for = "find"])
    /\ UNCHANGED <<compare, page, edge, held>>

equal_range_partial(k) ==
    /\ compare.kind = "default"
    /\ look.phase \in {"none", "done"}
    /\ look' = FirstSearch(k, [Idle EXCEPT !.asked = k, !.for = "lower"])
    /\ UNCHANGED <<compare, page, edge, held>>

\* The second search; a cursor that cannot move stays where it was.
SecondSearch ==
    LET r == SetRange(look.buf, look.ulen)
    IN /\ look.phase = "sized"
       /\ look' = Bound(look, CASE r.rc = "DB_NOTFOUND" -> AtEnd
                                [] r.rc = "DB_BUFFER_SMALL" -> look.at
                                [] r.rc = "ok" -> On(r.key))
       /\ UNCHANGED <<compare, page, edge, held>>

\* Mutant: the key after k is taken for the one after all that begin with k.
AdvanceFunctorBytes_append(k) == Append(k, 1)

AdvanceFunctorBytes(k) ==
    LET below == {i \in 2..Len(k) : k[i] < MaxByte}
    IN CASE k = <<>> -> <<1>>
         [] k # <<>> /\ below # {} -> [k EXCEPT ![Max(below)] = @ + 1]
         [] OTHER -> Append(k, 1)

\* equal_range_partial() goes on with the buffer its first half has left.
upper_bound_partial ==
    /\ look.phase = "between"
    /\ look' = FirstSearch(AdvanceFunctorBytes(look.buf), [look EXCEPT !.for = "upper"])
    /\ UNCHANGED <<compare, page, edge, held>>

-----------------------------------------------------------------------------

Init ==
    /\ compare \in [kind : Kind, reverse : BOOLEAN]
    /\ page = <<>>
    /\ edge = FALSE
    /\ held = {}
    /\ look = Idle

PutAKey == \E k \in Keys[compare.kind] : Put(k)
DelAKey == \E k \in Keys[compare.kind] : Del(k)

Next ==
    \/ PutAKey
    \/ DelAKey
    \/ \E k \in Partial : find_partial(k) \/ equal_range_partial(k)
    \/ SecondSearch
    \/ upper_bound_partial

Spec == Init /\ [][Next]_vars

-----------------------------------------------------------------------------
(* Properties. *)

Cursor == {Nowhere, AtEnd} \cup {On(k) : k \in Keys["default"]}

\* Type correctness: the page has only keys that were stored, none of them
\* twice (Put, Del), and a lookup is at one of its steps (find_partial).
TypeOK ==
    /\ Range(page) \subseteq held
    /\ held \subseteq Keys[compare.kind]
    /\ edge \in BOOLEAN
    /\ look.phase \in {"none", "sized", "between", "done"}
    /\ compare.kind = "default" => {look.at, look.lower} \subseteq Cursor
    /\ \A i, j \in DOMAIN page : page[i] = page[j] => i = j

\* Every key the application stored and did not delete is found by its search,
\* in all the histories of insertions and removals, with every comparison
\* function and with each of them reversed: the comparison is the same order
\* for all the searches, although it returns a difference narrowed to an int
\* (bt_compare_numeric) or of folded letters (bt_compare_cis).
EveryKeyFound == \A k \in held : bam_search(k).exact

\* a is before b byte by byte; where one is a prefix of the other, the default
\* order has the shorter one first and the string comparisons the longer one.
BytesInOrder(a, b, Value(_), shortFirst) ==
    \/ IF shortFirst THEN IsStrictPrefix(a, b) ELSE IsStrictPrefix(b, a)
    \/ \E i \in Common(a, b) :
          Value(a[i]) < Value(b[i]) /\ \A j \in 1..(i - 1) : a[j] = b[j]

\* a is before b in the order the name of the function stands for.
InOrder(a, b) ==
    CASE compare.kind \in Numeric -> a < b
      [] compare.kind = "default" -> BytesInOrder(a, b, LAMBDA c : c, TRUE)
      [] compare.kind \in {"cs", "cis"} -> BytesInOrder(a, b, SignedByte, FALSE)
      [] OTHER -> \/ Head(a) < Head(b)
                  \/ Head(a) = Head(b) /\ BytesInOrder(Tail(a), Tail(b), SignedByte, FALSE)

\* An iteration of the database meets the keys in the order the comparison
\* function is named for: numbers by their value, the default by the bytes as
\* numbers without a sign and a prefix first, the string comparisons by the
\* bytes with a sign and a prefix last; backwards under makeReverseCompare().
PageInOrder ==
    \A i, j \in DOMAIN page :
        i < j => IF compare.reverse THEN InOrder(page[j], page[i]) ELSE InOrder(page[i], page[j])

\* The first record that is not before k in the order of the database.
FirstFrom(k) ==
    LET from == {i \in DOMAIN page : bt_compare(page[i], k) >= 0}
    IN IF from = {} THEN AtEnd ELSE On(page[Min(from)])

\* find_partial( k ) ends on the first record from k on, as the database is at
\* its second search, with two exceptions: a shorter or equally long record
\* found first has overwritten the partial key, or another thread has put a
\* longer record before the one the buffer was measured for, and the iterator
\* is nowhere.
PartialFindLands ==
    [][SecondSearch /\ look.for = "find" /\ ~look.overwritten =>
          \/ look'.at = FirstFrom(look.asked)
          \/ look'.at = Nowhere /\ look.disturbed /\ FirstFrom(look.asked) # AtEnd
                /\ Len(FirstFrom(look.asked).key) > look.ulen]_vars

InRange(key, from, to) ==
    /\ from.on = "record" /\ bt_compare(key, from.key) >= 0
    /\ to.on = "record" => bt_compare(key, to.key) < 0

\* In the default order equal_range_partial( k ) has exactly the records that
\* begin with k, if k has two bytes at least and does not end in the largest
\* byte (AdvanceFunctorBytes leaves the first byte alone and the others in
\* place), and if no record written on the buffer of k took part.
PartialRangeIsThePrefix ==
    LET k == look.asked
    IN look.phase = "done" /\ look.for = "upper" /\ ~look.disturbed /\ ~look.overwritten
          /\ ~compare.reverse /\ Len(k) >= 2 /\ k[Len(k)] < MaxByte
       => {r \in Range(page) : InRange(r, look.lower, look.at)} = {r \in Range(page) : IsPrefix(k, r)}

=============================================================================
