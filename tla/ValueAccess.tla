----------------------------- MODULE ValueAccess -----------------------------
(***************************************************************************)
(* The ways to the value of one record that take several calls of Berkeley *)
(* DB: Database::get(), which asks for the size and then for the bytes,    *)
(* and the streams of an iterator (db4_basic_streambuf), which read and    *)
(* write parts of the value at offsets of their own.                       *)
(*                                                                         *)
(* Without an environment there are no locks, and one thread, whose calls  *)
(* follow each other.  In an environment every call without a transaction  *)
(* has a locker of its own, and the cursor of a stream keeps the page      *)
(* locked, for reading or, once it has written, for writing, as long as    *)
(* the stream lives.  The buffer in front of a stream belongs to           *)
(* libferris: a stream is here what it makes of the record when that       *)
(* buffer is filled and flushed.                                           *)
(***************************************************************************)
EXTENDS Integers, SequencesExt

CONSTANTS
    Stream,    \* the streams, none in a transaction
    Getter,    \* the threads in get()
    Byte,      \* the bytes written; 0 is the one values are padded with
    MaxLen,    \* bound: the length a value can have
    MaxChunk,  \* bound: and what is read or written at once
    Absent,    \* the record is not there
    Default    \* what getWithDefault() returns for an exception

Octets == SeqOf(Byte \cup {0}, MaxLen)
Chunk == SeqOf(Byte, MaxChunk) \ {<<>>}
Zeros(n) == [i \in 1..n |-> 0]

\* The offsets of a stream; beyond the lengths of values only where a seek has
\* thrown.  Seeks ask for one byte more or less.
Step == -1..1
Offset == -1..(MaxLen + 1)

ASSUME ValueAssumption ==
    /\ 0 \notin Byte /\ Byte \subseteq Nat /\ MaxLen \in Nat /\ MaxChunk \in Nat
    /\ Absent # Default /\ Absent \notin Octets /\ Default \notin Octets

VARIABLES
    env,       \* the database is in an environment
    value,     \* of the record
    stream,    \* of each stream, its offsets and what it did since it was placed
    get        \* of each thread, how far it is in get()

vars == <<env, value, stream, get>>

-----------------------------------------------------------------------------
(* The streams.  g, p: m_goffset and m_poffset.  read, base and written    *)
(* record what a stream did since it was placed, for the properties: the   *)
(* bytes read, or the value found there and the bytes written; an entry is *)
(* Absent when the stream was placed for, or went on to, the other one,    *)
(* and once the value was changed by others that no lock kept out.         *)

Closed == [open |-> FALSE]
Opened(g, p, v, w) ==
    [open |-> TRUE, locks |-> w, g |-> g, p |-> p, read |-> <<>>, base |-> v, written |-> <<>>]

Others(s) == {r \in Stream \ {s} : stream[r].open}

\* Mutant: transactions that have read the page are not waited for.
MayWrite_streams(others) == env => others = {}

\* The page is locked for reading by the other streams, and by transactions
\* that have read it.
MayWrite(others) ==
    env => others = {} /\ \A t \in Getter : ~get[t].inTrans

MayRead(others) == env => \A s \in others : stream[s].locks # "write"

\* One thread: nothing comes between the two calls of its get().
NotInGet == env \/ \A t \in Getter : get[t].at # "sized"

\* What a stream did is forgotten when another one writes.
Disturbed(s) ==
    IF ~env /\ stream[s].open
    THEN [stream[s] EXCEPT !.read = Absent, !.base = Absent, !.written = Absent]
    ELSE stream[s]

-----------------------------------------------------------------------------
(* The record, through the Database. *)

Set(v) ==
    /\ NotInGet /\ MayWrite({s \in Stream : stream[s].open})
    /\ value' = v
    /\ stream' = [s \in Stream |-> Disturbed(s)]
    /\ UNCHANGED <<env, get>>

Erase ==
    /\ value # Absent
    /\ Set(Absent)

-----------------------------------------------------------------------------
(* get() and getWithDefault(). *)

\* data is the caller's string, Default once get() has thrown.
NotThere == [at |-> "none", inTrans |-> FALSE, data |-> Default]

\* data.resize( n ): what the string held stays, zeros are added.
Resized(d, n) == SubSeq(d, 1, IF n < Len(d) THEN n ELSE Len(d)) \o Zeros(n - Len(d))

\* impl_getValueSize(), for which the record that is not there throws, and
\* data.resize(); d is what the caller's string holds.
GetSize(t, inTrans, d) ==
    /\ get[t] = NotThere
    /\ inTrans => env
    /\ NotInGet /\ MayRead({s \in Stream : stream[s].open})
    /\ get' = [get EXCEPT ![t] =
                  IF value = Absent
                  THEN [at |-> "done", inTrans |-> inTrans, data |-> Default]
                  ELSE [at |-> "sized", inTrans |-> inTrans, data |-> Resized(d, Len(value))]]
    /\ UNCHANGED <<env, value, stream>>

\* The value v copied over the front of the caller's string.
Copied(v, d) == v \o SubSeq(d, Len(v) + 1, Len(d))

\* The call with the string as its buffer: a longer value and a missing record
\* throw, a shorter value leaves the rest of the string as it was.
GetBytes(t) ==
    /\ get[t].at = "sized"
    /\ MayRead({s \in Stream : stream[s].open})
    /\ LET d == get[t].data
       IN get' = [get EXCEPT ![t] = [@ EXCEPT !.at = "done", !.data =
              IF value = Absent \/ Len(value) > Len(d) THEN Default ELSE Copied(value, d)]]
    /\ UNCHANGED <<env, value, stream>>

\* The result is used; a transaction commits.
GetDone(t) ==
    /\ get[t].at = "done"
    /\ get' = [get EXCEPT ![t] = NotThere]
    /\ UNCHANGED <<env, value, stream>>

-----------------------------------------------------------------------------
(* The streams. *)

\* getIOStream( m ): the iterator has found the record; ios::trunc empties it,
\* ios::ate moves both offsets to its end.
OpenStream(s, m) ==
    /\ ~stream[s].open /\ value # Absent
    /\ NotInGet
    /\ MayRead(Others(s)) /\ ("trunc" \in m => MayWrite(Others(s)))
    /\ LET v == IF "trunc" \in m THEN <<>> ELSE value
           at == IF "ate" \in m THEN Len(v) ELSE 0
       IN /\ value' = v
          /\ stream' = [r \in Stream |->
                 IF r = s THEN Opened(at, at, v, IF "trunc" \in m THEN "write" ELSE "read")
                 ELSE IF "trunc" \in m THEN Disturbed(r) ELSE stream[r]]
    /\ UNCHANGED <<env, get>>

CloseStream(s) ==
    /\ stream[s].open /\ NotInGet
    /\ stream' = [stream EXCEPT ![s] = Closed]
    /\ UNCHANGED <<env, value, get>>

\* What a partial get of n bytes at offset `at' returns.  An offset that is
\* negative is beyond every value: doff has no sign.
Got(v, at, n) ==
    IF at \in 0..Len(v) THEN SubSeq(v, at + 1, IF Len(v) < at + n THEN Len(v) ELSE at + n)
                        ELSE <<>>

\* Mutant: make_new_data_avail() leaves the offset where it was.
Read_again(s, n) ==
    /\ stream[s].open /\ value # Absent /\ NotInGet
    /\ LET o == stream[s]
           c == Got(value, o.g, n)
       IN stream' = [stream EXCEPT ![s] =
              [o EXCEPT !.read = IF @ = Absent THEN Absent ELSE @ \o c,
                        !.base = Absent, !.written = Absent]]
    /\ UNCHANGED <<env, value, get>>

\* make_new_data_avail() with a buffer of n bytes, by partialRead().
Read(s, n) ==
    /\ stream[s].open /\ value # Absent /\ NotInGet
    /\ LET o == stream[s]
           c == Got(value, o.g, n)
       IN stream' = [stream EXCEPT ![s] =
              [o EXCEPT !.g = @ + Len(c), !.read = IF @ = Absent THEN Absent ELSE @ \o c,
                        !.base = Absent, !.written = Absent]]
    /\ UNCHANGED <<env, value, get>>

\* Mutant: dlen is left 0, so what was there is moved up.
Built_insert(v, p, c) ==
    SubSeq(v, 1, p) \o Zeros(p - Len(v)) \o c \o SubSeq(v, p + 1, Len(v))

\* __bam_build: the bytes c take the place of as many at offset p; zeros fill
\* the way to an offset beyond the end.
Built(v, p, c) ==
    SubSeq(v, 1, IF p < Len(v) THEN p ELSE Len(v)) \o Zeros(p - Len(v)) \o c
        \o SubSeq(v, p + Len(c) + 1, Len(v))

\* my_write_out_given_data(), by partialWrite().  (From a negative offset it
\* would write outside the buffer of __bam_build: nobody does.)
Write(s, c) ==
    /\ stream[s].open /\ value # Absent /\ NotInGet
    /\ MayWrite(Others(s))
    /\ stream[s].p >= 0 /\ stream[s].p + Len(c) <= MaxLen
    /\ value' = Built(value, stream[s].p, c)
    /\ stream' = [r \in Stream |->
           IF r # s THEN Disturbed(r)
           ELSE [stream[s] EXCEPT !.p = @ + Len(c), !.locks = "write", !.read = Absent,
                                  !.written = IF @ = Absent THEN Absent ELSE @ \o c]]
    /\ UNCHANGED <<env, get>>

\* Mutant: a bound is not looked at.
Clamp_above(p) == IF p > Len(value) THEN Len(value) ELSE p

\* clamp()
Clamp(p) == IF p < 0 THEN 0 ELSE IF p > Len(value) THEN Len(value) ELSE p

\* Where a seek is asked to lead from the offset it was, and where it leads.
Asked(was, dir, off) ==
    off + CASE dir = "beg" -> 0
            [] dir = "cur" -> was
            [] dir = "end" -> Len(value)
Sought(was, dir, off) == Clamp(Asked(was, dir, off))

\* seekoff() and seekpos(), for the offsets in m.
Seek(s, m, dir, off) ==
    /\ stream[s].open /\ value # Absent /\ NotInGet
    /\ LET o == stream[s]
           in == IF "in" \in m
                 THEN [o EXCEPT !.g = Sought(@, dir, off), !.read = <<>>,
                                !.base = Absent, !.written = Absent]
                 ELSE o
       IN stream' = [stream EXCEPT ![s] =
              IF "out" \in m
              THEN [in EXCEPT !.p = Sought(@, dir, off), !.read = Absent,
                              !.base = value, !.written = <<>>]
              ELSE in]
    /\ UNCHANGED <<env, value, get>>

\* seekoff() when the record is gone: the first offset of m is what was asked
\* for when clamp() throws.  (From the end, and in seekpos(), the size is asked
\* for before the offset is assigned.)
SeekThrows(s, m, dir, off) ==
    /\ stream[s].open /\ value = Absent /\ NotInGet
    /\ dir # "end"
    /\ LET o == [stream[s] EXCEPT !.read = Absent, !.base = Absent, !.written = Absent]
           thrown == IF "in" \in m THEN [o EXCEPT !.g = Asked(@, dir, off)]
                                   ELSE [o EXCEPT !.p = Asked(@, dir, off)]
       IN /\ {thrown.g, thrown.p} \subseteq Offset
          /\ stream' = [stream EXCEPT ![s] = thrown]
    /\ UNCHANGED <<env, value, get>>

-----------------------------------------------------------------------------

Init ==
    /\ env \in BOOLEAN
    /\ value = Absent
    /\ stream = [s \in Stream |-> Closed]
    /\ get = [t \in Getter |-> NotThere]

Next ==
    \/ \E v \in SeqOf(Byte, MaxLen) : Set(v)
    \/ Erase
    \/ \E t \in Getter, inTrans \in BOOLEAN, d \in Octets : GetSize(t, inTrans, d)
    \/ \E t \in Getter : GetBytes(t)
    \/ \E t \in Getter : GetDone(t)
    \/ \E s \in Stream, m \in SUBSET {"trunc", "ate"} : OpenStream(s, m)
    \/ \E s \in Stream : CloseStream(s)
    \/ \E s \in Stream, n \in 1..MaxChunk : Read(s, n)
    \/ \E s \in Stream, c \in Chunk : Write(s, c)
    \/ \E s \in Stream, m \in (SUBSET {"in", "out"}) \ {{}}, dir \in {"beg", "cur", "end"},
          off \in Step : Seek(s, m, dir, off) \/ SeekThrows(s, m, dir, off)

Spec == Init /\ [][Next]_vars

-----------------------------------------------------------------------------
(* Properties. *)

\* The offset a stream was placed at, and has read or written on from, is within
\* the value.  Only a seek that throws, or without an environment somebody
\* else's write, leaves one that is not (stldb4.cpp:2317-2364).
TypeOK ==
    /\ env \in BOOLEAN
    /\ value \in Octets \cup {Absent}
    /\ \A s \in Stream : stream[s].open =>
         LET o == stream[s]
         IN /\ {o.g, o.p} \subseteq Offset
            /\ o.read # Absent => value # Absent /\ o.g \in 0..Len(value)
            /\ o.base # Absent => value # Absent /\ o.p \in 0..Len(value)
    /\ \A t \in Getter : /\ get[t].at \in {"none", "sized", "done"}
                         /\ get[t].data \in Octets \cup {Default}

\* The end of get() after its two calls: in a transaction, or without other
\* threads, the value, all of it and nothing else, although its size was asked
\* for before.  Otherwise it may also be an exception, if the value has grown
\* or gone, or, if it has shrunk, the value followed by what the caller's
\* string held there before the call (stldb4.cpp:1269-1282).
GetIsExact ==
    [][\A t \in Getter : get[t].at = "sized" /\ get'[t].at = "done" =>
          LET d == get[t].data
              r == get'[t].data
          IN \/ r = value
             \/ /\ env /\ ~get[t].inTrans
                /\ \/ r = Default /\ (value = Absent \/ Len(value) > Len(d))
                   \/ value # Absent /\ Len(value) < Len(d) /\ r = Copied(value, d)]_vars

\* The bytes a stream hands out, one buffer after the other, are the value from
\* where the stream was placed to its offset: none is skipped, none comes
\* twice, and in an environment nobody changes the value meanwhile
\* (make_new_data_avail and partialRead, stldb4.cpp:2301-2307, 2574-2608).
ReadsAreContiguous ==
    \A s \in Stream : stream[s].open /\ stream[s].read # Absent /\ value # Absent =>
        LET o == stream[s]
        IN Len(o.read) <= o.g /\ o.read = SubSeq(value, o.g - Len(o.read) + 1, o.g)

\* What a stream wrote since it was placed, one buffer after the other, stands
\* in the value from there to its offset; before and behind it the value is
\* what the stream found ("overwriting existing data", stldb4.hh:661), and in
\* an environment nobody else changes it while the stream is open.
WritesStay ==
    \A s \in Stream : stream[s].open /\ stream[s].base # Absent =>
        LET o == stream[s]
            from == o.p - Len(o.written)
        IN value = SubSeq(o.base, 1, from) \o o.written \o SubSeq(o.base, o.p + 1, Len(o.base))

=============================================================================
