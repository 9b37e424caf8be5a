------------------------------ MODULE SortedMap ------------------------------
(***************************************************************************)
(* What a sorted (multi)map in the style of the STL promises the holders   *)
(* of its iterators: an iterator is at a record or at the end, moves to    *)
(* the neighbouring record that exists at that moment, and stays between   *)
(* its neighbours when its own record is erased.                           *)
(***************************************************************************)
EXTENDS Naturals, FiniteSetsExt

CONSTANTS Iter, NumRec, MaxDup, Val, Absent

Rec == 1..NumRec                        \* the records in their order
KeyOf(r) == (r - 1) \div MaxDup + 1     \* MaxDup records share a key
Key == {KeyOf(r) : r \in Rec}
Nowhere == 0                            \* the iterator does not exist
AtEnd == NumRec + 1

VARIABLES
    store,   \* the value of each record, or Absent
    pos      \* where each iterator is

vars == <<store, pos>>

Init ==
    /\ store \in [Rec -> Val \cup {Absent}]
    /\ pos = [i \in Iter |-> Nowhere]

Live == {r \in Rec : store[r] # Absent}
FirstOf(S) == IF S = {} THEN AtEnd ELSE Min(S)
Place(i, p) == pos' = [pos EXCEPT ![i] = p] /\ UNCHANGED store

Begin(i) == Place(i, FirstOf(Live))
End(i) == Place(i, AtEnd)
Find(i, k) == Place(i, FirstOf({r \in Live : KeyOf(r) = k}))
LowerBound(i, k) == Place(i, FirstOf({r \in Live : KeyOf(r) >= k}))
UpperBound(i, k) == Place(i, FirstOf({r \in Live : KeyOf(r) > k}))

Increment(i) == pos[i] \in Rec /\ Place(i, FirstOf({r \in Live : r > pos[i]}))

Decrement(i) ==
    LET before == {r \in Live : r < pos[i]}
    IN before # {} /\ Place(i, Max(before))

NextDup(i) ==
    LET dups == {r \in Live : r > pos[i] /\ KeyOf(r) = KeyOf(pos[i])}
    IN pos[i] \in Rec /\ Place(i, FirstOf(dups))

Copy(i, j) == pos[i] # Nowhere /\ Place(j, pos[i])
Destroy(i) == Place(i, Nowhere)

SetValue(i, v) ==
    /\ pos[i] \in Live
    /\ store' = [store EXCEPT ![pos[i]] = v]
    /\ UNCHANGED pos

Put(r, v) == store' = [store EXCEPT ![r] = v] /\ UNCHANGED pos

Insert(i, r, v) ==
    /\ store' = [store EXCEPT ![r] = v]
    /\ pos' = [pos EXCEPT ![i] = r]

Erase(i) ==
    /\ pos[i] \in Live
    /\ store' = [store EXCEPT ![pos[i]] = Absent]
    /\ UNCHANGED pos

EraseKey(k) ==
    /\ store' = [r \in Rec |-> IF KeyOf(r) = k THEN Absent ELSE store[r]]
    /\ UNCHANGED pos

Next ==
    \/ \E i \in Iter :
         \/ Begin(i) \/ End(i) \/ Increment(i) \/ Decrement(i) \/ NextDup(i)
         \/ Destroy(i) \/ Erase(i)
         \/ \E k \in Key : Find(i, k) \/ LowerBound(i, k) \/ UpperBound(i, k)
         \/ \E j \in Iter : Copy(i, j)
         \/ \E v \in Val : SetValue(i, v)
         \/ \E r \in Rec, v \in Val : Insert(i, r, v)
    \/ \E r \in Rec, v \in Val : Put(r, v)
    \/ \E k \in Key : EraseKey(k)

Spec == Init /\ [][Next]_vars
=============================================================================
