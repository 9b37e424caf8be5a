---------------------------- MODULE MCLockTable ----------------------------
(* Instances of LockTable for TLC. *)
EXTENDS LockTable

CONSTANTS a, j, k, b, c, o1, o2, none

(* A transaction a with a child k in its own thread and another, j, in a   *)
(* second one; b, and a cursor c, in a third.                              *)
MCLockers == {a, j, k, b, c}
MCParent == [l \in MCLockers |-> IF l \in {j, k} THEN a ELSE none]
MCThread == [l \in MCLockers |-> CASE l \in {a, k} -> 1 [] l = j -> 2 [] OTHER -> 3]
MCRequests ==
    [l \in MCLockers |->
        CASE l = a -> {<<o1, "READ">>}
          [] l = k -> {<<o1, "WRITE">>, <<o2, "READ">>}
          [] l = j -> {<<o1, "READ">>, <<o2, "WRITE">>}
          [] l = b -> {<<o1, "WRITE">>}
          [] l = c -> {<<o2, "READ">>}]

MCSymmetry == Permutations(Detector)
=============================================================================
