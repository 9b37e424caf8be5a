----------------------------- MODULE MCRecovery -----------------------------
(* Recovery with three transactions, one with a child beside another, and   *)
(* two pages, which are alike.                                              *)
EXTENDS Recovery, TLC

CONSTANTS t1, t2, t3, p1, p2

MCFamily == {(t1 :> NoTxn) @@ (t2 :> t1) @@ (t3 :> NoTxn)}
MCSymmetry == Permutations(Page)
=============================================================================
