--------------------------- MODULE MCImplicitTxn ---------------------------
(* Values of ImplicitTxn's constants for TLC. *)
EXTENDS ImplicitTxn, TLC

CONSTANTS d1, d2, t1, t2, null, none

MCDb == {d1, d2}
MCTwoTrans == {t1, t2}
MCTwoSymmetry == Permutations(MCDb) \cup Permutations(MCTwoTrans)
=============================================================================
