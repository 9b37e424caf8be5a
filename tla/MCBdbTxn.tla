------------------------------ MODULE MCBdbTxn ------------------------------
(* Values of BdbTxn's constants for TLC. *)
EXTENDS BdbTxn, TLC

CONSTANTS k1, k2, v0, v1, none

MCKeys == {k1, k2}
MCOneKey == {k1}
MCVals == {v0, v1}
MCSymmetry == Permutations(MCKeys)
MCInitStore == [k \in MCKeys |-> v0]
MCInitOneKey == [k \in MCOneKey |-> v0]
=============================================================================
