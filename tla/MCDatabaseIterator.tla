------------------------- MODULE MCDatabaseIterator -------------------------
(* Values of DatabaseIterator's constants for TLC. *)
EXTENDS DatabaseIterator, TLC

CONSTANTS i1, i2, t1, v0, v1

MCIters == {i1, i2}
MCOneIter == {i1}
MCTrans == {t1}
MCNoTrans == {}
MCVals == {v0, v1}
MCOneVal == {v0}
=============================================================================
