---------------------------- MODULE MCValueAccess ----------------------------
(***************************************************************************)
(* An instance of ValueAccess: two streams, which are alike, and a thread  *)
(* in get().                                                               *)
(***************************************************************************)
EXTENDS ValueAccess, TLC

CONSTANTS s1, s2

MCSymmetry == Permutations({s1, s2})

=============================================================================
