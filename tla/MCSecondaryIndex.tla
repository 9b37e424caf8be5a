--------------------------- MODULE MCSecondaryIndex ---------------------------
(***************************************************************************)
(* An instance of SecondaryIndex: the two values have different keys in    *)
(* the first index; the second index leaves out the value y, as an offset  *)
(* extractor does with a short value.  Two records of one value collide in *)
(* both.                                                                   *)
(***************************************************************************)
EXTENDS SecondaryIndex, TLC

CONSTANTS p, q, x, y, A, B

MCExtract == <<x :> A @@ y :> B, x :> A @@ y :> DoNotIndex>>

\* Transactions of up to two operations that meet transactions of one.
MCMaxOps == p :> 2 @@ q :> 1

MCUnspoilt == ~spoilt

=============================================================================
