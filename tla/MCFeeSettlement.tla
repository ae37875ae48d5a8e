--------------------------- MODULE MCFeeSettlement ---------------------------
(***************************************************************************)
(* Small instances of FeeSettlement for TLC.                               *)
(***************************************************************************)
EXTENDS FeeSettlement, TLC

\* Signatures are interchangeable; a run that checks liveness does not say so.
Symmetry == Permutations(Signature)

=============================================================================
