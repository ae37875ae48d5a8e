-------------------------- MODULE MCRewardPipeline --------------------------
(***************************************************************************)
(* Small instances of RewardPipeline for TLC.                              *)
(***************************************************************************)
EXTENDS RewardPipeline

\* Signatures are interchangeable: it is enough to use them in order.
SignaturesInOrder == \A s, t \in Signature : s < t /\ Signed(t) => Signed(s)

=============================================================================
