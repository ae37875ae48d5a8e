-------------------------- MODULE MCControlRunner --------------------------
(***************************************************************************)
(* Three coins for the control runner, two as approved and one that was    *)
(* launched with another creator fee.                                      *)
(***************************************************************************)
EXTENDS ControlRunner

Coins == {"capital", "draft", "other"}

CoinFacts ==
  [m \in Coins |->
     [ownCreator |-> TRUE, mstrxQuoted |-> TRUE, token2022 |-> TRUE,
      holderReward |-> FALSE, creatorFeeBps |-> IF m = "draft" THEN 100 ELSE 200]]

OneCoin == {"capital"}
OneCoinFacts == [m \in OneCoin |-> CoinFacts[m]]

=============================================================================
