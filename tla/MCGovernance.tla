---------------------------- MODULE MCGovernance ----------------------------
(***************************************************************************)
(* Small instances of Governance for TLC: two holders and menus in which   *)
(* every action occurs.                                                    *)
(***************************************************************************)
EXTENDS Governance, TLC

CONSTANTS h1, h2

Ballot(a, b, total) == [root |-> (h1 :> a @@ h2 :> b), total |-> total]

\* Equal weights can tie, and one of them alone misses the quorum.
EqualWeights == {Ballot(1, 1, 2)}

Accumulate == NoOption
Choice(action, bps, duration) ==
  [action |-> action, bps |-> bps, amount |-> 0, duration |-> duration,
   recipient |-> IF action = "MARKETING_SALE" THEN "marketingWallet" ELSE "nobody"]

\* The last two are refused: an action twice, and a duration nobody allows.
AllMenus == {
  <<Accumulate, Choice("BUYBACK_LOCK", 5, 2)>>,
  <<Choice("LOCK_MSTR", 5, Forever), Choice("BUYBACK_HOLD", 10, 0)>>,
  <<Choice("LOCK_MSTR", 10, 2), Choice("BUYBACK_BURN", 5, 0), Choice("MARKETING_SALE", 10, 0)>>,
  <<Choice("BUYBACK_LOCK", 5, Forever), Choice("BUYBACK_LOCK", 5, 2)>>,
  <<Choice("LOCK_MSTR", 5, 1), Accumulate>> }

=============================================================================
