---------------------------- MODULE MCEvmRewards ----------------------------
EXTENDS RewardPublisher, TLC
TwoLevels == 0 :> 1 @@ 1 :> 2
\* The second holder sells out in the second block.
History == <<[id |-> 1, time |-> 0, from |-> NoOne, to |-> 1, amount |-> 1],
             [id |-> 2, time |-> 0, from |-> NoOne, to |-> 2, amount |-> 2],
             [id |-> 3, time |-> 1, from |-> 2, to |-> 1, amount |-> 2]>>
Flat == <<1>>
=============================================================================
