-------------------------- MODULE LargestRemainder --------------------------
(***************************************************************************)
(* The split of an amount by weight that both deployments use: the floors  *)
(* of the exact shares, and the units left over one each to the largest    *)
(* remainders, ties going to the account that sorts first.  Accounts are   *)
(* numbers, in the order the code sorts addresses.                         *)
(***************************************************************************)
EXTENDS FiniteSets, Functions, Integers

\* Rows of weight zero are dropped.
Rows(weights) == {a \in DOMAIN weights : weights[a] > 0}

TotalWeight(weights) == SumFunctionOnSet(weights, Rows(weights))

FloorShare(weights, amount, a) == (amount * weights[a]) \div TotalWeight(weights)
Remainder(weights, amount, a) == (amount * weights[a]) % TotalWeight(weights)

Leftover(weights, amount) ==
  amount - SumFunction([a \in Rows(weights) |-> FloorShare(weights, amount, a)])

\* Rows before a in the order by remainder.
Ahead(weights, amount, a) ==
  {b \in Rows(weights) \ {a} :
     \/ Remainder(weights, amount, b) > Remainder(weights, amount, a)
     \/ Remainder(weights, amount, b) = Remainder(weights, amount, a) /\ b < a}

Share(weights, amount, a) ==
  IF a \notin Rows(weights) THEN 0
  ELSE FloorShare(weights, amount, a)
       + (IF Cardinality(Ahead(weights, amount, a)) < Leftover(weights, amount) THEN 1 ELSE 0)

=============================================================================
