------------------------ MODULE RewardPublisherProofs ------------------------
(***************************************************************************)
(* The vault by itself, for any publisher; then the publisher with the     *)
(* vault, for any holders, transfers, amounts and bounds.  PublisherInv is *)
(* the inductive invariant: types; the epochs of chain, state and          *)
(* transactions within one of each other; files, state and snapshot in     *)
(* step; what the chain has recorded among the transactions; claims        *)
(* counted; and, until a record has diverged from the chain, sums that     *)
(* agree.  That a split adds up is proved from the ranks its remainders    *)
(* give the rows, and that a replay ends by its shortest failing prefix.   *)
(***************************************************************************)
EXTENDS RewardPublisher, SumTheorems

-----------------------------------------------------------------------------
(* The vault                                                               *)

\* Balances and totals stay naturals, so no checked subtraction of a call that is
\* let through underflows.
THEOREM VaultTypeCorrect == VaultSpec => []VaultTypeOK
<1>1. VaultInit => VaultTypeOK
  <2> SUFFICES ASSUME VaultInit PROVE VaultTypeOK
    OBVIOUS
  <2>1. 0 \in Nat
    OBVIOUS
  <2> QED
    BY <2>1, Zenon DEF VaultInit, VaultTypeOK, NoRoot
<1>2. VaultTypeOK /\ [VaultNext]_vaultVars => VaultTypeOK'
  <2> SUFFICES ASSUME VaultTypeOK, [VaultNext]_vaultVars PROVE VaultTypeOK'
    OBVIOUS
  <2> USE DEF VaultTypeOK
  <2>1. ASSUME NEW epoch \in Nat, NEW root \in [Account -> Nat], NEW newAllocated \in Nat,
               PublishDistribution(epoch, root, newAllocated)
        PROVE  VaultTypeOK'
    BY <2>1 DEF PublishDistribution
  <2>2. ASSUME NEW a \in Account, Claim(a) PROVE VaultTypeOK'
    <3> DEFINE amount == merkleRoot[a] - claimed[a]
    <3>1. merkleRoot[a] \in Nat /\ amount \in Nat
      BY <2>2 DEF Claim
    <3>2. totalClaimed' \in Nat /\ vaultMstr' \in Nat
      BY <3>1, <2>2 DEF Claim
    <3>3. claimed' \in [Account -> Nat]
      BY <3>1, <2>2 DEF Claim
    <3> QED
      BY <3>2, <3>3, <2>2 DEF Claim
  <2>3. ASSUME NEW amount \in Nat, FundVault(amount) PROVE VaultTypeOK'
    BY <2>3 DEF FundVault
  <2>4. CASE PauseVault
    BY <2>4 DEF PauseVault
  <2>5. CASE UNCHANGED vaultVars
    BY <2>5 DEF vaultVars
  <2> QED
    BY <2>1, <2>2, <2>3, <2>4, <2>5 DEF VaultNext
<1> QED
  BY <1>1, <1>2, PTL DEF VaultSpec

\* Whatever has been allocated is in the vault or has been paid out.
THEOREM AllocationsFundedHolds == VaultSpec => []AllocationsFunded
<1>1. VaultInit => AllocationsFunded
  BY DEF VaultInit, AllocationsFunded
<1>2. VaultTypeOK /\ AllocationsFunded /\ [VaultNext]_vaultVars => AllocationsFunded'
  <2> SUFFICES ASSUME VaultTypeOK, AllocationsFunded, [VaultNext]_vaultVars
               PROVE  AllocationsFunded'
    OBVIOUS
  <2> USE DEF VaultTypeOK, AllocationsFunded
  <2>1. ASSUME NEW epoch \in Nat, NEW root \in [Account -> Nat], NEW newAllocated \in Nat,
               PublishDistribution(epoch, root, newAllocated)
        PROVE  AllocationsFunded'
    BY <2>1 DEF PublishDistribution, Accepts
  <2>2. ASSUME NEW a \in Account, Claim(a) PROVE AllocationsFunded'
    <3>1. merkleRoot[a] - claimed[a] \in Int
      OBVIOUS
    <3> QED
      BY <3>1, <2>2 DEF Claim
  <2>3. ASSUME NEW amount \in Nat, FundVault(amount) PROVE AllocationsFunded'
    BY <2>3 DEF FundVault
  <2>4. CASE PauseVault
    BY <2>4 DEF PauseVault
  <2>5. CASE UNCHANGED vaultVars
    BY <2>5 DEF vaultVars
  <2> QED
    BY <2>1, <2>2, <2>3, <2>4, <2>5 DEF VaultNext
<1> QED
  BY <1>1, <1>2, VaultTypeCorrect, PTL DEF VaultSpec

-----------------------------------------------------------------------------
(* The split of a reward                                                   *)

\* A number is what its quotient and remainder make of it.
LEMMA Divided ==
  ASSUME NEW n \in Nat, NEW d \in Nat \ {0}
  PROVE  /\ n = d * (n \div d) + (n % d)
         /\ n \div d \in Nat /\ n % d \in Nat /\ n % d <= d - 1
<1>1. n \div d \in Int /\ n % d \in 0..(d - 1)
  OBVIOUS
<1>2. n = d * (n \div d) + (n % d)
  <2>1. n \in Int /\ d \in Int /\ d > 0
    OBVIOUS
  <2> QED
    BY <2>1
<1>3. n \div d >= 0
  <2> SUFFICES ASSUME n \div d <= -1 PROVE FALSE
    BY <1>1
  <2>1. d * (n \div d) <= d * (-1)
    BY <1>1
  <2> QED
    BY <1>1, <1>2, <2>1
<1> QED
  BY <1>1, <1>2, <1>3

\* The total weight divides every row's part of the amount.
LEMMA RowsDivide ==
  ASSUME IsFiniteSet(Account), NEW weights \in [Account -> Nat], NEW amount \in Nat,
         Rows(weights) # {}
  PROVE  /\ IsFiniteSet(Rows(weights)) /\ Rows(weights) \subseteq Account
         /\ TotalWeight(weights) \in Nat \ {0}
         /\ \A a \in Rows(weights) :
              /\ amount * weights[a] = TotalWeight(weights) * FloorShare(weights, amount, a)
                                       + Remainder(weights, amount, a)
              /\ FloorShare(weights, amount, a) \in Nat
              /\ Remainder(weights, amount, a) \in Nat
              /\ Remainder(weights, amount, a) <= TotalWeight(weights) - 1
<1>1. Rows(weights) \subseteq Account /\ \A a \in Rows(weights) : weights[a] \in Nat /\ weights[a] > 0
  BY DEF Rows
<1>2. IsFiniteSet(Rows(weights))
  BY <1>1, FS_Subset
<1>3. TotalWeight(weights) \in Nat
  BY <1>1, <1>2, SumNat DEF TotalWeight
<1>4. PICK a \in Rows(weights) : TRUE
  OBVIOUS
<1>5. weights[a] <= TotalWeight(weights)
  BY <1>1, <1>2, SumTerm DEF TotalWeight
<1>6. TotalWeight(weights) \in Nat \ {0}
  BY <1>1, <1>3, <1>5
<1>7. ASSUME NEW b \in Rows(weights)
      PROVE  /\ amount * weights[b] = TotalWeight(weights) * FloorShare(weights, amount, b)
                                       + Remainder(weights, amount, b)
             /\ FloorShare(weights, amount, b) \in Nat
             /\ Remainder(weights, amount, b) \in Nat
             /\ Remainder(weights, amount, b) <= TotalWeight(weights) - 1
  <2>1. amount * weights[b] \in Nat
    BY <1>1
  <2> QED
    BY <2>1, <1>6, Divided DEF FloorShare, Remainder
<1> QED
  BY <1>1, <1>2, <1>6, <1>7

\* The rows in the order in which they get a unit left over.
Precedes(weights, amount) ==
  {p \in Rows(weights) \X Rows(weights) : p[1] \in Ahead(weights, amount, p[2])}

\* The order of the remainders ranks the rows: nobody is before himself, and of two
\* rows one is before the other.
LEMMA RowsOrdered ==
  ASSUME IsFiniteSet(Account), Account \subseteq Int, NEW weights \in [Account -> Nat],
         NEW amount \in Nat, Rows(weights) # {}
  PROVE  /\ Orders(Precedes(weights, amount), Rows(weights))
         /\ \A a \in Rows(weights) :
              Before(Precedes(weights, amount), Rows(weights), a) = Ahead(weights, amount, a)
<1> DEFINE S == Rows(weights)
           rem(a) == Remainder(weights, amount, a)
<1>1. \A a \in S : a \in Int /\ rem(a) \in Int
  <2>1. S \subseteq Account /\ \A a \in S : rem(a) \in Nat
    BY RowsDivide, Zenon
  <2> HIDE DEF S, rem
  <2> QED
    BY <2>1
<1>2. \A a, b \in S : <<b, a>> \in Precedes(weights, amount)
                      <=> b # a /\ (rem(b) > rem(a) \/ (rem(b) = rem(a) /\ b < a))
  BY DEF Precedes, Ahead
<1>3. \A a \in S : Ahead(weights, amount, a) = {b \in S : <<b, a>> \in Precedes(weights, amount)}
  BY DEF Precedes, Ahead
<1> HIDE DEF S, rem
<1>4. Orders(Precedes(weights, amount), S)
  BY <1>1, <1>2 DEF Orders
<1> QED
  BY <1>3, <1>4 DEF Before, S

\* What is left over is at least nothing and less than one unit per row.
LEMMA LeftoverFits ==
  ASSUME IsFiniteSet(Account), NEW weights \in [Account -> Nat], NEW amount \in Nat,
         Rows(weights) # {}
  PROVE  /\ Leftover(weights, amount) \in 0..Cardinality(Rows(weights))
         /\ SumFunctionOnSet([a \in Rows(weights) |-> FloorShare(weights, amount, a)], Rows(weights))
            = amount - Leftover(weights, amount)
         /\ SumFunctionOnSet([a \in Rows(weights) |-> Remainder(weights, amount, a)], Rows(weights))
            = TotalWeight(weights) * Leftover(weights, amount)
<1> DEFINE S == Rows(weights)
           T == TotalWeight(weights)
           floor == [a \in S |-> FloorShare(weights, amount, a)]
           rem == [a \in S |-> Remainder(weights, amount, a)]
           whole == [a \in S |-> T * floor[a]]
           part == [a \in S |-> amount * weights[a]]
           one == [a \in S |-> 1]
           most == [a \in S |-> (T - 1) * one[a]]
           n == Cardinality(S)
           k == Leftover(weights, amount)
<1>1. /\ IsFiniteSet(S) /\ T \in Nat \ {0} /\ n \in Nat
      /\ \A a \in S : /\ part[a] = whole[a] + rem[a]
                      /\ floor[a] \in Nat /\ rem[a] \in Nat /\ rem[a] <= T - 1
                      /\ weights[a] \in Nat /\ whole[a] \in Nat
  <2>1. /\ IsFiniteSet(S) /\ S \subseteq Account /\ T \in Nat \ {0}
        /\ \A a \in S : /\ amount * weights[a] = T * FloorShare(weights, amount, a)
                                                  + Remainder(weights, amount, a)
                        /\ FloorShare(weights, amount, a) \in Nat
                        /\ Remainder(weights, amount, a) \in Nat
                        /\ Remainder(weights, amount, a) <= T - 1
    BY RowsDivide, Zenon
  <2>2. n \in Nat
    BY <2>1, FS_CardinalityType
  <2> HIDE DEF S, T
  <2> QED
    BY <2>1, <2>2
<1>2. k = amount - SumFunctionOnSet(floor, S)
  BY DEF Leftover, SumFunction
<1>3. \A a \in S : /\ one[a] = 1 /\ most[a] = (T - 1) * one[a] /\ most[a] = T - 1
                   /\ whole[a] = T * floor[a] /\ part[a] = amount * weights[a]
  BY <1>1
<1>4. T = SumFunctionOnSet(weights, S)
  BY DEF TotalWeight
<1> HIDE DEF S, floor, rem, whole, part, one, most, k, T
<1>5. SumFunctionOnSet(part, S) = amount * T
  BY <1>1, <1>3, <1>4, SumScale
<1>6. SumFunctionOnSet(whole, S) = T * SumFunctionOnSet(floor, S)
  BY <1>1, <1>3, SumScale
<1>7. SumFunctionOnSet(part, S) = SumFunctionOnSet(whole, S) + SumFunctionOnSet(rem, S)
  BY <1>1, SumPlus
<1>8. /\ SumFunctionOnSet(floor, S) \in Nat /\ SumFunctionOnSet(rem, S) \in Nat
  BY <1>1, SumNat
<1>9. SumFunctionOnSet(most, S) = (T - 1) * SumFunctionOnSet(one, S)
  BY <1>1, <1>3, SumScale
<1>10. SumFunctionOnSet(one, S) = n
  BY <1>1, <1>3, SumCount
<1>11. SumFunctionOnSet(rem, S) <= SumFunctionOnSet(most, S)
  BY <1>1, <1>3, SumMonotonic
<1>12. n # 0
  BY <1>1, FS_EmptySet DEF S
<1> DEFINE sumRem == SumFunctionOnSet(rem, S)
           sumFloor == SumFunctionOnSet(floor, S)
<1> HIDE DEF sumRem, sumFloor, n
<1>13. /\ amount * T = T * sumFloor + sumRem /\ sumRem <= (T - 1) * n
       /\ sumRem \in Nat /\ sumFloor \in Nat /\ k = amount - sumFloor
  BY <1>2, <1>5, <1>6, <1>7, <1>8, <1>9, <1>10, <1>11 DEF sumRem, sumFloor
<1>14. k \in Int /\ sumRem = T * k
  <2>1. T * (amount - sumFloor) = T * amount - T * sumFloor
    BY <1>1, <1>13
  <2>2. T * amount = amount * T
    BY <1>1
  <2> QED
    BY <1>1, <1>13, <2>1, <2>2
<1>15. k >= 0
  <2> SUFFICES ASSUME k <= -1 PROVE FALSE
    BY <1>14
  <2>1. T * k <= T * (-1)
    BY <1>1, <1>14
  <2> QED
    BY <1>1, <1>13, <1>14, <2>1
<1>16. k <= n
  <2> SUFFICES ASSUME k >= n + 1 PROVE FALSE
    BY <1>14, <1>1
  <2>1. T * k >= T * (n + 1)
    BY <1>1, <1>14
  <2>2. T * (n + 1) = (T - 1) * n + n + T
    BY <1>1
  <2> QED
    BY <1>1, <1>13, <1>14, <2>1, <2>2
<1>17. k \in 0..n
  BY <1>1, <1>14, <1>15, <1>16
<1>18. sumFloor = amount - k
  BY <1>1, <1>13, <1>14
<1> QED
  BY <1>14, <1>17, <1>18 DEF k, sumFloor, sumRem, n, S, T, floor, rem

\* The split gives out the amount, all of it and no more.
LEMMA SplitAddsUp ==
  ASSUME IsFiniteSet(Account), Account \subseteq Int, NEW weights \in [Account -> Nat],
         NEW amount \in Nat, Rows(weights) # {}
  PROVE  /\ \A a \in Account : Share(weights, amount, a) \in Nat
         /\ SumFunctionOnSet([a \in Account |-> Share(weights, amount, a)], Account) = amount
<1> DEFINE S == Rows(weights)
           k == Leftover(weights, amount)
           n == Cardinality(S)
           floor == [a \in S |-> FloorShare(weights, amount, a)]
           Extra == {a \in S : Cardinality(Ahead(weights, amount, a)) < k}
           extra == [a \in S |-> IF a \in Extra THEN 1 ELSE 0]
           share == [a \in Account |-> Share(weights, amount, a)]
<1>1. /\ IsFiniteSet(S) /\ S \subseteq Account /\ n \in Nat
      /\ \A a \in S : floor[a] \in Nat /\ floor[a] = FloorShare(weights, amount, a)
  BY RowsDivide, FS_CardinalityType
<1>2. Cardinality(Extra) = k
  <2> DEFINE R == Precedes(weights, amount)
  <2>1. Orders(R, S) /\ \A a \in S : Before(R, S, a) = Ahead(weights, amount, a)
    BY RowsOrdered
  <2>2. k \in 0..n
    BY LeftoverFits
  <2> HIDE DEF R, S, k, n
  <2>3. \A j \in 0..Cardinality(S) : Cardinality({a \in S : Cardinality(Before(R, S, a)) < j}) = j
    BY <1>1, <2>1, Ranked
  <2>4. {a \in S : Cardinality(Before(R, S, a)) < k} = Extra
    BY <2>1
  <2>5. Cardinality({a \in S : Cardinality(Before(R, S, a)) < k}) = k
    BY <2>2, <2>3 DEF n
  <2> QED
    BY <2>4, <2>5, Zenon
<1>3. \A a \in S : extra[a] = (IF a \in Extra THEN 1 ELSE 0) /\ share[a] = floor[a] + extra[a]
  BY <1>1 DEF Share
<1>4. \A a \in Account \ S : share[a] = 0
  BY DEF Share
<1>5. SumFunctionOnSet(floor, S) = amount - k /\ k \in Int
  <2>1. k \in 0..n /\ SumFunctionOnSet(floor, S) = amount - k
    BY LeftoverFits, Zenon
  <2> HIDE DEF S, k, n, floor
  <2> QED
    BY <1>1, <2>1
<1>6. Extra \in SUBSET S
  OBVIOUS
<1>7. \A a \in Account : share[a] = Share(weights, amount, a)
  OBVIOUS
<1> HIDE DEF S, k, n, floor, Extra, extra, share
<1>8. SumFunctionOnSet(extra, S) = k
  <2>1. IsFiniteSet(S) /\ \A a \in S : extra[a] = IF a \in Extra THEN 1 ELSE 0
    BY <1>1, <1>3
  <2> QED
    BY <2>1, <1>2, <1>6, SumCount
<1>9. SumFunctionOnSet(share, S) = SumFunctionOnSet(floor, S) + SumFunctionOnSet(extra, S)
  <2>1. IsFiniteSet(S) /\ \A a \in S : /\ floor[a] \in Int /\ extra[a] \in Int
                                      /\ share[a] = floor[a] + extra[a]
    BY <1>1, <1>3
  <2> QED
    BY <2>1, SumPlus
<1>10. \A a \in Account : share[a] \in Nat
  BY <1>1, <1>3, <1>4
<1>11. SumFunctionOnSet(share, Account) = SumFunctionOnSet(share, S)
  <2>1. S \in SUBSET Account /\ \A a \in Account : share[a] \in Int
    BY <1>1, <1>10
  <2> QED
    BY <2>1, <1>4, SumOutside
<1>12. SumFunctionOnSet(share, Account) = amount
  BY <1>5, <1>8, <1>9, <1>11
<1> QED
  BY <1>7, <1>10, <1>12 DEF share

\* A row whose share is exact gets no unit more: the rows that leave a remainder go
\* first, and are more than the units left over.
LEMMA ExactGetsNoMore ==
  ASSUME IsFiniteSet(Account), Account \subseteq Int, NEW weights \in [Account -> Nat],
         NEW amount \in Nat, NEW a \in Rows(weights), Remainder(weights, amount, a) = 0
  PROVE  ~(Cardinality(Ahead(weights, amount, a)) < Leftover(weights, amount))
<1> DEFINE S == Rows(weights)
           T == TotalWeight(weights)
           k == Leftover(weights, amount)
           rem == [b \in S |-> Remainder(weights, amount, b)]
           Inexact == {b \in S : rem[b] > 0}
           one == [b \in S |-> IF b \in Inexact THEN 1 ELSE 0]
           most == [b \in S |-> (T - 1) * one[b]]
           m == Cardinality(Inexact)
           ahead == Cardinality(Ahead(weights, amount, a))
<1>1. /\ IsFiniteSet(S) /\ T \in Nat \ {0}
      /\ \A b \in S : Remainder(weights, amount, b) \in Nat
                      /\ Remainder(weights, amount, b) <= T - 1
  BY RowsDivide
<1>2. \A b \in S : rem[b] \in Nat /\ rem[b] <= T - 1
  BY <1>1
<1>3. SumFunctionOnSet(rem, S) = T * k /\ k \in Int
  <2>1. Rows(weights) # {} /\ Cardinality(S) \in Nat
    BY <1>1, FS_CardinalityType
  <2>2. k \in 0..Cardinality(S) /\ SumFunctionOnSet(rem, S) = T * k
    BY <2>1, LeftoverFits, Zenon
  <2> HIDE DEF S, T, k, rem
  <2> QED
    BY <2>1, <2>2
<1>4. Inexact \in SUBSET Ahead(weights, amount, a) /\ Ahead(weights, amount, a) \in SUBSET S
  BY <1>1 DEF Ahead
<1>5. m \in Nat /\ ahead \in Nat /\ m <= ahead /\ Inexact \in SUBSET S
  <2>1. IsFiniteSet(Ahead(weights, amount, a)) /\ IsFiniteSet(Inexact)
        /\ Cardinality(Inexact) <= Cardinality(Ahead(weights, amount, a))
    <3> HIDE DEF S, Inexact
    <3> QED
      BY <1>1, <1>4, FS_Subset
  <2> QED
    BY <2>1, <1>4, FS_CardinalityType
<1>6. \A b \in S : one[b] = (IF b \in Inexact THEN 1 ELSE 0) /\ most[b] = (T - 1) * one[b]
  OBVIOUS
<1>7. \A b \in S : b \notin Inexact => rem[b] <= 0
  BY <1>2
<1> HIDE DEF S, T, k, rem, Inexact, one, most, m, ahead
<1>8. SumFunctionOnSet(one, S) = m
  BY <1>1, <1>5, <1>6, SumCount DEF m
<1>9. \A b \in S : /\ one[b] \in Int /\ most[b] \in Int /\ rem[b] \in Int
                   /\ rem[b] <= most[b]
  <2> SUFFICES ASSUME NEW b \in S
               PROVE  /\ one[b] \in Int /\ most[b] \in Int /\ rem[b] \in Int
                      /\ rem[b] <= most[b]
    OBVIOUS
  <2>1. CASE b \in Inexact
    BY <1>1, <1>2, <1>6, <2>1
  <2>2. CASE b \notin Inexact
    BY <1>1, <1>2, <1>6, <1>7, <2>2
  <2> QED
    BY <2>1, <2>2
<1>10. SumFunctionOnSet(most, S) = (T - 1) * m
  BY <1>1, <1>6, <1>8, <1>9, SumScale
<1>11. T * k <= (T - 1) * m
  <2>1. SumFunctionOnSet(rem, S) <= SumFunctionOnSet(most, S)
    BY <1>1, <1>9, SumMonotonic
  <2> QED
    BY <1>3, <1>10, <2>1
<1>12. ~(m < k)
  <2> SUFFICES ASSUME m <= k - 1 PROVE FALSE
    BY <1>3, <1>5
  <2>1. (T - 1) * m <= (T - 1) * (k - 1)
    BY <1>1, <1>3, <1>5
  <2>2. (T - 1) * (k - 1) = T * k - T - k + 1
    BY <1>1, <1>3
  <2> QED
    BY <1>1, <1>3, <1>5, <1>11, <2>1, <2>2
<1>13. ~(ahead < k)
  BY <1>3, <1>5, <1>12
<1> QED
  BY <1>13 DEF ahead, k

\* buildPushDistribution's and the publisher's split: all of the amount is given out,
\* nothing to who has no weight, less than a unit away from the exact share, and
\* never less to more weight.
THEOREM SplitIsFair ==
  ASSUME IsFiniteSet(Account), Account \subseteq Int, NEW weights \in [Account -> Nat],
         NEW amount \in Nat, Rows(weights) # {}
  PROVE  /\ SumFunctionOnSet([a \in Account |-> Share(weights, amount, a)], Account) = amount
         /\ \A a \in Account :
              LET share == Share(weights, amount, a)
                  total == TotalWeight(weights)
              IN /\ weights[a] = 0 => share = 0
                 /\ share * total < amount * weights[a] + total
                 /\ share * total > amount * weights[a] - total
         /\ \A g, h \in Account :
              weights[g] > weights[h] => Share(weights, amount, g) >= Share(weights, amount, h)
<1> DEFINE S == Rows(weights)
           T == TotalWeight(weights)
           share(a) == Share(weights, amount, a)
           floor(a) == FloorShare(weights, amount, a)
           rem(a) == Remainder(weights, amount, a)
           more(a) == Cardinality(Ahead(weights, amount, a)) < Leftover(weights, amount)
<1>1. /\ IsFiniteSet(S) /\ S \subseteq Account /\ T \in Nat \ {0}
      /\ \A a \in S : /\ amount * weights[a] = T * floor(a) + rem(a)
                      /\ floor(a) \in Nat /\ rem(a) \in Nat /\ rem(a) <= T - 1
  BY RowsDivide
<1>2. /\ \A a \in Account : weights[a] \in Nat
      /\ \A a \in Account \ S : weights[a] = 0 /\ share(a) = 0
      /\ \A a \in S : share(a) = floor(a) + (IF more(a) THEN 1 ELSE 0) /\ weights[a] > 0
  BY DEF Rows, Share
<1>3. \A a \in S : rem(a) = 0 => ~more(a)
  BY ExactGetsNoMore
<1>4. Leftover(weights, amount) \in Int
  <2>1. Leftover(weights, amount) \in 0..Cardinality(Rows(weights))
    BY LeftoverFits, Zenon
  <2> QED
    BY <1>1, <2>1, FS_CardinalityType
<1>5. ASSUME NEW g \in S, NEW h \in S, more(h),
             rem(g) > rem(h) \/ (rem(g) = rem(h) /\ g = h)
      PROVE  more(g)
  <2>1. Ahead(weights, amount, g) \in SUBSET Ahead(weights, amount, h)
    <3> SUFFICES ASSUME NEW b \in Ahead(weights, amount, g)
                 PROVE  b \in Ahead(weights, amount, h)
      OBVIOUS
    <3>1. b \in S /\ rem(b) \in Nat /\ rem(g) \in Nat /\ rem(h) \in Nat
      BY <1>1 DEF Ahead
    <3> QED
      BY <1>5, <3>1 DEF Ahead
  <2>2. IsFiniteSet(Ahead(weights, amount, h)) /\ IsFiniteSet(Ahead(weights, amount, g))
    BY <1>1, FS_Subset DEF Ahead
  <2>3. /\ Cardinality(Ahead(weights, amount, g)) <= Cardinality(Ahead(weights, amount, h))
        /\ Cardinality(Ahead(weights, amount, g)) \in Nat
        /\ Cardinality(Ahead(weights, amount, h)) \in Nat
    BY <2>1, <2>2, FS_Subset, FS_CardinalityType
  <2> QED
    BY <1>4, <1>5, <2>3
<1> HIDE DEF S, T, share, floor, rem, more
<1>6. ASSUME NEW a \in S
      PROVE  /\ share(a) * T < amount * weights[a] + T
             /\ share(a) * T > amount * weights[a] - T
  <2>1. /\ amount * weights[a] = T * floor(a) + rem(a) /\ T \in Nat \ {0}
        /\ floor(a) \in Nat /\ rem(a) \in Nat /\ rem(a) <= T - 1
    BY <1>1
  <2>2. CASE more(a)
    <3>1. share(a) = floor(a) + 1 /\ rem(a) # 0
      BY <1>2, <1>3, <2>2
    <3>2. share(a) * T = T * floor(a) + T
      BY <2>1, <3>1
    <3> QED
      BY <2>1, <3>1, <3>2
  <2>3. CASE ~more(a)
    <3>1. share(a) = floor(a) + 0
      BY <1>2, <2>3
    <3>2. share(a) * T = T * floor(a)
      BY <2>1, <3>1
    <3> QED
      BY <2>1, <3>2
  <2> QED
    BY <2>2, <2>3
<1>7. ASSUME NEW a \in Account \ S
      PROVE  /\ share(a) * T < amount * weights[a] + T
             /\ share(a) * T > amount * weights[a] - T
  <2>1. share(a) = 0 /\ weights[a] = 0
    BY <1>2
  <2>2. share(a) * T = 0 /\ amount * weights[a] = 0
    BY <1>1, <2>1
  <2> QED
    BY <1>1, <2>2
<1>8. ASSUME NEW g \in S, NEW h \in S, weights[g] > weights[h]
      PROVE  share(g) >= share(h)
  <2>1. /\ amount * weights[g] = T * floor(g) + rem(g) /\ T \in Nat \ {0}
        /\ floor(g) \in Nat /\ rem(g) \in Nat /\ rem(g) <= T - 1
        /\ amount * weights[h] = T * floor(h) + rem(h)
        /\ floor(h) \in Nat /\ rem(h) \in Nat /\ rem(h) <= T - 1
        /\ weights[g] \in Nat /\ weights[h] \in Nat
    BY <1>1, <1>2
  <2>2. amount * weights[h] <= amount * weights[g]
    BY <1>8, <2>1
  <2>3. floor(h) <= floor(g)
    <3> SUFFICES ASSUME floor(h) >= floor(g) + 1 PROVE FALSE
      BY <2>1
    <3>1. T * floor(h) >= T * (floor(g) + 1)
      BY <2>1
    <3>2. T * (floor(g) + 1) = T * floor(g) + T
      BY <2>1
    <3> QED
      BY <2>1, <2>2, <3>1, <3>2
  <2>4. /\ share(g) = floor(g) \/ share(g) = floor(g) + 1
        /\ share(h) = floor(h) \/ share(h) = floor(h) + 1
    BY <1>2, <2>1
  <2>5. CASE floor(h) < floor(g)
    BY <2>1, <2>4, <2>5
  <2>6. CASE floor(h) = floor(g) /\ ~more(h)
    <3>1. share(h) = floor(h) + 0
      BY <1>2, <2>6
    <3> QED
      BY <2>1, <2>4, <2>6, <3>1
  <2>7. CASE floor(h) = floor(g) /\ more(h)
    <3>1. rem(h) <= rem(g)
      BY <2>1, <2>2, <2>7
    <3>2. rem(h) # rem(g)
      <4> SUFFICES ASSUME rem(h) = rem(g) PROVE FALSE
        OBVIOUS
      <4>1. amount * weights[h] = amount * weights[g]
        BY <2>1, <2>7
      <4>2. amount = 0
        <5> SUFFICES ASSUME amount >= 1 PROVE FALSE
          OBVIOUS
        <5>1. amount * weights[g] = amount * weights[h] + amount * (weights[g] - weights[h])
          BY <2>1
        <5>2. amount * (weights[g] - weights[h]) >= 1
          <6>1. weights[g] - weights[h] \in Nat /\ weights[g] - weights[h] >= 1
            BY <1>8, <2>1
          <6> QED
            BY <6>1
        <5>3. /\ amount * weights[h] \in Int /\ amount * weights[g] \in Int
              /\ amount * (weights[g] - weights[h]) \in Int
          BY <2>1
        <5> QED
          BY <4>1, <5>1, <5>2, <5>3
      <4>3. T * floor(h) + rem(h) = 0
        BY <2>1, <4>2
      <4>4. T * floor(h) >= 0
        BY <2>1
      <4>5. rem(h) = 0
        BY <2>1, <4>3, <4>4
      <4> QED
        BY <1>3, <2>7, <4>5
    <3>3. more(g)
      <4>1. rem(g) > rem(h)
        BY <2>1, <3>1, <3>2
      <4> QED
        BY <1>5, <2>7, <4>1
    <3>4. share(g) = floor(g) + 1
      BY <1>2, <3>3
    <3> QED
      BY <2>1, <2>4, <2>7, <3>4
  <2> QED
    BY <2>1, <2>3, <2>5, <2>6, <2>7
<1>9. ASSUME NEW g \in Account, NEW h \in Account, weights[g] > weights[h]
      PROVE  share(g) >= share(h)
  <2>1. g \in S
    BY <1>2, <1>9
  <2>2. CASE h \notin S
    <3>1. share(h) = 0
      BY <1>2, <2>2
    <3>2. share(g) \in Nat
      BY <1>1, <1>2, <2>1
    <3> QED
      BY <3>1, <3>2
  <2> QED
    BY <1>8, <1>9, <2>1, <2>2
<1>10. \A a \in Account : weights[a] = 0 => share(a) = 0
  BY <1>1, <1>2
<1>11. SumFunctionOnSet([a \in Account |-> Share(weights, amount, a)], Account) = amount
  BY SplitAddsUp
<1> QED
  BY <1>6, <1>7, <1>9, <1>10, <1>11 DEF share, T

-----------------------------------------------------------------------------
(* The holding weights                                                     *)

Lot == [amount : Nat, acquired : Int]
Ids == {Transfers[t].id : t \in DOMAIN Transfers}
EngineState ==
  [start : Int, end : Int, seen : SUBSET Ids, overdrawn : BOOLEAN,
   lots : [Account -> Seq(Lot)], weights : [Account -> Nat], accruedTo : [Account -> Int]]

\* What the engine adds up is a natural number.
LEMMA EngineSum ==
  ASSUME NEW f, IsFiniteSet(DOMAIN f), \A x \in DOMAIN f : f[x] \in Nat
  PROVE  Engine!SumFunction(f) \in Nat
<1>1. SumFunctionOnSet(f, DOMAIN f) \in Nat
  BY SumNat
<1>2. Engine!SumFunction(f) = SumFunctionOnSet(f, DOMAIN f)
  BY DEF Engine!SumFunction, Engine!SumFunctionOnSet, Engine!FoldFunctionOnSet,
         Engine!MapThenFoldSet, SumFunctionOnSet, FoldFunctionOnSet, MapThenFoldSet
<1> QED
  BY <1>1, <1>2

\* So is what a lot earns.
LEMMA EarnedNat ==
  ASSUME NEW lot \in Lot, NEW from \in Int, NEW to \in Int
  PROVE  Engine!Earned(lot, from, to) \in Nat
<1> DEFINE first(h) == Engine!Greatest(Engine!Greatest(from, lot.acquired), lot.acquired + h * Hour)
           last(h) == IF h = Engine!MaxLoyaltyHours THEN to
                      ELSE Engine!Least(to, lot.acquired + (h + 1) * Hour)
           seconds(h) == Engine!Greatest(0, last(h) - first(h))
           term == [h \in 0..Engine!MaxLoyaltyHours |->
                      (lot.amount * seconds(h) * Loyalty[h + 1]) \div BaseBps]
<1>1. /\ Engine!MaxLoyaltyHours = Len(Loyalty) - 1 /\ Len(Loyalty) \in Nat \ {0}
      /\ Hour \in Nat /\ BaseBps \in Nat \ {0} /\ Loyalty \in Seq(Nat)
  BY PublisherAssumption DEF Engine!MaxLoyaltyHours
<1>2. ASSUME NEW h \in 0..Engine!MaxLoyaltyHours
      PROVE  term[h] \in Nat
  <2>1. h \in Nat /\ h + 1 \in 1..Len(Loyalty) /\ lot.acquired \in Int /\ lot.amount \in Nat
    BY <1>1 DEF Lot
  <2>2. lot.acquired + h * Hour \in Int /\ lot.acquired + (h + 1) * Hour \in Int
    BY <1>1, <2>1
  <2>3. first(h) \in Int /\ last(h) \in Int
    BY <2>1, <2>2 DEF Engine!Greatest, Engine!Least
  <2> HIDE DEF first, last
  <2>4. seconds(h) \in Nat
    BY <2>3 DEF Engine!Greatest
  <2>5. Loyalty[h + 1] \in Nat
    BY <1>1, <2>1
  <2> HIDE DEF seconds
  <2> DEFINE product == lot.amount * seconds(h) * Loyalty[h + 1]
  <2>6. product \in Nat
    BY <2>1, <2>4, <2>5
  <2>7. term[h] = product \div BaseBps
    BY DEF seconds, first, last
  <2> HIDE DEF product
  <2>8. \A n \in Nat, d \in Nat \ {0} : n \div d \in Nat
    OBVIOUS
  <2> QED
    BY <1>1, <2>6, <2>7, <2>8
<1>3. Engine!Earned(lot, from, to) = Engine!SumFunction(term)
  BY DEF Engine!Earned
<1>4. DOMAIN term = 0..Engine!MaxLoyaltyHours /\ IsFiniteSet(0..Engine!MaxLoyaltyHours)
  BY <1>1, FS_Interval
<1> HIDE DEF term
<1> QED
  BY <1>2, <1>3, <1>4, EngineSum

\* A holder's weight and time advance; nothing else changes.
LEMMA AccrueFits ==
  ASSUME NEW e \in EngineState, NEW h \in Account, NEW until \in Int
  PROVE  Engine!Accrue(e, h, until) \in EngineState
<1> DEFINE from == Engine!Greatest(e.accruedTo[h], e.start)
           to == Engine!Least(until, e.end)
           term == [i \in DOMAIN e.lots[h] |-> Engine!Earned(e.lots[h][i], from, to)]
           earned == Engine!SumFunction(term)
           more == IF to <= from \/ h \in {} THEN 0 ELSE earned
           next == [e EXCEPT !.accruedTo[h] = to, !.weights[h] = @ + more]
<1>1. from \in Int /\ to \in Int
  BY DEF EngineState, Engine!Greatest, Engine!Least
<1>2. e.lots[h] \in Seq(Lot)
  BY DEF EngineState
<1>3. \A i \in DOMAIN e.lots[h] : e.lots[h][i] \in Lot
  BY <1>2, ElementsOf
<1> HIDE DEF from, to
<1>4. \A i \in DOMAIN term : term[i] \in Nat
  BY <1>1, <1>3, EarnedNat
<1>5. IsFiniteSet(DOMAIN term)
  <2>1. DOMAIN term = 1..Len(e.lots[h]) /\ Len(e.lots[h]) \in Nat
    BY <1>2
  <2> QED
    BY <2>1, FS_Interval
<1>6. Engine!Accrue(e, h, until) = next
  BY DEF Engine!Accrue, from, to
<1> HIDE DEF term
<1>7. earned \in Nat
  BY <1>4, <1>5, EngineSum
<1>8. more \in Nat
  BY <1>7
<1> HIDE DEF more
<1>9. next \in EngineState
  <2> DEFINE times == [e.accruedTo EXCEPT ![h] = to]
             sums == [e.weights EXCEPT ![h] = @ + more]
  <2>1. times \in [Account -> Int] /\ sums \in [Account -> Nat]
    BY <1>1, <1>8 DEF EngineState
  <2>2. next = [e EXCEPT !.accruedTo = times, !.weights = sums]
    BY DEF EngineState
  <2> HIDE DEF times, sums, next
  <2> QED
    BY <2>1, <2>2 DEF EngineState
<1> QED
  BY <1>6, <1>9

\* What is left of some lots are lots.
LEMMA FirstUnitsFits ==
  ASSUME NEW lots \in Seq(Lot), NEW units \in Int
  PROVE  Engine!FirstUnits(lots, units) \in Seq(Lot)
<1> DEFINE before(i) == Engine!Total(SubSeq(lots, 1, i - 1))
           Kept == {i \in DOMAIN lots : before(i) < units}
           n == Cardinality(Kept)
           left(i) == [lots[i] EXCEPT
                         !.amount = Engine!Least(@, Engine!Greatest(0, units - before(i)))]
<1>1. n \in Nat /\ n <= Len(lots)
  <2>1. DOMAIN lots = 1..Len(lots) /\ Len(lots) \in Nat
    OBVIOUS
  <2>2. IsFiniteSet(1..Len(lots)) /\ Cardinality(1..Len(lots)) = Len(lots)
    BY <2>1, FS_Interval
  <2>3. Kept \subseteq 1..Len(lots)
    BY <2>1
  <2> HIDE DEF Kept
  <2>4. IsFiniteSet(Kept) /\ Cardinality(Kept) <= Len(lots)
    BY <2>2, <2>3, FS_Subset
  <2> QED
    BY <2>4, FS_CardinalityType
<1>2. ASSUME NEW i \in 1..n PROVE left(i) \in Lot
  <2>1. i \in DOMAIN lots /\ i \in 1..Len(lots) /\ lots[i] \in Lot
    BY <1>1
  <2>2. before(i) \in Nat
    <3> DEFINE front == SubSeq(lots, 1, i - 1)
               amounts == [j \in DOMAIN front |-> front[j].amount]
    <3>1. front \in Seq(Lot)
      BY <2>1
    <3>2. \A j \in DOMAIN front : front[j] \in Lot
      BY <3>1, ElementsOf
    <3>3. DOMAIN front = 1..Len(front) /\ Len(front) \in Nat
      BY <3>1
    <3> HIDE DEF front
    <3>4. \A j \in DOMAIN amounts : amounts[j] \in Nat
      BY <3>2 DEF Lot
    <3>5. IsFiniteSet(DOMAIN amounts)
      BY <3>3, FS_Interval
    <3>6. Engine!Total(front) = Engine!SumFunction(amounts)
      BY DEF Engine!Total
    <3> HIDE DEF amounts
    <3> QED
      BY <3>4, <3>5, <3>6, EngineSum DEF front
  <2> HIDE DEF before
  <2>3. lots[i].amount \in Nat /\ units - before(i) \in Int
    BY <2>1, <2>2 DEF Lot
  <2>4. Engine!Least(lots[i].amount, Engine!Greatest(0, units - before(i))) \in Nat
    BY <2>3 DEF Engine!Least, Engine!Greatest
  <2> QED
    BY <2>1, <2>4 DEF Lot
<1>3. Engine!FirstUnits(lots, units) = [i \in 1..n |-> left(i)]
  <2>1. Engine!Cardinality(Kept) = n
    <3> HIDE DEF Kept
    <3> QED
      BY DEF Engine!Cardinality, Cardinality
  <2>2. Engine!FirstUnits(lots, units) = [i \in 1..Engine!Cardinality(Kept) |-> left(i)]
    BY DEF Engine!FirstUnits
  <2> QED
    BY <2>1, <2>2
<1> HIDE DEF n, left
<1> QED
  BY <1>1, <1>2, <1>3

\* Every lot of a holder adds to what he has, which is a natural number.
LEMMA TotalNat ==
  ASSUME NEW lots \in Seq(Lot)
  PROVE  Engine!Total(lots) \in Nat
<1> DEFINE amounts == [j \in DOMAIN lots |-> lots[j].amount]
<1>1. \A j \in DOMAIN lots : lots[j] \in Lot
  BY ElementsOf
<1>2. DOMAIN lots = 1..Len(lots) /\ Len(lots) \in Nat
  OBVIOUS
<1>3. \A j \in DOMAIN amounts : amounts[j] \in Nat
  BY <1>1 DEF Lot
<1>4. IsFiniteSet(DOMAIN amounts)
  BY <1>2, FS_Interval
<1>5. Engine!Total(lots) = Engine!SumFunction(amounts)
  BY DEF Engine!Total
<1> HIDE DEF amounts
<1> QED
  BY <1>3, <1>4, <1>5, EngineSum

\* Taking units from the oldest lots leaves lots, so what remains can be weighed.
LEMMA ConsumeFits ==
  ASSUME NEW e \in EngineState, NEW h \in Account, NEW amount \in Nat
  PROVE  Engine!Consume(e, h, amount) \in EngineState
<1> DEFINE lots == e.lots[h]
           rest == Engine!FirstUnits(lots, Engine!Total(lots) - amount)
           left == [e.lots EXCEPT ![h] = rest]
<1>1. lots \in Seq(Lot)
  BY DEF EngineState
<1> HIDE DEF lots
<1>2. Engine!Total(lots) - amount \in Int
  BY <1>1, TotalNat
<1>3. rest \in Seq(Lot)
  BY <1>1, <1>2, FirstUnitsFits
<1> HIDE DEF rest
<1>4. left \in [Account -> Seq(Lot)]
  BY <1>3 DEF EngineState
<1> HIDE DEF left
<1>5. [e EXCEPT !.overdrawn = TRUE] \in EngineState /\ [e EXCEPT !.lots = left] \in EngineState
  BY <1>4 DEF EngineState
<1>6. \/ Engine!Consume(e, h, amount) = [e EXCEPT !.overdrawn = TRUE]
      \/ Engine!Consume(e, h, amount) = [e EXCEPT !.lots = left]
  BY DEF Engine!Consume, left, rest, lots
<1> QED
  BY <1>5, <1>6, Zenon

\* A movement of the history.
Moves(m) ==
  /\ m.id \in Ids /\ m.time \in Nat /\ m.amount \in Nat
  /\ m.from \in Account \cup {NoOne} /\ m.to \in Account \cup {NoOne}

\* A transfer applied to the engine leaves it an engine state whose weights are
\* naturals.
LEMMA ApplyFits ==
  ASSUME NEW e \in EngineState, NEW m, Moves(m)
  PROVE  Engine!Apply(e, m) \in EngineState
<1> DEFINE marked == [e EXCEPT !.seen = @ \cup {m.id}]
           given == Engine!Give(marked, m)
           accrued == Engine!Accrue(given, m.to, m.time)
           lot == [amount |-> m.amount, acquired |-> m.time]
           more == Append(accrued.lots[m.to], lot)
           left == [accrued.lots EXCEPT ![m.to] = more]
<1>1. marked \in EngineState
  <2> DEFINE seen == e.seen \cup {m.id}
  <2>1. seen \in SUBSET Ids
    BY DEF EngineState, Moves
  <2> HIDE DEF seen
  <2>2. [e EXCEPT !.seen = seen] \in EngineState
    BY <2>1 DEF EngineState
  <2> QED
    BY <2>2 DEF seen
<1> HIDE DEF marked
<1>2. given \in EngineState
  <2>1. CASE m.from = NoOne
    BY <1>1, <2>1 DEF Engine!Give
  <2>2. CASE m.from # NoOne
    <3>1. m.from \in Account /\ m.time \in Int /\ m.amount \in Nat
      BY <2>2 DEF Moves
    <3>2. Engine!Accrue(marked, m.from, m.time) \in EngineState
      BY <1>1, <3>1, AccrueFits
    <3> QED
      BY <2>2, <3>1, <3>2, ConsumeFits DEF Engine!Give
  <2> QED
    BY <2>1, <2>2
<1> HIDE DEF given
<1>3. Engine!Take(given, m) \in EngineState
  <2>1. CASE m.to = NoOne
    BY <1>2, <2>1 DEF Engine!Take
  <2>2. CASE m.to # NoOne
    <3>1. m.to \in Account /\ m.time \in Int /\ m.amount \in Nat
      BY <2>2 DEF Moves
    <3>2. accrued \in EngineState
      BY <1>2, <3>1, AccrueFits
    <3> HIDE DEF accrued
    <3>3. lot \in Lot /\ accrued.lots[m.to] \in Seq(Lot)
      BY <3>1, <3>2 DEF Lot, EngineState
    <3> HIDE DEF lot
    <3>4. more \in Seq(Lot)
      BY <3>3
    <3> HIDE DEF more
    <3>5. left \in [Account -> Seq(Lot)]
      BY <3>2, <3>4 DEF EngineState
    <3> HIDE DEF left
    <3>6. [accrued EXCEPT !.lots = left] \in EngineState
      BY <3>2, <3>5 DEF EngineState
    <3>7. Engine!Take(given, m) = [accrued EXCEPT !.lots = left]
      BY <2>2 DEF Engine!Take, accrued, left, more, lot
    <3> QED
      BY <3>6, <3>7, Zenon
  <2> QED
    BY <2>1, <2>2
<1>4. Engine!Apply(e, m) \in {e, marked, Engine!Take(given, m)}
  <2>1. e.end \in Int /\ m.time \in Int
    BY DEF EngineState, Moves
  <2>2. CASE m.time > e.end \/ m.id \in e.seen
    BY <2>1, <2>2 DEF Engine!Apply
  <2>3. CASE m.time <= e.end /\ m.id \notin e.seen
    BY <2>1, <2>3 DEF Engine!Apply, marked, given
  <2> QED
    BY <2>1, <2>2, <2>3
<1> QED
  BY <1>1, <1>3, <1>4

\* The engine after each of the first n movements.
AreStates(g, moves, start, end, n) ==
  g = [i \in 0..n |-> IF i = 0 THEN Engine!Fresh(start, end)
                      ELSE Engine!Apply(g[i - 1], moves[i])]
States(moves, start, end, n) == CHOOSE g : AreStates(g, moves, start, end, n)

\* Every finite list of transfers has its list of engine states: the shortest prefix
\* without one would have a predecessor with one.
LEMMA StatesExist ==
  ASSUME NEW moves, NEW start, NEW end, NEW n \in Nat
  PROVE  AreStates(States(moves, start, end, n), moves, start, end, n)
<1> DEFINE Bad == {m \in Nat : ~ \E g : AreStates(g, moves, start, end, m)}
           Step(e, i) == Engine!Apply(e, moves[i])
           fresh == Engine!Fresh(start, end)
<1> SUFFICES ASSUME Bad # {} PROVE FALSE
  BY DEF States
<1>1. PICK m \in Bad : \A k \in Bad : m <= k
  <2>1. Bad \in SUBSET Nat
    OBVIOUS
  <2> HIDE DEF Bad
  <2> QED
    BY <2>1, LeastNumber
<1>2. CASE m = 0
  <2> DEFINE g == [i \in 0..m |-> fresh]
  <2>1. AreStates(g, moves, start, end, m)
    BY <1>2 DEF AreStates
  <2> QED
    BY <2>1
<1>3. CASE m # 0
  <2>1. m - 1 \in Nat /\ m - 1 \notin Bad
    BY <1>1, <1>3
  <2>2. PICK h : AreStates(h, moves, start, end, m - 1)
    BY <2>1
  <2> DEFINE g == [i \in 0..m |-> IF i = m THEN Step(h[m - 1], m) ELSE h[i]]
  <2>3. ASSUME NEW i \in 0..m
        PROVE  g[i] = IF i = 0 THEN fresh ELSE Step(g[i - 1], i)
    <3> HIDE DEF Step, fresh
    <3>1. CASE i = m
      BY <1>3, <3>1
    <3>2. CASE i # m
      <4>1. i \in 0..(m - 1) /\ (i # 0 => i - 1 \in 0..m /\ i - 1 # m)
        BY <3>2
      <4>2. h[i] = IF i = 0 THEN fresh ELSE Step(h[i - 1], i)
        BY <2>2, <4>1 DEF AreStates, Step, fresh
      <4>3. g[i] = h[i] /\ (i # 0 => g[i - 1] = h[i - 1])
        BY <3>2, <4>1
      <4> QED
        BY <4>2, <4>3
    <3> QED
      BY <3>1, <3>2
  <2>4. AreStates(g, moves, start, end, m)
    BY <2>3 DEF AreStates
  <2> QED
    BY <2>4
<1> QED
  BY <1>2, <1>3

\* The replay of a list of transfers ends in an engine state, whatever the list.
LEMMA ReplayFits ==
  ASSUME NEW moves, NEW n \in Nat, DOMAIN moves = 1..n, Len(moves) = n,
         \A i \in 1..n : Moves(moves[i]), NEW start \in Int, NEW end \in Int
  PROVE  Engine!Replayed(moves, start, end) \in EngineState
<1> DEFINE g == States(moves, start, end, n)
           Bad == {i \in 0..n : g[i] \notin EngineState}
           fresh == Engine!Fresh(start, end)
<1>1. Engine!Replayed(moves, start, end) = g[n]
  BY DEF Engine!Replayed, States, AreStates
<1>2. AreStates(g, moves, start, end, n)
  BY StatesExist
<1>3. g[0] = fresh /\ fresh \in EngineState
  <2>1. g[0] = fresh
    BY <1>2 DEF AreStates
  <2> DEFINE noLots == [h \in Account |-> <<>>]
             none == [h \in Account |-> 0]
             starts == [h \in Account |-> start]
  <2>2. noLots \in [Account -> Seq(Lot)] /\ none \in [Account -> Nat] /\ starts \in [Account -> Int]
    OBVIOUS
  <2>3. fresh = [start |-> start, end |-> end, seen |-> {}, overdrawn |-> FALSE,
                 lots |-> noLots, weights |-> none, accruedTo |-> starts]
    BY DEF Engine!Fresh
  <2> HIDE DEF noLots, none, starts, fresh
  <2> QED
    BY <2>1, <2>2, <2>3 DEF EngineState
<1> HIDE DEF g, fresh
<1>4. Bad = {}
  <2> SUFFICES ASSUME Bad # {} PROVE FALSE
    OBVIOUS
  <2>1. PICK i \in Bad : \A k \in Bad : i <= k
    <3>1. Bad \in SUBSET Nat
      OBVIOUS
    <3> HIDE DEF Bad
    <3> QED
      BY <3>1, LeastNumber
  <2>2. i \in 1..n
    BY <1>3
  <2>3. i - 1 \in 0..n /\ ~(i <= i - 1)
    BY <2>2
  <2>4. i - 1 \notin Bad
    <3> HIDE DEF Bad
    <3> QED
      BY <2>1, <2>3
  <2>5. g[i - 1] \in EngineState
    BY <2>3, <2>4
  <2>6. g[i] = Engine!Apply(g[i - 1], moves[i])
    BY <1>2, <2>2 DEF AreStates
  <2>7. g[i] \in EngineState
    BY <2>2, <2>5, <2>6, ApplyFits
  <2> QED
    BY <2>1, <2>7
<1> QED
  BY <1>1, <1>4

\* The events of the cache, in order, are the movements the weights are of.
LEMMA WeightsFit ==
  ASSUME transferCache.events \subseteq DOMAIN Transfers,
         draft.windowStart \in Int, draft.windowEnd \in Int
  PROVE  HolderWeights \in [Account -> Nat]
<1> DEFINE events == transferCache.events
           n == Cardinality(events)
           R == {p \in events \X events : p[1] < p[2]}
           place(e) == Cardinality({f \in events : f <= e})
           nth(i) == CHOOSE e \in events : place(e) = i
           moves == [i \in 1..n |-> Transfers[nth(i)]]
           replayed == Engine!Replayed(moves, draft.windowStart, draft.windowEnd)
<1>1. IsFiniteSet(events) /\ n \in Nat /\ events \subseteq Nat
  <2>1. IsFiniteSet(DOMAIN Transfers) /\ DOMAIN Transfers \subseteq Nat
    BY TransfersAssumption
  <2> QED
    BY <2>1, FS_Subset, FS_CardinalityType
<1> HIDE DEF events
<1>2. ASSUME NEW i \in 1..n PROVE nth(i) \in events
  <2>1. Orders(R, events)
    BY <1>1 DEF Orders
  <2>0. \A x, y \in events : <<y, x>> \in R <=> y < x
    OBVIOUS
  <2> HIDE DEF R
  <2>2. i - 1 \in 0..(n - 1)
    BY <1>1
  <2>3. PICK e \in events : Cardinality(Before(R, events, e)) = i - 1
    BY <1>1, <2>1, <2>2, Ranked
  <2>4. {f \in events : f <= e} = Before(R, events, e) \cup {e}
    <3>1. Before(R, events, e) = {f \in events : f < e}
      BY <2>0 DEF Before
    <3>2. \A f \in events : f \in Int /\ e \in Int /\ (f <= e <=> f < e \/ f = e)
      BY <1>1
    <3>3. {f \in events : f <= e} = {f \in events : f < e} \cup {e}
      BY <3>2
    <3> QED
      BY <3>1, <3>3
  <2>5. e \notin Before(R, events, e) /\ IsFiniteSet(Before(R, events, e))
    <3>1. e \notin Before(R, events, e) /\ Before(R, events, e) \subseteq events
      BY <1>1, <2>0 DEF Before
    <3> QED
      BY <1>1, <3>1, FS_Subset
  <2>6. Cardinality(Before(R, events, e) \cup {e}) = (i - 1) + 1
    BY <2>3, <2>5, FS_AddElement
  <2>7. place(e) = i
    BY <2>2, <2>4, <2>6
  <2> HIDE DEF place
  <2> QED
    BY <2>7
<1> HIDE DEF nth
<1>3. \A i \in 1..n : Moves(moves[i])
  <2>1. \A i \in 1..n : moves[i] = Transfers[nth(i)] /\ nth(i) \in DOMAIN Transfers
    BY <1>2 DEF events
  <2>2. \A t \in DOMAIN Transfers : Moves(Transfers[t])
    BY TransfersAssumption, PublisherAssumption DEF Moves, Ids
  <2> HIDE DEF moves
  <2> QED
    BY <2>1, <2>2
<1>4. DOMAIN moves = 1..n /\ Len(moves) = n
  BY <1>1
<1> HIDE DEF moves
<1>5. replayed \in EngineState
  BY <1>1, <1>3, <1>4, ReplayFits
<1>6. Replayed = replayed
  BY DEF Replayed, replayed, moves, nth, place, n, events
<1> HIDE DEF replayed
<1>7. HolderWeights = [h \in Account |-> Engine!Accrue(replayed, h, replayed.end).weights[h]]
  BY <1>6 DEF HolderWeights, Engine!Weights
<1>8. \A h \in Account : Engine!Accrue(replayed, h, replayed.end) \in EngineState
  BY <1>5, AccrueFits DEF EngineState
<1>9. \A h \in Account : Engine!Accrue(replayed, h, replayed.end).weights[h] \in Nat
  BY <1>8 DEF EngineState
<1> QED
  BY <1>7, <1>9

-----------------------------------------------------------------------------
(* What the variables hold                                                 *)

File ==
  [status : {"none", "prepared", "published", "published-recovered"}, windowStart : Nat,
   windowEnd : Nat, reward : Int, allocated : Nat, root : [Account -> Nat]]
Tx ==
  [epoch : Epochs, root : [Account -> Nat], allocated : Nat,
   outcome : {"pending", "published", "reverted", "dropped"}]
State ==
  [latestEpoch : 0..MaxEpochs, lastWindowEnd : Nat, cumulative : [Account -> Nat],
   cadence : Cadence]

View ==
  [block : Nat, epoch : Nat, root : [Account -> Nat], allocated : Nat, claimed : Nat]

\* The steps in which the tick repairs, has a draft, has written it, has seen its receipt.
Repairing == {"recovered", "refiled", "shown"}
Confirmed == {"mined", "filed", "latest", "listed"}
Snapshotted == {"prepared", "sent"} \cup Confirmed
Drafted == {"due", "read", "indexed"} \cup Snapshotted

ChainTypeOK == VaultTypeOK /\ now \in Nat /\ txs \in Seq(Tx)
FilesTypeOK ==
  /\ state \in State
  /\ epochFiles \in [Epochs -> File]
  /\ latestFile \in 0..MaxEpochs /\ history \subseteq Epochs
  /\ transferCache \in [lastIndexedBlock : Int, events : SUBSET DOMAIN Transfers]
MemoryTypeOK ==
  /\ step \in {"idle", "reading", "matched"} \cup Repairing \cup Drafted
  /\ view \in View
  /\ draft \in File
GhostsTypeOK ==
  recounted \subseteq Nat /\ skipped \subseteq Nat /\ aboveSince \in [Levels -> Nat \cup {None}]

TypeOK == ChainTypeOK /\ FilesTypeOK /\ MemoryTypeOK /\ GhostsTypeOK

\* Epochs in step: the state lags the chain by one epoch at most, and no
\* transaction is for an epoch beyond the next; one that is mined or refused is
\* for an epoch the chain has reached, so the receipt the tick waits for shows
\* that the epoch is published, by that transaction or an earlier one.
StagesInStep ==
  /\ state.latestEpoch <= latestEpoch /\ latestEpoch <= state.latestEpoch + 1
  /\ latestEpoch <= MaxEpochs
  /\ \A i \in DOMAIN txs :
       /\ txs[i].epoch <= state.latestEpoch + 1
       /\ txs[i].outcome = "pending" =>
            txs[i].epoch <= latestEpoch \/ Accepts(txs[i].epoch, txs[i].allocated)
       /\ txs[i].outcome \in {"published", "reverted"} => txs[i].epoch <= latestEpoch
       /\ step \in Repairing => txs[i].epoch <= state.latestEpoch
  /\ step \in Repairing => state.latestEpoch > 0 /\ latestEpoch = state.latestEpoch
  /\ step \in Snapshotted => state.latestEpoch < MaxEpochs
  /\ step = "sent" => txs # <<>> /\ txs[Len(txs)].epoch = state.latestEpoch + 1
  /\ step \in Confirmed => latestEpoch = state.latestEpoch + 1

\* What a tick has read is the chain's, of now or of before; it goes on only with
\* the epoch its state has (once it is repaired).
ViewInStep ==
  /\ step # "idle" => view.epoch <= latestEpoch /\ view.block <= now
  /\ step \notin {"idle", "reading"} => view.epoch = state.latestEpoch

EpochsInStep == StagesInStep /\ ViewInStep

-----------------------------------------------------------------------------
(* The steps                                                               *)

\* A step of the tick that leaves the chain alone.
Quietly(A) == A /\ UNCHANGED <<vaultVars, now, txs, ghostVars>>
Preparing == Prepare /\ UNCHANGED <<vaultVars, now, txs, skipped, aboveSince>>

PublishTx(i) ==
  /\ PublishDistribution(txs[i].epoch, txs[i].root, txs[i].allocated)
  /\ txs' = [txs EXCEPT ![i].outcome = "published"]
RevertTx(i) ==
  /\ ~Accepts(txs[i].epoch, txs[i].allocated)
  /\ txs' = [txs EXCEPT ![i].outcome = "reverted"]
  /\ UNCHANGED vaultVars

\* A step is an action of the publisher that leaves the chain alone, a stop, a
\* transaction sent, mined or dropped, or a step of the vault or of time.
LEMMA StepCases ==
  ASSUME [Next]_vars
  PROVE  \/ Quietly(Begin) \/ \E q \in DOMAIN view : Quietly(Answer(q))
         \/ Quietly(Recover) \/ Quietly(SaveRecoveredFile) \/ Quietly(SaveRecoveredLatest)
         \/ Quietly(ListRecovered) \/ Quietly(Match) \/ Quietly(NothingNew) \/ Quietly(ReadReward)
         \/ Quietly(UpdateTransferCache) \/ Preparing \/ Quietly(Await)
         \/ Quietly(PublishFile) \/ Quietly(PublishLatest) \/ Quietly(PublishHistory)
         \/ Quietly(SaveState)
         \/ Stop /\ UNCHANGED vaultVars
         \/ \E target \in Levels : Observe(target) /\ UNCHANGED <<vaultVars, now, txs, recounted, skipped>>
         \/ Send /\ UNCHANGED <<vaultVars, now, ghostVars>>
         \/ \E i \in Pending : /\ \A j \in Pending : i <= j
                               /\ (PublishTx(i) \/ RevertTx(i))
                               /\ UNCHANGED <<now, fileVars, memoryVars, ghostVars>>
         \/ DropTx
         \/ Clock
         \/ \E a \in Account : Claim(a) /\ UNCHANGED pubVars
         \/ \E amount \in Funding : FundVault(amount) /\ UNCHANGED pubVars
         \/ PauseVault /\ UNCHANGED pubVars
         \/ UNCHANGED vars
BY Zenon DEF Next, Publisher, Read, Repair, Publish, Quietly, Preparing, Mine, PublishTx, RevertTx, Holders, Admin
\* What the snapshot gives: at least what was given, and the reward more in all.
LEMMA SnapshotFits ==
  ASSUME TypeOK, draft.reward > 0, Rows(HolderWeights) # {}
  PROVE  /\ Cumulative(HolderWeights) \in [Account -> Nat]
         /\ \A a \in Account : Cumulative(HolderWeights)[a] >= state.cumulative[a]
         /\ SumFunctionOnSet(Cumulative(HolderWeights), Account)
            = SumFunctionOnSet(state.cumulative, Account) + draft.reward
<1> DEFINE weights == HolderWeights
           share == [a \in Account |-> Share(weights, draft.reward, a)]
           before == state.cumulative
           after == Cumulative(weights)
<1>1. /\ IsFiniteSet(Account) /\ Account \subseteq Int
      /\ before \in [Account -> Nat] /\ draft.reward \in Nat
  BY PublisherAssumption DEF TypeOK, FilesTypeOK, MemoryTypeOK, State, File
<1>2. weights \in [Account -> Nat]
  <2>1. /\ transferCache.events \subseteq DOMAIN Transfers
        /\ draft.windowStart \in Int /\ draft.windowEnd \in Int
    BY DEF TypeOK, FilesTypeOK, MemoryTypeOK, File
  <2> QED
    BY <2>1, WeightsFit
<1> HIDE DEF weights
<1>3. /\ \A a \in Account : share[a] \in Nat
      /\ SumFunctionOnSet(share, Account) = draft.reward
  <2>1. Rows(weights) # {}
    BY DEF weights
  <2> QED
    BY <1>1, <1>2, <2>1, SplitAddsUp
<1>4. after = [a \in Account |-> before[a] + share[a]]
  BY DEF Cumulative
<1> HIDE DEF share, before, after
<1>5. \A a \in Account : before[a] \in Int /\ share[a] \in Int /\ after[a] = before[a] + share[a]
  BY <1>1, <1>3, <1>4
<1>6. SumFunctionOnSet(after, Account)
      = SumFunctionOnSet(before, Account) + SumFunctionOnSet(share, Account)
  <2>1. IsFiniteSet(Account)
    BY <1>1
  <2> QED
    BY <2>1, <1>5, SumPlus
<1>7. after \in [Account -> Nat] /\ \A a \in Account : after[a] >= before[a]
  BY <1>1, <1>3, <1>4
<1>8. SumFunctionOnSet(after, Account) = SumFunctionOnSet(before, Account) + draft.reward
  BY <1>3, <1>6
<1> QED
  BY <1>7, <1>8 DEF after, before, weights

-----------------------------------------------------------------------------
(* Types                                                                   *)

\* An observation leaves the cadence one of the cadences it may have.
LEMMA ObservedFits ==
  ASSUME NEW c \in Cadence, NEW time \in Nat, NEW target \in Levels
  PROVE  Observed(c, time, target) \in Cadence
<1> DEFINE g == AfterGap(c, time)
<1>1. g \in Cadence
  BY DEF AfterGap, Cadence
<1> HIDE DEF g
<1>2. target \in Nat /\ g.confirmed \in Nat
  BY <1>1, CadenceAssumption DEF Cadence
<1>3. CASE target <= g.confirmed
  <2>1. Observed(c, time, target) = [g EXCEPT !.candidate = None, !.since = None]
    BY <1>2, <1>3 DEF Observed, g
  <2> QED
    BY <1>1, <2>1 DEF Cadence
<1>4. CASE target > g.confirmed /\ g.candidate # target
  <2>1. Observed(c, time, target) = [g EXCEPT !.candidate = target, !.since = time]
    BY <1>2, <1>4 DEF Observed, g
  <2> QED
    BY <1>1, <2>1 DEF Cadence
<1>5. CASE target > g.confirmed /\ g.candidate = target
  <2>1. \/ Observed(c, time, target) = g
        \/ Observed(c, time, target)
           = [g EXCEPT !.confirmed = target, !.candidate = None, !.since = None]
    BY <1>2, <1>5 DEF Observed, g
  <2> QED
    BY <1>1, <2>1 DEF Cadence
<1> QED
  BY <1>2, <1>3, <1>4, <1>5

\* The chain's side.
LEMMA ChainTypeStep ==
  ASSUME TypeOK, EpochsInStep, [Next]_vars
  PROVE  ChainTypeOK'
<1> USE DEF ChainTypeOK, VaultTypeOK
<1>0. ChainTypeOK
  BY DEF TypeOK
<1>1. CASE UNCHANGED <<vaultVars, now, txs>>
  BY <1>0, <1>1 DEF vaultVars
<1>2. CASE Send /\ UNCHANGED <<vaultVars, now, ghostVars>>
  <2> DEFINE tx == [epoch |-> state.latestEpoch + 1, root |-> draft.root,
                    allocated |-> draft.allocated, outcome |-> "pending"]
  <2>1. tx \in Tx
    <3>1. state.latestEpoch \in 0..MaxEpochs /\ state.latestEpoch < MaxEpochs /\ MaxEpochs \in Nat
      BY <1>2, PublisherAssumption DEF Send, EpochsInStep, StagesInStep, Snapshotted, TypeOK, FilesTypeOK, State
    <3>2. state.latestEpoch + 1 \in Epochs
      BY <3>1 DEF Epochs
    <3>3. draft.root \in [Account -> Nat] /\ draft.allocated \in Nat
      BY DEF TypeOK, MemoryTypeOK, File
    <3> QED
      BY <3>2, <3>3 DEF Tx
  <2>2. txs' = Append(txs, tx) /\ UNCHANGED <<vaultVars, now>>
    BY <1>2 DEF Send
  <2> HIDE DEF tx
  <2>3. txs' \in Seq(Tx)
    BY <1>0, <2>1, <2>2
  <2> QED
    BY <1>0, <2>2, <2>3 DEF vaultVars
<1>3. ASSUME NEW i \in DOMAIN txs, NEW outcome \in {"published", "reverted", "dropped"},
             txs' = [txs EXCEPT ![i].outcome = outcome]
      PROVE  txs' \in Seq(Tx)
  <2>1. txs[i] \in Tx
    BY <1>0, ElementsOf
  <2> DEFINE tx == [txs[i] EXCEPT !.outcome = outcome]
  <2>2. tx \in Tx /\ txs' = [txs EXCEPT ![i] = tx]
    BY <1>3, <2>1 DEF Tx
  <2> HIDE DEF tx
  <2> QED
    BY <1>0, <2>2
<1>4. ASSUME NEW i \in Pending, PublishTx(i), UNCHANGED now PROVE ChainTypeOK'
  <2>1. i \in DOMAIN txs /\ txs[i] \in Tx
    BY <1>0, ElementsOf DEF Pending
  <2>2. txs[i].epoch \in Nat /\ txs[i].root \in [Account -> Nat] /\ txs[i].allocated \in Nat
    BY <2>1 DEF Tx, Epochs
  <2>3. txs' \in Seq(Tx)
    BY <1>3, <1>4, <2>1 DEF PublishTx
  <2> QED
    BY <1>0, <1>4, <2>2, <2>3 DEF PublishTx, PublishDistribution
<1>5. ASSUME NEW i \in Pending, RevertTx(i), UNCHANGED now PROVE ChainTypeOK'
  <2>1. i \in DOMAIN txs
    BY DEF Pending
  <2>2. txs' \in Seq(Tx)
    BY <1>3, <1>5, <2>1 DEF RevertTx
  <2> QED
    BY <1>0, <1>5, <2>2 DEF RevertTx, vaultVars
<1>6. CASE DropTx
  <2>1. Len(txs) \in DOMAIN txs
    BY <1>6 DEF DropTx, Pending
  <2>2. txs' \in Seq(Tx)
    BY <1>3, <1>6, <2>1 DEF DropTx
  <2> QED
    BY <1>0, <1>6, <2>2 DEF DropTx, vaultVars
<1>7. CASE Clock
  BY <1>0, <1>7 DEF Clock, vaultVars
<1>8. ASSUME NEW a \in Account, Claim(a), UNCHANGED pubVars PROVE ChainTypeOK'
  <2> DEFINE amount == merkleRoot[a] - claimed[a]
  <2>1. merkleRoot[a] \in Nat /\ amount \in Nat
    BY <1>0, <1>8 DEF Claim
  <2>2. totalClaimed' \in Nat /\ vaultMstr' \in Nat
    BY <1>0, <1>8, <2>1 DEF Claim
  <2>3. claimed' \in [Account -> Nat]
    BY <1>0, <1>8, <2>1 DEF Claim
  <2> QED
    BY <1>0, <1>8, <2>2, <2>3 DEF Claim, pubVars
<1>9. ASSUME NEW amount \in Funding, FundVault(amount), UNCHANGED pubVars PROVE ChainTypeOK'
  <2>1. amount \in Nat
    BY PublisherAssumption
  <2> QED
    BY <1>0, <1>9, <2>1 DEF FundVault, pubVars
<1>10. CASE PauseVault /\ UNCHANGED pubVars
  BY <1>0, <1>10 DEF PauseVault, pubVars
<1>11. \/ UNCHANGED <<vaultVars, now, txs>>
       \/ Send /\ UNCHANGED <<vaultVars, now, ghostVars>>
       \/ \E i \in Pending : (PublishTx(i) \/ RevertTx(i)) /\ UNCHANGED now
       \/ DropTx \/ Clock
       \/ \E a \in Account : Claim(a) /\ UNCHANGED pubVars
       \/ \E amount \in Funding : FundVault(amount) /\ UNCHANGED pubVars
       \/ PauseVault /\ UNCHANGED pubVars
  BY StepCases DEF Quietly, Preparing, Begin, Answer, Stop, vars, pubVars
<1> QED
  BY <1>1, <1>2, <1>4, <1>5, <1>6, <1>7, <1>8, <1>9, <1>10, <1>11
\* A later answer leaves the view a view, with one quantity of now.
LEMMA AnswerFits ==
  ASSUME TypeOK, NEW q \in DOMAIN view, Answer(q)
  PROVE  /\ view' \in View
         /\ view'.epoch \in {view.epoch, latestEpoch} /\ view'.block \in {view.block, now}
<1>1. view \in View /\ Latest \in View /\ Latest.epoch = latestEpoch /\ Latest.block = now
  BY DEF TypeOK, MemoryTypeOK, ChainTypeOK, VaultTypeOK, Latest, View
<1>2. q \in {"block", "epoch", "root", "allocated", "claimed"}
  BY <1>1 DEF View
<1> DEFINE late == Latest
<1>3. view' = [view EXCEPT ![q] = late[q]]
  BY DEF Answer
<1>4. late \in View /\ late.epoch = latestEpoch /\ late.block = now
  BY <1>1
<1> HIDE DEF late
<1>5. CASE q = "block"
  BY <1>1, <1>3, <1>4, <1>5 DEF View
<1>6. CASE q = "epoch"
  BY <1>1, <1>3, <1>4, <1>6 DEF View
<1>7. CASE q = "root"
  BY <1>1, <1>3, <1>4, <1>7 DEF View
<1>8. CASE q = "allocated"
  BY <1>1, <1>3, <1>4, <1>8 DEF View
<1>9. CASE q = "claimed"
  BY <1>1, <1>3, <1>4, <1>9 DEF View
<1> QED
  BY <1>2, <1>5, <1>6, <1>7, <1>8, <1>9

\* The tick's memory.
LEMMA MemoryTypeStep ==
  ASSUME TypeOK, EpochsInStep, [Next]_vars
  PROVE  MemoryTypeOK'
<1>0. MemoryTypeOK /\ FilesTypeOK /\ ChainTypeOK
  BY DEF TypeOK
<1> USE DEF MemoryTypeOK, Repairing, Confirmed, Snapshotted, Drafted
<1>1. CASE UNCHANGED memoryVars
  BY <1>0, <1>1 DEF memoryVars
<1>2. NoFile \in File /\ NoView \in View /\ Latest \in View
  BY <1>0 DEF NoFile, NoView, Latest, View, File, NoRoot, ChainTypeOK, VaultTypeOK
<1>3. CASE Forget
  BY <1>0, <1>2, <1>3 DEF Forget
<1>4. CASE /\ UNCHANGED draft /\ (UNCHANGED view \/ view' = Latest)
           /\ step' \in {"reading", "matched", "recovered", "refiled", "shown", "indexed", "sent", "mined",
                         "filed", "latest", "listed"}
  BY <1>0, <1>2, <1>4
<1>5. ASSUME NEW target \in Levels, Observe(target) PROVE MemoryTypeOK'
  <2>1. IndexedBlock \in Nat
    BY <1>0, PublisherAssumption DEF IndexedBlock, View
  <2> DEFINE file == [NoFile EXCEPT !.windowStart = state.lastWindowEnd, !.windowEnd = IndexedBlock]
  <2>2. state.lastWindowEnd \in Nat
    BY <1>0 DEF FilesTypeOK, State
  <2>3. file \in File
    BY <1>2, <2>1, <2>2 DEF File
  <2> HIDE DEF file
  <2>4. Forget \/ (draft' = file /\ step' = "due" /\ UNCHANGED view)
    BY <1>5 DEF Observe, file
  <2> QED
    BY <1>0, <1>3, <2>3, <2>4
<1>6. CASE ReadReward
  <2>1. NewReward \in Int
    BY <1>0 DEF NewReward, ChainTypeOK, VaultTypeOK, View
  <2> DEFINE file == [draft EXCEPT !.reward = NewReward]
  <2>2. file \in File
    BY <1>0, <2>1 DEF File
  <2> HIDE DEF file
  <2>3. draft' = file /\ step' = "read" /\ UNCHANGED view
    BY <1>6 DEF ReadReward, file
  <2> QED
    BY <1>0, <2>2, <2>3
<1>7. CASE Prepare
  <2> DEFINE given == view.allocated + draft.reward
             root == Cumulative(HolderWeights)
             file == [draft EXCEPT !.status = "prepared", !.allocated = given, !.root = root]
  <2>1. given \in Nat
    BY <1>0, <1>7 DEF Prepare, File, View
  <2>2. root \in [Account -> Nat]
    BY <1>7, SnapshotFits DEF Prepare
  <2>3. draft' = file /\ step' = "prepared" /\ UNCHANGED view
    BY <1>7 DEF Prepare
  <2> HIDE DEF given, root
  <2>4. file \in File
    BY <1>0, <2>1, <2>2 DEF File
  <2> HIDE DEF file
  <2> QED
    BY <1>0, <2>3, <2>4
<1>8. ASSUME NEW q \in DOMAIN view, Answer(q) PROVE MemoryTypeOK'
  <2>1. view' \in View
    BY <1>8, AnswerFits
  <2> QED
    BY <1>0, <1>8, <2>1 DEF Answer
<1>9. \/ UNCHANGED memoryVars \/ Forget
      \/ \E q \in DOMAIN view : Answer(q)
      \/ /\ UNCHANGED draft
         /\ UNCHANGED view \/ view' = Latest
         /\ step' \in {"reading", "matched", "recovered", "refiled", "shown", "indexed", "sent", "mined",
                       "filed", "latest", "listed"}
      \/ \E target \in Levels : Observe(target)
      \/ ReadReward \/ Prepare
  BY StepCases DEF Quietly, Preparing, Begin, Recover, SaveRecoveredFile, SaveRecoveredLatest,
     ListRecovered, Match, NothingNew, UpdateTransferCache, Send, Await, PublishFile,
     PublishLatest, PublishHistory, SaveState, Stop, DropTx, Clock, vars, pubVars
<1> QED
  BY <1>1, <1>3, <1>4, <1>5, <1>6, <1>7, <1>8, <1>9

\* The files.
LEMMA FilesTypeStep ==
  ASSUME TypeOK, EpochsInStep, [Next]_vars
  PROVE  FilesTypeOK'
<1>0. MemoryTypeOK /\ FilesTypeOK /\ ChainTypeOK
  BY DEF TypeOK
<1>1. /\ state.latestEpoch \in 0..MaxEpochs /\ latestEpoch \in Nat /\ MaxEpochs \in Nat
      /\ latestEpoch <= MaxEpochs /\ Epochs = 1..MaxEpochs
  BY <1>0, PublisherAssumption DEF FilesTypeOK, ChainTypeOK, VaultTypeOK, State, EpochsInStep, StagesInStep, Epochs
<1>2. step \in Snapshotted => state.latestEpoch + 1 \in Epochs
  BY <1>1 DEF EpochsInStep, StagesInStep
<1>3. state' \in State
  <2>1. ASSUME NEW e \in 0..MaxEpochs, NEW end \in Nat, NEW given \in [Account -> Nat],
               state' = [state EXCEPT !.latestEpoch = e, !.lastWindowEnd = end, !.cumulative = given]
        PROVE  state' \in State
    BY <1>0, <2>1 DEF FilesTypeOK, State
  <2>2. CASE Recover
    <3>1. view.epoch \in Epochs /\ view.epoch \in 0..MaxEpochs
      BY <1>1, <2>2 DEF Recover, EpochsInStep, ViewInStep
    <3>2. epochFiles[view.epoch] \in File
      BY <1>0, <3>1 DEF FilesTypeOK
    <3>3. /\ epochFiles[view.epoch].windowEnd \in Nat
          /\ epochFiles[view.epoch].root \in [Account -> Nat]
      BY <3>2 DEF File
    <3> QED
      BY <2>1, <2>2, <3>1, <3>3 DEF Recover, Recovered
  <2>3. CASE SaveState
    <3>1. state.latestEpoch + 1 \in 0..MaxEpochs
      BY <1>1, <1>2, <2>3 DEF SaveState, Snapshotted, Confirmed
    <3>2. draft.windowEnd \in Nat /\ draft.root \in [Account -> Nat]
      BY <1>0 DEF MemoryTypeOK, File
    <3> QED
      BY <2>1, <2>3, <3>1, <3>2 DEF SaveState
  <2>4. ASSUME NEW target \in Levels, Observe(target) PROVE state' \in State
    <3> DEFINE c == Observed(state.cadence, now, target)
    <3>1. c \in Cadence
      BY <1>0, ObservedFits DEF FilesTypeOK, ChainTypeOK, State
    <3>2. state' = [state EXCEPT !.cadence = c]
      BY <2>4 DEF Observe
    <3> HIDE DEF c
    <3> QED
      BY <1>0, <3>1, <3>2 DEF FilesTypeOK, State
  <2>5. Recover \/ SaveState \/ (\E target \in Levels : Observe(target)) \/ UNCHANGED state
    BY StepCases DEF Quietly, Preparing, Begin, Answer, SaveRecoveredFile, SaveRecoveredLatest, ListRecovered, Match,
       NothingNew, ReadReward, UpdateTransferCache, Prepare, Send, Await, PublishFile,
       PublishLatest, PublishHistory, Stop, DropTx, Clock, vars, pubVars, fileVars
  <2> QED
    BY <1>0, <2>2, <2>3, <2>4, <2>5 DEF FilesTypeOK
<1>4. epochFiles' \in [Epochs -> File]
  <2>1. ASSUME NEW e \in Epochs, NEW file \in File, epochFiles' = [epochFiles EXCEPT ![e] = file]
        PROVE  epochFiles' \in [Epochs -> File]
    BY <1>0, <2>1 DEF FilesTypeOK
  <2>2. CASE SaveRecoveredFile
    <3> DEFINE e == state.latestEpoch
               file == [epochFiles[e] EXCEPT !.status = "published-recovered"]
    <3>1. CASE e \in Epochs
      <4>1. file \in File
        BY <1>0, <3>1 DEF FilesTypeOK, File
      <4>2. epochFiles' = [epochFiles EXCEPT ![e] = file]
        BY <2>2 DEF SaveRecoveredFile
      <4> HIDE DEF file, e
      <4> QED
        BY <2>1, <3>1, <4>1, <4>2
    <3>2. CASE e \notin Epochs
      BY <1>0, <2>2, <3>2 DEF SaveRecoveredFile, FilesTypeOK
    <3> QED
      BY <3>1, <3>2
  <2>3. CASE Prepare
    <3>1. state.latestEpoch + 1 \in Epochs
      BY <1>1, <2>3 DEF Prepare
    <3>2. draft' \in File /\ epochFiles' = [epochFiles EXCEPT ![state.latestEpoch + 1] = draft']
      BY <2>3, MemoryTypeStep DEF Prepare, MemoryTypeOK
    <3> QED
      BY <2>1, <3>1, <3>2
  <2>4. CASE PublishFile
    <3> DEFINE file == [draft EXCEPT !.status = "published"]
    <3>1. file \in File
      BY <1>0 DEF MemoryTypeOK, File
    <3>2. epochFiles' = [epochFiles EXCEPT ![state.latestEpoch + 1] = file]
      BY <2>4 DEF PublishFile
    <3>3. state.latestEpoch + 1 \in Epochs
      BY <1>2, <2>4 DEF PublishFile, Snapshotted, Confirmed
    <3> HIDE DEF file
    <3> QED
      BY <2>1, <3>1, <3>2, <3>3
  <2>5. SaveRecoveredFile \/ Prepare \/ PublishFile \/ UNCHANGED epochFiles
    BY StepCases DEF Quietly, Preparing, Begin, Answer, Recover, SaveRecoveredLatest, ListRecovered, Match, Observe,
       NothingNew, ReadReward, UpdateTransferCache, Send, Await, SaveState,
       PublishLatest, PublishHistory, Stop, DropTx, Clock, vars, pubVars, fileVars
  <2> QED
    BY <1>0, <2>2, <2>3, <2>4, <2>5 DEF FilesTypeOK
<1>5. latestFile' \in 0..MaxEpochs
  <2>1. CASE SaveRecoveredLatest
    BY <1>1, <2>1 DEF SaveRecoveredLatest
  <2>2. CASE PublishLatest
    BY <1>1, <1>2, <2>2 DEF PublishLatest, Snapshotted, Confirmed
  <2>3. SaveRecoveredLatest \/ PublishLatest \/ UNCHANGED latestFile
    BY StepCases DEF Quietly, Preparing, Begin, Answer, Recover, SaveRecoveredFile, ListRecovered, Match, Observe,
       NothingNew, ReadReward, UpdateTransferCache, Prepare, Send, Await, SaveState, PublishFile,
       PublishHistory, Stop, DropTx, Clock, vars, pubVars, fileVars
  <2> QED
    BY <1>0, <2>1, <2>2, <2>3 DEF FilesTypeOK
<1>6. history' \subseteq Epochs
  <2>1. CASE ListRecovered
    <3>1. state.latestEpoch \in Epochs
      BY <1>1, <2>1 DEF ListRecovered, Repairing, EpochsInStep, StagesInStep
    <3> QED
      BY <1>0, <2>1, <3>1 DEF FilesTypeOK, ListRecovered
  <2>2. CASE PublishHistory
    BY <1>0, <1>1, <1>2, <2>2 DEF PublishHistory, Snapshotted, Confirmed, FilesTypeOK
  <2>3. ListRecovered \/ PublishHistory \/ UNCHANGED history
    BY StepCases DEF Quietly, Preparing, Begin, Answer, Recover, SaveRecoveredFile, SaveRecoveredLatest, Match, Observe,
       NothingNew, ReadReward, UpdateTransferCache, Prepare, Send, Await, SaveState, PublishFile,
       PublishLatest, Stop, DropTx, Clock, vars, pubVars, fileVars
  <2> QED
    BY <1>0, <2>1, <2>2, <2>3 DEF FilesTypeOK
<1>7. transferCache' \in [lastIndexedBlock : Int, events : SUBSET DOMAIN Transfers]
  <2>1. CASE UpdateTransferCache
    <3>1. PICK fresh \in Answers(RefreshStart(transferCache), draft.windowEnd, now) :
                 transferCache' = Updated(transferCache, fresh, draft.windowEnd)
      BY <2>1 DEF UpdateTransferCache
    <3>2. fresh \subseteq DOMAIN Transfers
      BY DEF Answers, InBlocks
    <3>3. draft.windowEnd \in Int /\ transferCache.events \subseteq DOMAIN Transfers
      BY <1>0 DEF MemoryTypeOK, File, FilesTypeOK
    <3> QED
      BY <3>1, <3>2, <3>3 DEF Updated
  <2>2. UpdateTransferCache \/ UNCHANGED transferCache
    BY StepCases DEF Quietly, Preparing, Begin, Answer, Recover, SaveRecoveredFile, SaveRecoveredLatest, Match, Observe,
       NothingNew, ReadReward, ListRecovered, Prepare, Send, Await, SaveState, PublishFile,
       PublishLatest, PublishHistory, Stop, DropTx, Clock, vars, pubVars, fileVars
  <2> QED
    BY <1>0, <2>1, <2>2 DEF FilesTypeOK
<1> QED
  BY <1>3, <1>4, <1>5, <1>6, <1>7 DEF FilesTypeOK

\* What the properties remember.
LEMMA GhostsTypeStep ==
  ASSUME TypeOK, [Next]_vars
  PROVE  GhostsTypeOK'
<1>0. GhostsTypeOK /\ now \in Nat /\ state.latestEpoch \in Nat
  BY PublisherAssumption DEF TypeOK, ChainTypeOK, FilesTypeOK, State
<1> USE DEF GhostsTypeOK
<1>1. CASE UNCHANGED ghostVars
  BY <1>0, <1>1 DEF ghostVars
<1>2. CASE Stop
  BY <1>0, <1>2 DEF Stop
<1>3. ASSUME NEW target \in Levels, Observe(target), UNCHANGED <<recounted, skipped>>
      PROVE  GhostsTypeOK'
  BY <1>0, <1>3 DEF Observe
<1>4. CASE Preparing
  BY <1>0, <1>4 DEF Preparing, Prepare
<1>5. \/ UNCHANGED ghostVars \/ Stop \/ Preparing
      \/ \E target \in Levels : Observe(target) /\ UNCHANGED <<recounted, skipped>>
  BY StepCases DEF Quietly, DropTx, Clock, vars, pubVars
<1> QED
  BY <1>1, <1>2, <1>3, <1>4, <1>5

\* Every step keeps the types.
LEMMA TypeStep ==
  ASSUME TypeOK, EpochsInStep, [Next]_vars
  PROVE  TypeOK'
BY ChainTypeStep, MemoryTypeStep, FilesTypeStep, GhostsTypeStep DEF TypeOK
-----------------------------------------------------------------------------
(* Epochs                                                                  *)

\* The transactions before and after a step of the chain differ in one outcome.
OneOutcome(i, outcome) ==
  /\ i \in DOMAIN txs /\ DOMAIN txs' = DOMAIN txs /\ Len(txs') = Len(txs)
  /\ txs'[i].outcome = outcome
  /\ \A j \in DOMAIN txs :
       /\ txs'[j].epoch = txs[j].epoch /\ txs'[j].root = txs[j].root
       /\ txs'[j].allocated = txs[j].allocated
       /\ j # i => txs'[j].outcome = txs[j].outcome

\* A transaction whose outcome changes keeps its type and its place.
LEMMA OutcomeOfOne ==
  ASSUME TypeOK, NEW i \in DOMAIN txs, NEW outcome, txs' = [txs EXCEPT ![i].outcome = outcome]
  PROVE  OneOutcome(i, outcome)
<1>1. txs \in Seq(Tx) /\ \A j \in DOMAIN txs : txs[j] \in Tx
  BY ElementsOf DEF TypeOK, ChainTypeOK
<1> DEFINE tx == [txs[i] EXCEPT !.outcome = outcome]
<1>2. /\ tx.epoch = txs[i].epoch /\ tx.root = txs[i].root /\ tx.allocated = txs[i].allocated
      /\ tx.outcome = outcome
  BY <1>1 DEF Tx
<1>3. txs' = [txs EXCEPT ![i] = tx]
  OBVIOUS
<1> HIDE DEF tx
<1>4. DOMAIN txs' = DOMAIN txs /\ Len(txs') = Len(txs)
  BY <1>1, <1>3
<1> QED
  BY <1>2, <1>3, <1>4 DEF OneOutcome

\* Mining and dropping change the outcome of one pending transaction.
LEMMA MinedOrDropped ==
  ASSUME TypeOK, [Next]_vars
  PROVE  /\ \A i \in Pending : PublishTx(i) => OneOutcome(i, "published")
         /\ \A i \in Pending : RevertTx(i) => OneOutcome(i, "reverted")
         /\ DropTx => OneOutcome(Len(txs), "dropped") /\ Len(txs) \in Pending
BY OutcomeOfOne DEF Pending, PublishTx, RevertTx, DropTx

\* State, chain and transactions stay within one epoch of one another.
LEMMA StagesStep ==
  ASSUME TypeOK, EpochsInStep, [Next]_vars
  PROVE  StagesInStep'
<1>0. /\ state \in State /\ state.latestEpoch \in 0..MaxEpochs /\ MaxEpochs \in Nat
      /\ latestEpoch \in Nat /\ allocated \in Nat /\ vaultMstr \in Nat /\ totalClaimed \in Nat
      /\ txs \in Seq(Tx) /\ DOMAIN txs = 1..Len(txs) /\ Len(txs) \in Nat
  BY PublisherAssumption DEF TypeOK, ChainTypeOK, FilesTypeOK, VaultTypeOK, State
<1>01. \A i \in DOMAIN txs : txs[i].epoch \in Nat /\ txs[i].allocated \in Nat
  <2>1. \A i \in DOMAIN txs : txs[i] \in Tx
    BY <1>0, ElementsOf
  <2> QED
    BY <2>1 DEF Tx, Epochs
<1> USE DEF EpochsInStep, StagesInStep, Repairing, Snapshotted, Confirmed
<1>1. CASE Quietly(Recover)
  <2>1. /\ state'.latestEpoch = latestEpoch /\ latestEpoch = state.latestEpoch + 1
        /\ step' = "recovered" /\ UNCHANGED <<vaultVars, txs>>
    BY <1>0, <1>1 DEF Quietly, Recover, Recovered, State, ViewInStep
  <2> QED
    BY <1>0, <1>01, <2>1 DEF vaultVars, Accepts
<1>2. ASSUME UNCHANGED <<vaultVars, txs>>, state'.latestEpoch = state.latestEpoch,
             \/ step' = step
             \/ step \in Repairing /\ step' \in Repairing
             \/ step \in Confirmed /\ step' \in Confirmed
             \/ step' \in {"idle", "reading", "matched", "due", "read", "indexed"}
             \/ step' = "prepared" /\ state.latestEpoch < MaxEpochs
      PROVE  StagesInStep'
  BY <1>0, <1>2 DEF vaultVars, Accepts
<1>3. CASE Send /\ UNCHANGED <<vaultVars, now, ghostVars>>
  <2> DEFINE tx == [epoch |-> state.latestEpoch + 1, root |-> draft.root,
                    allocated |-> draft.allocated, outcome |-> "pending"]
  <2>1. /\ tx.epoch = state.latestEpoch + 1 /\ tx.outcome = "pending"
        /\ Accepts(tx.epoch, tx.allocated)
    BY <1>3 DEF Send
  <2>2. txs' = Append(txs, tx) /\ UNCHANGED <<vaultVars, state>> /\ step' = "sent" /\ step = "prepared"
    BY <1>3 DEF Send, fileVars
  <2> HIDE DEF tx
  <2>3. /\ DOMAIN txs' = 1..(Len(txs) + 1) /\ Len(txs') = Len(txs) + 1
        /\ txs'[Len(txs) + 1] = tx /\ txs' # <<>>
        /\ \A i \in DOMAIN txs : txs'[i] = txs[i]
    BY <1>0, <2>2
  <2>4. \A i \in DOMAIN txs' : i = Len(txs) + 1 \/ i \in DOMAIN txs
    BY <1>0, <2>3
  <2> QED
    BY <1>0, <1>01, <2>1, <2>2, <2>3, <2>4 DEF vaultVars, Accepts
<1>4. CASE Quietly(Await)
  <2>1. txs[Len(txs)].outcome \in {"published", "reverted"} /\ txs # <<>>
    BY <1>4 DEF Quietly, Await
  <2>2. Len(txs) \in DOMAIN txs
    BY <1>0, <2>1
  <2>3. latestEpoch = state.latestEpoch + 1
    BY <1>0, <1>4, <2>1, <2>2 DEF Quietly, Await
  <2> QED
    BY <1>0, <1>4, <2>3 DEF Quietly, Await, vaultVars, fileVars, Accepts
<1>5. CASE Quietly(SaveState)
  <2>1. /\ state'.latestEpoch = state.latestEpoch + 1 /\ step = "listed" /\ step' = "idle"
        /\ UNCHANGED <<vaultVars, txs>>
    BY <1>0, <1>5 DEF Quietly, SaveState, Forget, State
  <2> QED
    BY <1>0, <1>01, <2>1 DEF vaultVars, Accepts
<1>6. ASSUME NEW i \in Pending, PublishTx(i), OneOutcome(i, "published"), UNCHANGED <<state, step>>
      PROVE  StagesInStep'
  <2>1. i \in DOMAIN txs /\ txs[i].epoch > latestEpoch /\ latestEpoch' = txs[i].epoch
    BY <1>6 DEF PublishTx, PublishDistribution, Accepts, Pending
  <2>2. /\ latestEpoch = state.latestEpoch /\ latestEpoch' = state.latestEpoch + 1
        /\ step \notin Repairing /\ step \notin Confirmed
    BY <1>0, <1>01, <2>1
  <2>3. latestEpoch' <= MaxEpochs
    <3>1. txs[i] \in Tx
      BY <1>0, <2>1, ElementsOf
    <3> QED
      BY <2>1, <3>1 DEF Tx, Epochs
  <2>4. \A j \in DOMAIN txs' : txs'[j].epoch <= latestEpoch'
    BY <1>0, <1>01, <1>6, <2>2 DEF OneOutcome
  <2>5. step = "sent" => txs' # <<>> /\ txs'[Len(txs')].epoch = state.latestEpoch + 1
    BY <1>0, <1>6 DEF OneOutcome
  <2> QED
    BY <1>0, <1>01, <1>6, <2>2, <2>3, <2>4, <2>5
<1>7. ASSUME NEW i \in DOMAIN txs, NEW outcome \in {"reverted", "dropped"},
             OneOutcome(i, outcome), outcome = "reverted" => txs[i].epoch <= latestEpoch,
             UNCHANGED <<state, step, vaultVars>>
      PROVE  StagesInStep'
  <2>1. step = "sent" => txs' # <<>> /\ txs'[Len(txs')].epoch = state.latestEpoch + 1
    BY <1>0, <1>7 DEF OneOutcome
  <2> QED
    BY <1>0, <1>01, <1>7, <2>1 DEF OneOutcome, vaultVars, Accepts
<1>8. ASSUME NEW i \in Pending, RevertTx(i), OneOutcome(i, "reverted"), UNCHANGED <<state, step>>
      PROVE  StagesInStep'
  <2>1. i \in DOMAIN txs /\ txs[i].epoch <= latestEpoch
    BY <1>8 DEF Pending, RevertTx
  <2> QED
    BY <1>7, <1>8, <2>1 DEF RevertTx
<1>9. ASSUME UNCHANGED <<latestEpoch, allocated, txs, state, step>>,
             vaultMstr' + totalClaimed' >= vaultMstr + totalClaimed,
             vaultMstr' \in Nat, totalClaimed' \in Nat
      PROVE  StagesInStep'
  <2>1. ASSUME NEW n \in Nat, n <= vaultMstr + totalClaimed PROVE n <= vaultMstr' + totalClaimed'
    <3>1. \A a, b, c, d \in Nat : n <= a + b /\ c + d >= a + b => n <= c + d
      OBVIOUS
    <3> QED
      BY <1>0, <1>9, <2>1, <3>1
  <2>2. ASSUME NEW i \in DOMAIN txs, Accepts(txs[i].epoch, txs[i].allocated)
        PROVE  Accepts(txs[i].epoch, txs[i].allocated)'
    BY <1>01, <1>9, <2>1, <2>2 DEF Accepts
  <2> QED
    BY <1>9, <2>2
<1>10. ASSUME NEW a \in Account, Claim(a), UNCHANGED pubVars PROVE StagesInStep'
  <2>1. merkleRoot[a] \in Nat /\ claimed[a] \in Nat
    BY DEF TypeOK, ChainTypeOK, VaultTypeOK
  <2> DEFINE amount == merkleRoot[a] - claimed[a]
  <2>2. /\ amount \in Nat /\ amount <= vaultMstr
        /\ totalClaimed' = totalClaimed + amount /\ vaultMstr' = vaultMstr - amount
    BY <1>10, <2>1 DEF Claim
  <2> HIDE DEF amount
  <2> QED
    BY <1>0, <1>9, <1>10, <2>2 DEF Claim, pubVars, fileVars, memoryVars
<1>11. ASSUME NEW amount \in Funding, FundVault(amount), UNCHANGED pubVars PROVE StagesInStep'
  <2>1. amount \in Nat
    BY PublisherAssumption
  <2> QED
    BY <1>0, <1>9, <1>11, <2>1 DEF FundVault, pubVars, fileVars, memoryVars
<1>12. CASE PauseVault /\ UNCHANGED pubVars
  BY <1>0, <1>9, <1>12 DEF PauseVault, pubVars, fileVars, memoryVars
<1>13. ASSUME NEW target \in Levels, Observe(target), UNCHANGED <<vaultVars, now, txs, recounted, skipped>>
       PROVE  StagesInStep'
  <2>1. state'.latestEpoch = state.latestEpoch
    BY <1>0, <1>13 DEF Observe, State
  <2>2. step' \in {"idle", "due"}
    BY <1>13 DEF Observe, Forget
  <2> QED
    BY <1>2, <1>13, <2>1, <2>2
<1>14. \/ StagesInStep'
       \/ Quietly(Recover) \/ Quietly(Await) \/ Quietly(SaveState)
       \/ Send /\ UNCHANGED <<vaultVars, now, ghostVars>>
       \/ \E i \in Pending : (PublishTx(i) \/ RevertTx(i)) /\ UNCHANGED <<state, step>>
       \/ DropTx
       \/ \E a \in Account : Claim(a) /\ UNCHANGED pubVars
       \/ \E amount \in Funding : FundVault(amount) /\ UNCHANGED pubVars
       \/ PauseVault /\ UNCHANGED pubVars
  BY <1>2, <1>13, StepCases DEF Quietly, Preparing, Begin, Answer, SaveRecoveredFile, SaveRecoveredLatest, ListRecovered,
     Match, NothingNew, ReadReward, UpdateTransferCache, Prepare, PublishFile, PublishLatest,
     PublishHistory, Stop, Forget, Clock, vars, pubVars, fileVars, memoryVars
<1>15. CASE DropTx
  BY <1>7, <1>15, MinedOrDropped DEF DropTx, Pending, fileVars, memoryVars
<1> QED
  BY <1>1, <1>3, <1>4, <1>5, <1>6, <1>8, <1>10, <1>11, <1>12, <1>14, <1>15, MinedOrDropped


\* No step of the chain makes what was read anything but of now or of before.
LEMMA ViewStep ==
  ASSUME TypeOK, EpochsInStep, [Next]_vars
  PROVE  ViewInStep'
<1>0. /\ latestEpoch \in Nat /\ now \in Nat /\ state \in State /\ view \in View
      /\ view.epoch \in Nat /\ view.block \in Nat
  BY DEF TypeOK, ChainTypeOK, VaultTypeOK, FilesTypeOK, MemoryTypeOK, View
<1>1. /\ step # "idle" => view.epoch <= latestEpoch /\ view.block <= now
      /\ step \notin {"idle", "reading"} => view.epoch = state.latestEpoch
  BY DEF EpochsInStep, ViewInStep
<1>2. /\ latestEpoch' \in Nat /\ latestEpoch' >= latestEpoch
      /\ now' \in Nat /\ now' >= now
  <2>1. ASSUME NEW i \in Pending, PublishTx(i) PROVE latestEpoch' \in Nat /\ latestEpoch' >= latestEpoch
    <3>1. txs[i] \in Tx
      BY ElementsOf DEF TypeOK, ChainTypeOK, Pending
    <3> QED
      BY <1>0, <2>1, <3>1 DEF PublishTx, PublishDistribution, Accepts, Tx, Epochs
  <2>2. UNCHANGED latestEpoch \/ \E i \in Pending : PublishTx(i)
    BY StepCases DEF Quietly, Preparing, Stop, Send, RevertTx, DropTx, Clock, Claim, FundVault,
       PauseVault, vars, vaultVars
  <2>3. now' = now \/ now' = now + 1
    BY StepCases DEF Quietly, Preparing, Stop, DropTx, Clock, vars, pubVars
  <2> QED
    BY <1>0, <2>1, <2>2, <2>3
<1> USE DEF ViewInStep
<1>3. CASE step' = "idle"
  BY <1>3
<1>4. CASE Quietly(Begin)
  BY <1>0, <1>4 DEF Quietly, Begin, Latest, vaultVars
<1>5. ASSUME NEW q \in DOMAIN view, Quietly(Answer(q)) PROVE ViewInStep'
  <2>1. /\ view'.epoch \in {view.epoch, latestEpoch} /\ view'.block \in {view.block, now}
        /\ step = "reading" /\ step' = "reading" /\ latestEpoch' = latestEpoch /\ now' = now
    BY <1>5, AnswerFits DEF Quietly, Answer, vaultVars
  <2> QED
    BY <1>0, <1>1, <2>1
<1>6. CASE Quietly(Recover)
  <2>1. /\ state' = [state EXCEPT !.latestEpoch = view.epoch,
                                  !.lastWindowEnd = epochFiles[view.epoch].windowEnd,
                                  !.cumulative = epochFiles[view.epoch].root]
        /\ step = "reading" /\ step' = "recovered" /\ UNCHANGED <<view, latestEpoch, now>>
    BY <1>6 DEF Quietly, Recover, Recovered, vaultVars
  <2>2. state'.latestEpoch = view.epoch
    BY <1>0, <2>1 DEF State
  <2> QED
    BY <1>1, <2>1, <2>2
<1>7. CASE Quietly(Match)
  BY <1>1, <1>7 DEF Quietly, Match, fileVars, vaultVars
<1>8. CASE /\ UNCHANGED view /\ state'.latestEpoch = state.latestEpoch
           /\ step' = step \/ {step, step'} \cap {"idle", "reading"} = {}
  <2>1. /\ step' = "idle" <=> step = "idle"
        /\ step' \in {"idle", "reading"} <=> step \in {"idle", "reading"}
    BY <1>8
  <2>2. step # "idle" => view.epoch <= latestEpoch' /\ view.block <= now'
    BY <1>0, <1>1, <1>2
  <2> QED
    BY <1>1, <1>8, <2>1, <2>2
<1>9. ASSUME NEW target \in Levels, Observe(target) PROVE ViewInStep'
  <2>1. state'.latestEpoch = state.latestEpoch
    BY <1>0, <1>9 DEF Observe, State
  <2> QED
    BY <1>3, <1>8, <1>9, <2>1 DEF Observe, Forget
<1>10. \/ step' = "idle" \/ Quietly(Begin) \/ \E q \in DOMAIN view : Quietly(Answer(q))
       \/ Quietly(Recover) \/ Quietly(Match)
       \/ \E target \in Levels : Observe(target)
       \/ /\ UNCHANGED view /\ state'.latestEpoch = state.latestEpoch
          /\ step' = step \/ {step, step'} \cap {"idle", "reading"} = {}
  BY StepCases DEF Quietly, Preparing, SaveRecoveredFile, SaveRecoveredLatest, ListRecovered,
     NothingNew, ReadReward, UpdateTransferCache, Prepare, Send, Await, PublishFile, PublishLatest,
     PublishHistory, SaveState, Stop, Forget, DropTx, Clock, vars, pubVars, fileVars, memoryVars
<1> QED
  BY <1>3, <1>4, <1>5, <1>6, <1>7, <1>8, <1>9, <1>10

\* Every step keeps the epochs in step.
LEMMA EpochsStep ==
  ASSUME TypeOK, EpochsInStep, [Next]_vars
  PROVE  EpochsInStep'
BY StagesStep, ViewStep DEF EpochsInStep

-----------------------------------------------------------------------------
(* Records                                                                 *)

EndOf(e) == IF e = 0 THEN 0 ELSE epochFiles[e].windowEnd
RootIn(files, e) == IF e = 0 THEN NoRoot ELSE files[e].root
RootOf(e) == RootIn(epochFiles, e)

\* The files reach the epoch the tick works at, and their windows meet.
FilesInStep ==
  /\ \A e \in Epochs : epochFiles[e].status # "none" =>
       e <= state.latestEpoch + 1 /\ epochFiles[e].windowStart = EndOf(e - 1)
  /\ \A e \in 1..latestEpoch : epochFiles[e].status # "none"

\* The state is what the file of its epoch says.
StateInStep ==
  /\ state.lastWindowEnd = EndOf(state.latestEpoch)
  /\ state.cumulative = RootOf(state.latestEpoch)

\* The draft goes on from the state, and once it is written, the file of the
\* next epoch says what it says.
DraftInStep ==
  /\ step \in Drafted => draft.windowStart = state.lastWindowEnd /\ draft.windowEnd <= now
  /\ step \in Snapshotted =>
       LET file == epochFiles[state.latestEpoch + 1] IN
       /\ draft.status # "none" /\ file.status # "none"
       /\ file.windowStart = draft.windowStart /\ file.windowEnd = draft.windowEnd
       /\ file.root = draft.root /\ file.allocated = draft.allocated
       /\ \A a \in Account : draft.root[a] >= state.cumulative[a]

\* What was sent takes nothing away from the epoch before.
TxsInStep ==
  \A i \in DOMAIN txs :
    /\ epochFiles[txs[i].epoch].status # "none"
    /\ \A a \in Account : txs[i].root[a] >= RootOf(txs[i].epoch - 1)[a]

RecordsInStep == FilesInStep /\ StateInStep /\ DraftInStep /\ TxsInStep

SameFile(e) ==
  /\ epochFiles'[e].windowStart = epochFiles[e].windowStart
  /\ epochFiles'[e].windowEnd = epochFiles[e].windowEnd
  /\ epochFiles'[e].root = epochFiles[e].root
  /\ epochFiles'[e].allocated = epochFiles[e].allocated
  /\ epochFiles[e].status # "none" <=> epochFiles'[e].status # "none"

\* The types, in the form the proofs use.
LEMMA Types ==
  ASSUME TypeOK
  PROVE  /\ state \in State /\ state.latestEpoch \in 0..MaxEpochs /\ MaxEpochs \in Nat
         /\ state.lastWindowEnd \in Nat /\ state.cumulative \in [Account -> Nat]
         /\ latestEpoch \in Nat /\ allocated \in Nat /\ vaultMstr \in Nat /\ totalClaimed \in Nat
         /\ merkleRoot \in [Account -> Nat] /\ claimed \in [Account -> Nat] /\ now \in Nat
         /\ txs \in Seq(Tx) /\ DOMAIN txs = 1..Len(txs) /\ Len(txs) \in Nat
         /\ \A i \in DOMAIN txs : /\ txs[i].epoch \in Epochs /\ txs[i].root \in [Account -> Nat]
                                  /\ txs[i].allocated \in Nat
         /\ Epochs = 1..MaxEpochs
         /\ \A e \in Epochs : /\ epochFiles[e] \in File
                              /\ epochFiles[e].windowEnd \in Nat /\ epochFiles[e].windowStart \in Nat
                              /\ epochFiles[e].root \in [Account -> Nat]
                              /\ epochFiles[e].allocated \in Nat
         /\ DOMAIN epochFiles = Epochs
         /\ draft \in File /\ draft.root \in [Account -> Nat] /\ draft.allocated \in Nat
         /\ draft.windowEnd \in Nat /\ draft.windowStart \in Nat
         /\ view \in View /\ view.allocated \in Nat /\ view.epoch \in Nat /\ view.block \in Nat
<1>1. \A i \in DOMAIN txs : txs[i] \in Tx
  BY ElementsOf DEF TypeOK, ChainTypeOK
<1>2. \A i \in DOMAIN txs : /\ txs[i].epoch \in Epochs /\ txs[i].root \in [Account -> Nat]
                            /\ txs[i].allocated \in Nat
  BY <1>1 DEF Tx
<1>3. \A e \in Epochs : epochFiles[e] \in File
  BY DEF TypeOK, FilesTypeOK
<1>4. \A e \in Epochs : /\ epochFiles[e].windowEnd \in Nat /\ epochFiles[e].windowStart \in Nat
                        /\ epochFiles[e].root \in [Account -> Nat]
                        /\ epochFiles[e].allocated \in Nat
  BY <1>3 DEF File
<1>5. /\ draft \in File
      /\ view \in View /\ view.allocated \in Nat /\ view.epoch \in Nat /\ view.block \in Nat
  BY DEF TypeOK, MemoryTypeOK, View
<1>6. /\ draft.root \in [Account -> Nat] /\ draft.allocated \in Nat
      /\ draft.windowEnd \in Nat /\ draft.windowStart \in Nat
  BY <1>5 DEF File
<1>7. /\ state \in State /\ DOMAIN epochFiles = Epochs
      /\ latestEpoch \in Nat /\ allocated \in Nat /\ vaultMstr \in Nat /\ totalClaimed \in Nat
      /\ merkleRoot \in [Account -> Nat] /\ claimed \in [Account -> Nat] /\ now \in Nat
      /\ txs \in Seq(Tx) /\ MaxEpochs \in Nat
  BY PublisherAssumption DEF TypeOK, ChainTypeOK, FilesTypeOK, VaultTypeOK
<1>8. /\ state.latestEpoch \in 0..MaxEpochs
      /\ state.lastWindowEnd \in Nat /\ state.cumulative \in [Account -> Nat]
  BY <1>7 DEF State
<1>9. DOMAIN txs = 1..Len(txs) /\ Len(txs) \in Nat
  BY <1>7
<1> QED
  BY <1>2, <1>3, <1>4, <1>5, <1>6, <1>7, <1>8, <1>9 DEF Epochs

\* Only a snapshot changes what a file says, and only the file of the next epoch.
LEMMA FilesStay ==
  ASSUME TypeOK, EpochsInStep, FilesInStep, DraftInStep, [Next]_vars
  PROVE  /\ \A e \in Epochs : e # state.latestEpoch + 1 => SameFile(e)
         /\ Preparing \/ \A e \in Epochs : SameFile(e)
         /\ \A e \in Epochs : epochFiles[e].status # "none" => epochFiles'[e].status # "none"
<1>1. CASE UNCHANGED epochFiles
  BY <1>1 DEF SameFile
<1>2. ASSUME NEW e \in Epochs, NEW file \in File, epochFiles' = [epochFiles EXCEPT ![e] = file]
      PROVE  /\ epochFiles'[e] = file
             /\ \A d \in Epochs : d # e => epochFiles'[d] = epochFiles[d] /\ SameFile(d)
  BY <1>2, Types DEF SameFile
<1>3. CASE Quietly(SaveRecoveredFile)
  <2> DEFINE e == state.latestEpoch
             file == [epochFiles[e] EXCEPT !.status = "published-recovered"]
  <2>1. e \in Epochs /\ epochFiles[e].status # "none"
    BY <1>3, Types DEF Quietly, SaveRecoveredFile, EpochsInStep, StagesInStep, Repairing, FilesInStep
  <2>2. epochFiles[e] \in File
    BY <2>1, Types
  <2>3. /\ file.windowStart = epochFiles[e].windowStart /\ file.windowEnd = epochFiles[e].windowEnd
        /\ file.root = epochFiles[e].root /\ file.allocated = epochFiles[e].allocated
        /\ file.status = "published-recovered" /\ file \in File
    BY <2>2 DEF File
  <2>4. epochFiles' = [epochFiles EXCEPT ![e] = file]
    BY <1>3 DEF Quietly, SaveRecoveredFile
  <2> HIDE DEF file
  <2>5. /\ epochFiles'[e] = file
        /\ \A d \in Epochs : d # e => epochFiles'[d] = epochFiles[d] /\ SameFile(d)
    BY <1>2, <2>1, <2>3, <2>4
  <2>6. SameFile(e)
    BY <2>1, <2>3, <2>5 DEF SameFile
  <2> HIDE DEF e
  <2>7. \A d \in Epochs : SameFile(d)
    BY <2>5, <2>6
  <2> QED
    BY <2>7 DEF SameFile
<1>4. CASE Quietly(PublishFile)
  <2> DEFINE e == state.latestEpoch + 1
             file == [draft EXCEPT !.status = "published"]
  <2>1. step \in Snapshotted /\ e \in Epochs
    BY <1>4, Types DEF Quietly, PublishFile, EpochsInStep, StagesInStep, Snapshotted, Confirmed
  <2>2. /\ epochFiles[e].windowStart = draft.windowStart /\ epochFiles[e].windowEnd = draft.windowEnd
        /\ epochFiles[e].root = draft.root /\ epochFiles[e].allocated = draft.allocated
        /\ epochFiles[e].status # "none"
    BY <2>1 DEF DraftInStep
  <2>3. /\ file.windowStart = draft.windowStart /\ file.windowEnd = draft.windowEnd
        /\ file.root = draft.root /\ file.allocated = draft.allocated
        /\ file.status = "published" /\ file \in File
    BY Types DEF File
  <2>4. epochFiles' = [epochFiles EXCEPT ![e] = file]
    BY <1>4 DEF Quietly, PublishFile
  <2> HIDE DEF file
  <2>5. /\ epochFiles'[e] = file
        /\ \A d \in Epochs : d # e => epochFiles'[d] = epochFiles[d] /\ SameFile(d)
    BY <1>2, <2>1, <2>3, <2>4
  <2>6. SameFile(e)
    BY <2>2, <2>3, <2>5 DEF SameFile
  <2> HIDE DEF e
  <2>7. \A d \in Epochs : SameFile(d)
    BY <2>5, <2>6
  <2> QED
    BY <2>7 DEF SameFile
<1>5. CASE Preparing
  <2> DEFINE e == state.latestEpoch + 1
  <2>1. e \in Epochs /\ draft' \in File /\ epochFiles' = [epochFiles EXCEPT ![e] = draft']
    <3>1. draft' \in File
      BY MemoryTypeStep DEF MemoryTypeOK
    <3> QED
      BY <1>5, <3>1, Types DEF Preparing, Prepare
  <2>2. /\ epochFiles'[e] = draft'
        /\ \A d \in Epochs : d # e => epochFiles'[d] = epochFiles[d] /\ SameFile(d)
    BY <1>2, <2>1
  <2>3. draft'.status # "none"
    <3> DEFINE given == view.allocated + draft.reward
               root == Cumulative(HolderWeights)
    <3>1. draft' = [draft EXCEPT !.status = "prepared", !.allocated = given, !.root = root]
      BY <1>5 DEF Preparing, Prepare
    <3> HIDE DEF given, root
    <3> QED
      BY <3>1, Types DEF File
  <2> QED
    BY <1>5, <2>2, <2>3
<1>6. UNCHANGED epochFiles \/ Quietly(SaveRecoveredFile) \/ Quietly(PublishFile) \/ Preparing
  BY StepCases DEF Quietly, Preparing, Begin, Answer, Recover, SaveRecoveredLatest, ListRecovered, Match, Observe,
     NothingNew, ReadReward, UpdateTransferCache, Send, Await, SaveState,
     PublishLatest, PublishHistory, Stop, DropTx, Clock, vars, pubVars, fileVars
<1> QED
  BY <1>1, <1>3, <1>4, <1>5, <1>6

\* The state follows the chain by one epoch, or stays.
StateFields == <<state.latestEpoch, state.lastWindowEnd, state.cumulative>>

\* Only a recovery and the save of a tick change what the state file has of an epoch.
LEMMA StateStays ==
  ASSUME TypeOK, [Next]_vars
  PROVE  Quietly(Recover) \/ Quietly(SaveState) \/ UNCHANGED StateFields
<1>1. ASSUME NEW target \in Levels, Observe(target) PROVE UNCHANGED StateFields
  BY <1>1, Types DEF Observe, StateFields, State
<1>2. CASE UNCHANGED state
  BY <1>2 DEF StateFields
<1>3. \/ Quietly(Recover) \/ Quietly(SaveState) \/ \E target \in Levels : Observe(target)
      \/ UNCHANGED state
  BY StepCases DEF Quietly, Preparing, Begin, Answer, SaveRecoveredFile, SaveRecoveredLatest, ListRecovered, Match,
     NothingNew, ReadReward, UpdateTransferCache, Prepare, Send, Await, PublishFile,
     PublishLatest, PublishHistory, Stop, DropTx, Clock, vars, pubVars, fileVars
<1> QED
  BY <1>1, <1>2, <1>3

\* What those two write.
LEMMA StateMoves ==
  ASSUME TypeOK, EpochsInStep
  PROVE  /\ Quietly(Recover) =>
              /\ latestEpoch = state.latestEpoch + 1
              /\ state'.latestEpoch = latestEpoch
              /\ state'.lastWindowEnd = epochFiles[latestEpoch].windowEnd
              /\ state'.cumulative = epochFiles[latestEpoch].root
              /\ UNCHANGED <<vaultVars, txs, epochFiles, draft>> /\ step' = "recovered"
         /\ Quietly(SaveState) =>
              /\ step = "listed" /\ step' = "idle"
              /\ state'.latestEpoch = state.latestEpoch + 1
              /\ state'.lastWindowEnd = draft.windowEnd
              /\ state'.cumulative = draft.root
              /\ UNCHANGED <<vaultVars, txs, epochFiles>>
<1>1. ASSUME NEW e, NEW end, NEW given,
             state' = [state EXCEPT !.latestEpoch = e, !.lastWindowEnd = end, !.cumulative = given]
      PROVE  state'.latestEpoch = e /\ state'.lastWindowEnd = end /\ state'.cumulative = given
  BY <1>1, Types DEF State
<1>2. ASSUME Quietly(Recover)
      PROVE  /\ latestEpoch = state.latestEpoch + 1
             /\ state'.latestEpoch = latestEpoch
             /\ state'.lastWindowEnd = epochFiles[latestEpoch].windowEnd
             /\ state'.cumulative = epochFiles[latestEpoch].root
             /\ UNCHANGED <<vaultVars, txs, epochFiles, draft>> /\ step' = "recovered"
  <2>1. state' = [state EXCEPT !.latestEpoch = view.epoch,
                               !.lastWindowEnd = epochFiles[view.epoch].windowEnd,
                               !.cumulative = epochFiles[view.epoch].root]
    BY <1>2 DEF Quietly, Recover, Recovered
  <2>2. latestEpoch = state.latestEpoch + 1 /\ view.epoch = latestEpoch
    BY <1>2, Types DEF Quietly, Recover, EpochsInStep, StagesInStep, ViewInStep
  <2>3. UNCHANGED <<vaultVars, txs, epochFiles, draft>> /\ step' = "recovered"
    BY <1>2 DEF Quietly, Recover
  <2> QED
    BY <1>1, <2>1, <2>2, <2>3
<1>3. ASSUME Quietly(SaveState)
      PROVE  /\ step = "listed" /\ step' = "idle"
             /\ state'.latestEpoch = state.latestEpoch + 1
             /\ state'.lastWindowEnd = draft.windowEnd
             /\ state'.cumulative = draft.root
             /\ UNCHANGED <<vaultVars, txs, epochFiles>>
  <2>1. state' = [state EXCEPT !.latestEpoch = state.latestEpoch + 1,
                               !.lastWindowEnd = draft.windowEnd, !.cumulative = draft.root]
    BY <1>3 DEF Quietly, SaveState
  <2>2. step = "listed" /\ step' = "idle" /\ UNCHANGED <<vaultVars, txs, epochFiles>>
    BY <1>3 DEF Quietly, SaveState, Forget
  <2> QED
    BY <1>1, <2>1, <2>2
<1> QED
  BY <1>2, <1>3

\* The state keeps the window end and the amounts of its epoch's file.
LEMMA StateInStepHolds ==
  ASSUME TypeOK, EpochsInStep, RecordsInStep, [Next]_vars
  PROVE  StateInStep'
<1> USE DEF RecordsInStep, StateInStep, EndOf, RootOf, RootIn
<1>1. CASE Quietly(Recover)
  <2>1. latestEpoch # 0
    BY <1>1, StateMoves, Types
  <2> QED
    BY <1>1, <2>1, StateMoves
<1>2. CASE Quietly(SaveState)
  <2>1. state.latestEpoch + 1 # 0
    BY Types
  <2>2. draft.windowEnd = epochFiles[state.latestEpoch + 1].windowEnd
        /\ draft.root = epochFiles[state.latestEpoch + 1].root
    BY <1>2, StateMoves DEF DraftInStep, Snapshotted, Confirmed
  <2> QED
    BY <1>2, <2>1, <2>2, StateMoves
<1>3. CASE UNCHANGED StateFields
  <2>1. CASE state.latestEpoch = 0
    BY <1>3, <2>1 DEF StateFields, NoRoot
  <2>2. CASE state.latestEpoch # 0
    <3>1. state.latestEpoch \in Epochs /\ state.latestEpoch # state.latestEpoch + 1
      BY <2>2, Types
    <3>2. SameFile(state.latestEpoch)
      BY <3>1, FilesStay
    <3> QED
      BY <1>3, <2>2, <3>2 DEF StateFields, SameFile
  <2> QED
    BY <2>1, <2>2
<1> QED
  BY <1>1, <1>2, <1>3, StateStays

\* The windows of the files keep meeting.
LEMMA FilesInStepHolds ==
  ASSUME TypeOK, EpochsInStep, RecordsInStep, [Next]_vars
  PROVE  FilesInStep'
<1> USE DEF RecordsInStep
<1>1. /\ state'.latestEpoch >= state.latestEpoch /\ state'.latestEpoch \in Nat
  BY StateStays, StateMoves, Types DEF StateFields
<1>2. ASSUME NEW e \in Epochs, epochFiles'[e].status # "none"
      PROVE  e <= state'.latestEpoch + 1 /\ epochFiles'[e].windowStart = EndOf(e - 1)'
  <2>1. ASSUME SameFile(e) PROVE e <= state.latestEpoch + 1 /\ epochFiles'[e].windowStart = EndOf(e - 1)
    BY <1>2, <2>1 DEF SameFile, FilesInStep
  <2>2. ASSUME Preparing, e = state.latestEpoch + 1
        PROVE  e <= state.latestEpoch + 1 /\ epochFiles'[e].windowStart = EndOf(e - 1)
    <3> DEFINE given == view.allocated + draft.reward
               root == Cumulative(HolderWeights)
    <3>1. draft' = [draft EXCEPT !.status = "prepared", !.allocated = given, !.root = root]
          /\ epochFiles' = [epochFiles EXCEPT ![e] = draft']
      BY <2>2 DEF Preparing, Prepare
    <3> HIDE DEF given, root
    <3>2. draft'.windowStart = draft.windowStart /\ epochFiles'[e] = draft'
      BY <3>1, Types DEF File
    <3>3. draft.windowStart = state.lastWindowEnd
      BY <2>2 DEF Preparing, Prepare, DraftInStep, Drafted
    <3>4. e - 1 = state.latestEpoch
      BY <2>2, Types
    <3> QED
      BY <2>2, <3>2, <3>3, <3>4, Types DEF StateInStep
  <2>3. e <= state.latestEpoch + 1 /\ epochFiles'[e].windowStart = EndOf(e - 1)
    BY <2>1, <2>2, FilesStay
  <2>4. EndOf(e - 1)' = EndOf(e - 1)
    <3>1. CASE e = 1
      BY <3>1 DEF EndOf
    <3>2. CASE e # 1
      <4>0. e \in 1..MaxEpochs /\ MaxEpochs \in Nat /\ Epochs = 1..MaxEpochs
            /\ state.latestEpoch \in 0..MaxEpochs
        BY Types
      <4>1. e - 1 \in Epochs /\ e - 1 # state.latestEpoch + 1 /\ e - 1 # 0
        BY <2>3, <3>2, <4>0
      <4>2. SameFile(e - 1)
        BY <4>1, FilesStay
      <4> QED
        BY <4>1, <4>2 DEF SameFile, EndOf
    <3> QED
      BY <3>1, <3>2
  <2>5. e <= state'.latestEpoch + 1
    BY <1>1, <2>3, Types
  <2> QED
    BY <2>3, <2>4, <2>5
<1>3. ASSUME NEW e \in 1..latestEpoch' PROVE epochFiles'[e].status # "none"
  <2>1. e \in Epochs
    <3>1. latestEpoch' <= MaxEpochs /\ latestEpoch' \in Nat
      BY EpochsStep, ChainTypeStep DEF EpochsInStep, StagesInStep, ChainTypeOK, VaultTypeOK
    <3> QED
      BY <3>1, Types
  <2>2. epochFiles[e].status # "none"
    <3>1. CASE UNCHANGED latestEpoch
      BY <3>1 DEF FilesInStep
    <3>2. ASSUME NEW i \in Pending, PublishTx(i) PROVE epochFiles[e].status # "none"
      <4>1. latestEpoch' = txs[i].epoch /\ txs[i].epoch > latestEpoch /\ i \in DOMAIN txs
        BY <3>2 DEF PublishTx, PublishDistribution, Accepts, Pending
      <4>2. epochFiles[txs[i].epoch].status # "none"
        BY <4>1 DEF TxsInStep
      <4>3. e = txs[i].epoch \/ e \in 1..latestEpoch
        <5>1. /\ txs[i].epoch <= state.latestEpoch + 1 /\ state.latestEpoch <= latestEpoch
          BY <4>1 DEF EpochsInStep, StagesInStep
        <5>2. /\ txs[i].epoch \in Int /\ state.latestEpoch \in Int /\ latestEpoch \in Nat
              /\ e \in 1..latestEpoch'
          BY <4>1, Types
        <5> QED
          BY <4>1, <5>1, <5>2
      <4> QED
        BY <4>2, <4>3 DEF FilesInStep
    <3>3. UNCHANGED latestEpoch \/ \E i \in Pending : PublishTx(i)
      BY StepCases DEF Quietly, Preparing, Begin, Answer, Stop, Send, RevertTx, DropTx, Clock, Claim, FundVault, PauseVault,
         vars, vaultVars
    <3> QED
      BY <3>1, <3>2, <3>3
  <2> QED
    BY <2>1, <2>2, FilesStay
<1> QED
  BY <1>2, <1>3 DEF FilesInStep
\* The snapshot in memory keeps starting where the state ends, and only adds amounts.
LEMMA DraftInStepHolds ==
  ASSUME TypeOK, EpochsInStep, RecordsInStep, [Next]_vars
  PROVE  DraftInStep'
<1> USE DEF RecordsInStep, Drafted, Snapshotted, Confirmed
<1>1. ASSUME step' \in {"idle", "reading", "matched"} \cup Repairing PROVE DraftInStep'
  BY <1>1 DEF DraftInStep, Repairing
<1>2. ASSUME UNCHANGED StateFields, UNCHANGED draft, now' \in Nat, now' >= now,
             \/ step' = step
             \/ step = "read" /\ step' = "indexed"
             \/ step \in Snapshotted /\ step' \in Snapshotted,
             state.latestEpoch + 1 \in Epochs => SameFile(state.latestEpoch + 1)
      PROVE  DraftInStep'
  <2>1. step' \in Snapshotted => step \in Snapshotted /\ SameFile(state.latestEpoch + 1)
    BY <1>2, Types DEF EpochsInStep, StagesInStep
  <2>2. step' \in Drafted => step \in Drafted
    BY <1>2
  <2>3. draft.windowEnd <= now => draft.windowEnd <= now'
    BY <1>2, Types
  <2> QED
    BY <1>2, <2>1, <2>2, <2>3 DEF DraftInStep, StateFields, SameFile
<1>3. ASSUME NEW target \in Levels, Observe(target), UNCHANGED now PROVE DraftInStep'
  <2>1. CASE Forget
    BY <1>1, <2>1 DEF Forget
  <2>2. CASE ~Forget
    <3> DEFINE file == [NoFile EXCEPT !.windowStart = state.lastWindowEnd,
                                      !.windowEnd = IndexedBlock]
    <3>1. draft' = file /\ step' = "due"
      BY <1>3, <2>2 DEF Observe
    <3>2. file.windowStart = state.lastWindowEnd /\ file.windowEnd = IndexedBlock
      BY DEF NoFile
    <3>3. IndexedBlock <= now
      <4>1. view.block <= now
        BY <1>3 DEF Observe, EpochsInStep, ViewInStep
      <4> QED
        BY <4>1, PublisherAssumption, Types DEF IndexedBlock
    <3>4. state'.lastWindowEnd = state.lastWindowEnd
      BY <1>3, Types DEF Observe, State
    <3> HIDE DEF file
    <3> QED
      BY <1>3, <3>1, <3>2, <3>3, <3>4 DEF DraftInStep
  <2> QED
    BY <2>1, <2>2
<1>4. CASE Quietly(ReadReward)
  <2> DEFINE reward == NewReward
  <2>1. /\ draft' = [draft EXCEPT !.reward = reward] /\ step = "due" /\ step' = "read"
        /\ UNCHANGED <<state, now>>
    BY <1>4 DEF Quietly, ReadReward, fileVars
  <2> HIDE DEF reward
  <2>2. draft'.windowStart = draft.windowStart /\ draft'.windowEnd = draft.windowEnd
    BY <2>1, Types DEF File
  <2> QED
    BY <2>1, <2>2 DEF DraftInStep
<1>5. CASE Preparing
  <2> DEFINE given == view.allocated + draft.reward
             root == Cumulative(HolderWeights)
             e == state.latestEpoch + 1
  <2>1. /\ draft' = [draft EXCEPT !.status = "prepared", !.allocated = given, !.root = root]
        /\ epochFiles' = [epochFiles EXCEPT ![e] = draft']
        /\ step = "indexed" /\ step' = "prepared" /\ UNCHANGED <<state, now>>
        /\ state.latestEpoch < MaxEpochs
    BY <1>5 DEF Preparing, Prepare
  <2>2. \A a \in Account : root[a] >= state.cumulative[a]
    BY <1>5, SnapshotFits DEF Preparing, Prepare
  <2> HIDE DEF given, root
  <2>3. /\ draft'.windowStart = draft.windowStart /\ draft'.windowEnd = draft.windowEnd
        /\ draft'.root = root /\ draft'.allocated = given /\ draft'.status = "prepared"
    BY <2>1, Types DEF File
  <2>4. e \in Epochs
    BY <2>1, Types
  <2>5. epochFiles'[e] = draft'
    BY <2>1, <2>4, Types
  <2> QED
    BY <2>1, <2>2, <2>3, <2>5 DEF DraftInStep
<1>6. \/ Preparing \/ (state.latestEpoch + 1 \in Epochs => SameFile(state.latestEpoch + 1))
  BY FilesStay
<1>7. now' \in Nat /\ now' >= now
  <2>1. now' = now \/ now' = now + 1
    BY StepCases DEF Quietly, Preparing, Begin, Answer, Stop, DropTx, Clock, vars, pubVars
  <2> QED
    BY <2>1, Types
<1>8. ASSUME NEW i \in Pending, PublishTx(i) \/ RevertTx(i),
             UNCHANGED <<now, fileVars, memoryVars, ghostVars>>
      PROVE  UNCHANGED <<draft, step>> /\ UNCHANGED StateFields
  BY <1>8 DEF memoryVars, fileVars, StateFields
<1>9. \/ step' \in {"idle", "reading", "matched"} \cup Repairing
      \/ \E target \in Levels : Observe(target) /\ UNCHANGED now
      \/ Quietly(ReadReward) \/ Preparing
      \/ /\ UNCHANGED StateFields /\ UNCHANGED draft
         /\ \/ step' = step
            \/ step = "read" /\ step' = "indexed"
            \/ step \in Snapshotted /\ step' \in Snapshotted
  BY StepCases DEF Quietly, Preparing, Begin, Answer, Recover, SaveRecoveredFile, SaveRecoveredLatest, ListRecovered, Match,
     NothingNew, UpdateTransferCache, Send, Await, PublishFile, PublishLatest, PublishHistory,
     SaveState, Stop, Forget, DropTx, Clock, vars, pubVars, fileVars, memoryVars, StateFields,
     Repairing
<1> QED
  BY <1>1, <1>2, <1>3, <1>4, <1>5, <1>6, <1>7, <1>9

\* What was sent for the next epoch keeps adding to the amounts of the state.
LEMMA TxsInStepHolds ==
  ASSUME TypeOK, EpochsInStep, RecordsInStep, [Next]_vars
  PROVE  TxsInStep'
<1> USE DEF RecordsInStep
<1>1. ASSUME NEW e \in Epochs, e <= state.latestEpoch + 1
      PROVE  RootIn(epochFiles', e - 1) = RootIn(epochFiles, e - 1)
  <2>1. CASE e = 1
    BY <2>1 DEF RootIn
  <2>2. CASE e # 1
    <3>1. e - 1 \in Epochs /\ e - 1 # state.latestEpoch + 1 /\ e - 1 # 0
      BY <1>1, <2>2, Types
    <3>2. SameFile(e - 1)
      BY <3>1, FilesStay
    <3> QED
      BY <3>1, <3>2 DEF SameFile, RootIn
  <2> QED
    BY <2>1, <2>2
<1>2. ASSUME NEW i \in DOMAIN txs
      PROVE  /\ epochFiles'[txs[i].epoch].status # "none"
             /\ \A a \in Account : txs[i].root[a] >= RootIn(epochFiles', txs[i].epoch - 1)[a]
  <2>1. txs[i].epoch \in Epochs /\ txs[i].epoch <= state.latestEpoch + 1
    BY Types DEF EpochsInStep, StagesInStep
  <2>2. epochFiles'[txs[i].epoch].status # "none"
    BY <2>1, FilesStay DEF TxsInStep
  <2>3. RootIn(epochFiles', txs[i].epoch - 1) = RootIn(epochFiles, txs[i].epoch - 1)
    BY <1>1, <2>1
  <2> QED
    BY <2>2, <2>3 DEF TxsInStep, RootOf
<1>3. ASSUME NEW i, NEW outcome, OneOutcome(i, outcome) PROVE TxsInStep'
  BY <1>2, <1>3 DEF OneOutcome, TxsInStep, RootOf
<1>4. CASE UNCHANGED txs
  BY <1>2, <1>4 DEF TxsInStep, RootOf
<1>5. CASE Send /\ UNCHANGED <<vaultVars, now, ghostVars>>
  <2> DEFINE e == state.latestEpoch + 1
             tx == [epoch |-> e, root |-> draft.root,
                    allocated |-> draft.allocated, outcome |-> "pending"]
  <2>1. /\ tx.epoch = e /\ tx.root = draft.root
        /\ txs' = Append(txs, tx) /\ UNCHANGED <<epochFiles, state>> /\ step = "prepared"
    BY <1>5 DEF Send, fileVars
  <2> HIDE DEF tx
  <2>2. /\ DOMAIN txs' = 1..(Len(txs) + 1) /\ txs'[Len(txs) + 1] = tx
        /\ \A i \in DOMAIN txs : txs'[i] = txs[i]
    BY <2>1, Types
  <2>3. \A i \in DOMAIN txs' : i = Len(txs) + 1 \/ i \in DOMAIN txs
    BY <2>2, Types
  <2>4. /\ epochFiles[e].status # "none"
        /\ \A a \in Account : draft.root[a] >= state.cumulative[a]
    BY <2>1 DEF DraftInStep, Snapshotted
  <2>5. state.cumulative = RootIn(epochFiles', e - 1)
    BY <2>1, Types DEF StateInStep, RootOf
  <2>6. /\ epochFiles'[tx.epoch].status # "none"
        /\ \A a \in Account : tx.root[a] >= RootIn(epochFiles', tx.epoch - 1)[a]
    BY <2>1, <2>4, <2>5
  <2> QED
    BY <1>2, <2>2, <2>3, <2>6 DEF TxsInStep, RootOf
<1>6. \/ UNCHANGED txs
      \/ Send /\ UNCHANGED <<vaultVars, now, ghostVars>>
      \/ \E i \in Pending : PublishTx(i) \/ RevertTx(i)
      \/ DropTx
  BY StepCases DEF Quietly, Preparing, Begin, Answer, Stop, Clock, vars, pubVars
<1> QED
  BY <1>3, <1>4, <1>5, <1>6, MinedOrDropped

\* Every step keeps the records in step with one another.
LEMMA RecordsStep ==
  ASSUME TypeOK, EpochsInStep, RecordsInStep, [Next]_vars
  PROVE  RecordsInStep'
BY FilesInStepHolds, StateInStepHolds, DraftInStepHolds, TxsInStepHolds DEF RecordsInStep

-----------------------------------------------------------------------------
(* Amounts                                                                 *)

\* What the vault has is what the last published transaction committed to.
ChainRecorded ==
  IF latestEpoch = 0 THEN merkleRoot = NoRoot /\ allocated = 0
  ELSE \E i \in DOMAIN txs :
         /\ txs[i].outcome = "published" /\ txs[i].epoch = latestEpoch
         /\ txs[i].root = merkleRoot /\ txs[i].allocated = allocated

Sum(f) == SumFunctionOnSet(f, Account)

ClaimsCounted == totalClaimed = Sum(claimed) /\ AllocationsFunded

\* An epoch the state has passed is on the chain with another snapshot than on
\* disk: from then on the publisher adds to amounts that nobody was given.
Diverged ==
  \E i \in DOMAIN txs :
    /\ txs[i].outcome = "published" /\ txs[i].epoch <= state.latestEpoch
    /\ \/ epochFiles[txs[i].epoch].root # txs[i].root
       \/ epochFiles[txs[i].epoch].allocated # txs[i].allocated

\* Otherwise no root is below what was claimed, and, unless an epoch was counted twice,
\* every root adds up to its total: of the vault, of what was sent, and of a snapshot
\* that the vault would still accept.
SumsAgree ==
  ~Diverged =>
    /\ \A a \in Account : merkleRoot[a] >= claimed[a]
    /\ recounted = {} =>
         /\ \A i \in DOMAIN txs : Sum(txs[i].root) = txs[i].allocated
         /\ step = "prepared" /\ latestEpoch = state.latestEpoch => Sum(draft.root) = draft.allocated
         /\ Sum(merkleRoot) = allocated

\* What a step of the chain does to the vault.
LEMMA VaultMoves ==
  ASSUME [Next]_vars
  PROVE  \/ UNCHANGED vaultVars
         \/ \E i \in Pending : PublishTx(i) /\ UNCHANGED <<now, fileVars, memoryVars, ghostVars>>
         \/ \E a \in Account : Claim(a) /\ UNCHANGED pubVars
         \/ \E amount \in Funding : FundVault(amount) /\ UNCHANGED pubVars
         \/ PauseVault /\ UNCHANGED pubVars
BY StepCases DEF Quietly, Preparing, Begin, Answer, Stop, Send, RevertTx, DropTx, Clock, vars

\* Transactions are added, mined and dropped, and stay what they are.
LEMMA TxsMove ==
  ASSUME TypeOK, [Next]_vars
  PROVE  /\ DOMAIN txs \subseteq DOMAIN txs'
         /\ \A i \in DOMAIN txs :
              /\ txs'[i].epoch = txs[i].epoch /\ txs'[i].root = txs[i].root
              /\ txs'[i].allocated = txs[i].allocated
              /\ txs[i].outcome = "published" => txs'[i].outcome = "published"
         /\ \A i \in DOMAIN txs' \ DOMAIN txs :
              /\ Send /\ UNCHANGED <<vaultVars, now, ghostVars>>
              /\ txs'[i].epoch = state.latestEpoch + 1 /\ txs'[i].root = draft.root
              /\ txs'[i].allocated = draft.allocated /\ txs'[i].outcome = "pending"
<1>1. ASSUME NEW i \in Pending, NEW outcome, OneOutcome(i, outcome)
      PROVE  /\ DOMAIN txs' = DOMAIN txs
             /\ \A j \in DOMAIN txs :
                  /\ txs'[j].epoch = txs[j].epoch /\ txs'[j].root = txs[j].root
                  /\ txs'[j].allocated = txs[j].allocated
                  /\ txs[j].outcome = "published" => txs'[j].outcome = "published"
  BY <1>1 DEF OneOutcome, Pending
<1>2. CASE UNCHANGED txs
  BY <1>2
<1>3. CASE Send /\ UNCHANGED <<vaultVars, now, ghostVars>>
  <2> DEFINE tx == [epoch |-> state.latestEpoch + 1, root |-> draft.root,
                    allocated |-> draft.allocated, outcome |-> "pending"]
  <2>1. /\ tx.epoch = state.latestEpoch + 1 /\ tx.root = draft.root
        /\ tx.allocated = draft.allocated /\ tx.outcome = "pending"
        /\ txs' = Append(txs, tx)
    BY <1>3 DEF Send
  <2> HIDE DEF tx
  <2>2. /\ DOMAIN txs' = 1..(Len(txs) + 1) /\ txs'[Len(txs) + 1] = tx
        /\ \A i \in DOMAIN txs : txs'[i] = txs[i]
    BY <2>1, Types
  <2>3. \A i \in DOMAIN txs' : i = Len(txs) + 1 \/ i \in DOMAIN txs
    BY <2>2, Types
  <2>4. DOMAIN txs \subseteq DOMAIN txs'
    BY <2>2, Types
  <2> QED
    BY <1>3, <2>1, <2>2, <2>3, <2>4
<1>4. \/ UNCHANGED txs
      \/ Send /\ UNCHANGED <<vaultVars, now, ghostVars>>
      \/ \E i \in Pending : PublishTx(i) \/ RevertTx(i)
      \/ DropTx
  BY StepCases DEF Quietly, Preparing, Begin, Answer, Stop, Clock, vars, pubVars
<1>5. ASSUME NEW i \in Pending, PublishTx(i) \/ RevertTx(i) \/ (DropTx /\ i = Len(txs))
      PROVE  \E outcome : OneOutcome(i, outcome)
  BY <1>5, MinedOrDropped
<1> QED
  BY <1>1, <1>2, <1>3, <1>4, <1>5, MinedOrDropped

\* The vault changes only by a transaction that is then marked published.
LEMMA ChainRecordedStep ==
  ASSUME TypeOK, ChainRecorded, [Next]_vars
  PROVE  ChainRecorded'
<1>1. ASSUME NEW i \in Pending, PublishTx(i) PROVE ChainRecorded'
  <2>1. OneOutcome(i, "published")
    BY <1>1, MinedOrDropped
  <2>2. /\ latestEpoch' = txs[i].epoch /\ merkleRoot' = txs[i].root /\ allocated' = txs[i].allocated
        /\ i \in DOMAIN txs
    BY <1>1 DEF PublishTx, PublishDistribution, Pending
  <2>3. txs[i].epoch # 0
    BY <2>2, Types
  <2> QED
    BY <2>1, <2>2, <2>3 DEF OneOutcome, ChainRecorded
<1>2. CASE UNCHANGED <<latestEpoch, merkleRoot, allocated>>
  BY <1>2, TxsMove DEF ChainRecorded, NoRoot
<1>3. UNCHANGED <<latestEpoch, merkleRoot, allocated>> \/ \E i \in Pending : PublishTx(i)
  BY VaultMoves DEF vaultVars, Claim, FundVault, PauseVault
<1> QED
  BY <1>1, <1>2, <1>3

\* A claim adds the same to the total and to the claims it is the total of.
LEMMA ClaimsCountedStep ==
  ASSUME TypeOK, ClaimsCounted, [Next]_vars
  PROVE  ClaimsCounted'
<1> USE DEF ClaimsCounted, AllocationsFunded, Sum
<1>1. ASSUME NEW a \in Account, Claim(a) PROVE ClaimsCounted'
  <2> DEFINE amount == merkleRoot[a] - claimed[a]
  <2>1. merkleRoot[a] \in Nat /\ claimed[a] \in Nat
    BY Types
  <2>2. /\ amount \in Nat /\ amount <= vaultMstr /\ allocated' = allocated
        /\ totalClaimed' = totalClaimed + amount /\ vaultMstr' = vaultMstr - amount
        /\ claimed' = [claimed EXCEPT ![a] = merkleRoot[a]]
    BY <1>1, <2>1 DEF Claim
  <2>3. /\ IsFiniteSet(Account) /\ claimed'[a] = merkleRoot[a]
        /\ \A b \in Account : claimed[b] \in Int /\ claimed'[b] \in Int
        /\ \A b \in Account \ {a} : claimed'[b] = claimed[b]
    BY <2>1, <2>2, PublisherAssumption, Types
  <2>4. SumFunctionOnSet(claimed', Account)
        = SumFunctionOnSet(claimed, Account) - claimed[a] + claimed'[a]
    BY <2>3, SumChange
  <2>5. SumFunctionOnSet(claimed, Account) \in Int
    BY <2>3, SumTake
  <2>6. totalClaimed' = SumFunctionOnSet(claimed', Account)
    BY <2>1, <2>2, <2>3, <2>4, <2>5
  <2>7. vaultMstr' + totalClaimed' = vaultMstr + totalClaimed
    BY <2>2, Types
  <2> QED
    BY <2>2, <2>6, <2>7
<1>2. ASSUME NEW amount \in Funding, FundVault(amount) PROVE ClaimsCounted'
  <2>1. amount \in Nat
    BY PublisherAssumption
  <2> QED
    BY <1>2, <2>1, Types DEF FundVault
<1>3. ASSUME NEW i \in Pending, PublishTx(i) PROVE ClaimsCounted'
  BY <1>3 DEF PublishTx, PublishDistribution, Accepts
<1>4. CASE PauseVault
  BY <1>4 DEF PauseVault
<1>5. CASE UNCHANGED vaultVars
  BY <1>5 DEF vaultVars
<1> QED
  BY <1>1, <1>2, <1>3, <1>4, <1>5, VaultMoves

\* What has diverged stays so.
LEMMA DivergedStays ==
  ASSUME TypeOK, EpochsInStep, RecordsInStep, Diverged, [Next]_vars
  PROVE  Diverged'
<1>1. PICK i \in DOMAIN txs :
        /\ txs[i].outcome = "published" /\ txs[i].epoch <= state.latestEpoch
        /\ \/ epochFiles[txs[i].epoch].root # txs[i].root
           \/ epochFiles[txs[i].epoch].allocated # txs[i].allocated
  BY DEF Diverged
<1>2. txs[i].epoch \in Epochs /\ txs[i].epoch # state.latestEpoch + 1
  BY <1>1, Types
<1>3. SameFile(txs[i].epoch)
  BY <1>2, FilesStay DEF RecordsInStep
<1>4. state'.latestEpoch >= state.latestEpoch
  BY StateStays, StateMoves, Types DEF StateFields
<1>5. txs[i].epoch <= state'.latestEpoch
  <2>1. state'.latestEpoch \in Nat
    BY StateStays, StateMoves, Types DEF StateFields
  <2> QED
    BY <1>1, <1>2, <1>4, <2>1, Types
<1> QED
  BY <1>1, <1>3, <1>5, TxsMove DEF Diverged, SameFile

\* Until then the state has the amounts of the epoch it shares with the chain.
LEMMA StateIsChain ==
  ASSUME TypeOK, RecordsInStep, ChainRecorded, ~Diverged, latestEpoch = state.latestEpoch
  PROVE  state.cumulative = merkleRoot
<1>1. CASE latestEpoch = 0
  BY <1>1 DEF ChainRecorded, RecordsInStep, StateInStep, RootOf, RootIn
<1>2. CASE latestEpoch # 0
  <2>1. PICK i \in DOMAIN txs :
          /\ txs[i].outcome = "published" /\ txs[i].epoch = latestEpoch
          /\ txs[i].root = merkleRoot
    BY <1>2 DEF ChainRecorded
  <2>2. txs[i].epoch <= state.latestEpoch
    BY <2>1, Types
  <2>3. epochFiles[txs[i].epoch].root = txs[i].root
    BY <2>1, <2>2 DEF Diverged
  <2> QED
    BY <1>2, <2>1, <2>3 DEF RecordsInStep, StateInStep, RootOf, RootIn
<1> QED
  BY <1>1, <1>2

\* Until a record has diverged or an epoch was counted twice, every step keeps the sums:
\* the split of an epoch adds exactly its reward to the amounts the chain has.
LEMMA SumsStep ==
  ASSUME TypeOK, EpochsInStep, RecordsInStep, ChainRecorded, SumsAgree, [Next]_vars
  PROVE  SumsAgree'
<1> SUFFICES ASSUME ~Diverged'
             PROVE  /\ \A a \in Account : merkleRoot'[a] >= claimed'[a]
                    /\ recounted' = {} =>
                         /\ \A i \in DOMAIN txs' : Sum(txs'[i].root) = txs'[i].allocated
                         /\ step' = "prepared" /\ latestEpoch' = state'.latestEpoch =>
                              Sum(draft'.root) = draft'.allocated
                         /\ Sum(merkleRoot') = allocated'
  BY DEF SumsAgree, Sum
<1>1. ~Diverged
  BY DivergedStays
<1>2. \A a \in Account : merkleRoot[a] >= claimed[a]
  BY <1>1 DEF SumsAgree
<1>3. \A a \in Account : merkleRoot'[a] >= claimed'[a]
  <2>1. ASSUME NEW i \in Pending, PublishTx(i) PROVE \A a \in Account : merkleRoot'[a] >= claimed'[a]
    <3>1. /\ i \in DOMAIN txs /\ txs[i].epoch > latestEpoch /\ merkleRoot' = txs[i].root
          /\ claimed' = claimed
      BY <2>1 DEF PublishTx, PublishDistribution, Accepts, Pending
    <3>2. latestEpoch = state.latestEpoch /\ txs[i].epoch - 1 = state.latestEpoch
      <4>1. txs[i].epoch <= state.latestEpoch + 1 /\ state.latestEpoch <= latestEpoch
        BY <3>1 DEF EpochsInStep, StagesInStep
      <4>2. txs[i].epoch \in Int /\ state.latestEpoch \in Int /\ latestEpoch \in Int
        BY <3>1, Types
      <4> QED
        BY <3>1, <4>1, <4>2
    <3>3. state.cumulative = merkleRoot
      BY <1>1, <3>2, StateIsChain
    <3>4. \A a \in Account : txs[i].root[a] >= state.cumulative[a]
      BY <3>1, <3>2 DEF RecordsInStep, TxsInStep, StateInStep
    <3>5. \A a \in Account : txs[i].root[a] \in Nat /\ merkleRoot[a] \in Nat /\ claimed[a] \in Nat
      BY <3>1, Types
    <3> QED
      BY <1>2, <3>1, <3>3, <3>4, <3>5
  <2>2. ASSUME NEW a \in Account, Claim(a) PROVE \A b \in Account : merkleRoot'[b] >= claimed'[b]
    <3>1. merkleRoot' = merkleRoot /\ claimed' = [claimed EXCEPT ![a] = merkleRoot[a]]
      BY <2>2 DEF Claim
    <3>2. \A b \in Account : merkleRoot[b] \in Nat /\ claimed[b] \in Nat
      BY Types
    <3>3. \A b \in Account : claimed'[b] = IF b = a THEN merkleRoot[b] ELSE claimed[b]
      BY <3>1, Types
    <3> QED
      BY <1>2, <3>1, <3>2, <3>3
  <2>3. CASE UNCHANGED <<merkleRoot, claimed>>
    BY <1>2, <2>3
  <2>4. \/ UNCHANGED <<merkleRoot, claimed>>
        \/ \E i \in Pending : PublishTx(i)
        \/ \E a \in Account : Claim(a)
    BY VaultMoves DEF vaultVars, FundVault, PauseVault
  <2> QED
    BY <2>1, <2>2, <2>3, <2>4
<1>4. ASSUME recounted' = {}
      PROVE  /\ \A i \in DOMAIN txs' : Sum(txs'[i].root) = txs'[i].allocated
             /\ step' = "prepared" /\ latestEpoch' = state'.latestEpoch =>
                  Sum(draft'.root) = draft'.allocated
             /\ Sum(merkleRoot') = allocated'
  <2>1. recounted = {}
    <3>1. Preparing \/ UNCHANGED recounted
      BY StepCases DEF Quietly, Stop, DropTx, Clock, vars, pubVars, ghostVars
    <3> QED
      BY <1>4, <3>1 DEF Preparing, Prepare
  <2>2. /\ \A i \in DOMAIN txs : Sum(txs[i].root) = txs[i].allocated
        /\ step = "prepared" /\ latestEpoch = state.latestEpoch => Sum(draft.root) = draft.allocated
        /\ Sum(merkleRoot) = allocated
    BY <1>1, <2>1 DEF SumsAgree
  <2>3. \A i \in DOMAIN txs' : Sum(txs'[i].root) = txs'[i].allocated
    <3>1. \A i \in DOMAIN txs : Sum(txs'[i].root) = txs'[i].allocated
      BY <2>2, TxsMove
    <3>2. ASSUME NEW i \in DOMAIN txs' \ DOMAIN txs PROVE Sum(txs'[i].root) = txs'[i].allocated
      <4>1. /\ step = "prepared" /\ state.latestEpoch + 1 > latestEpoch
            /\ txs'[i].root = draft.root /\ txs'[i].allocated = draft.allocated
        BY TxsMove DEF Send, Accepts
      <4>2. latestEpoch = state.latestEpoch
        BY <4>1, Types DEF EpochsInStep, StagesInStep
      <4> QED
        BY <2>2, <4>1, <4>2
    <3> QED
      BY <3>1, <3>2
  <2>4. ASSUME step' = "prepared", latestEpoch' = state'.latestEpoch
        PROVE  Sum(draft'.root) = draft'.allocated
    <3>1. CASE Preparing
      <4> DEFINE given == view.allocated + draft.reward
                 root == Cumulative(HolderWeights)
      <4>1. draft' = [draft EXCEPT !.status = "prepared", !.allocated = given, !.root = root]
            /\ step = "indexed" /\ UNCHANGED <<state, latestEpoch>>
        BY <3>1 DEF Preparing, Prepare, vaultVars
      <4>2. Sum(root) = Sum(state.cumulative) + draft.reward
        BY <3>1, SnapshotFits DEF Preparing, Prepare, Sum
      <4>3. latestEpoch = state.latestEpoch /\ view.epoch = latestEpoch
        BY <2>4, <4>1 DEF EpochsInStep, ViewInStep
      <4>4. view.allocated = allocated
        BY <1>4, <3>1, <4>3 DEF Preparing, Prepare, Torn
      <4>5. state.cumulative = merkleRoot
        BY <1>1, <4>3, StateIsChain
      <4>6. Sum(root) = given
        BY <2>2, <4>2, <4>4, <4>5
      <4> HIDE DEF given, root
      <4>7. draft'.root = root /\ draft'.allocated = given
        BY <4>1, Types DEF File
      <4> QED
        BY <4>6, <4>7
    <3>2. CASE step = "prepared" /\ UNCHANGED <<draft, state>>
      <4>1. latestEpoch = state.latestEpoch
        <5>1. latestEpoch' = latestEpoch \/ \E i \in Pending : PublishTx(i)
          BY VaultMoves DEF vaultVars, Claim, FundVault, PauseVault
        <5>2. ASSUME NEW i \in Pending, PublishTx(i) PROVE latestEpoch' > latestEpoch
          BY <5>2 DEF PublishTx, PublishDistribution, Accepts
        <5>3. latestEpoch' \in Nat /\ latestEpoch' >= latestEpoch
          BY <5>1, <5>2, Types, ChainTypeStep DEF ChainTypeOK, VaultTypeOK
        <5> QED
          BY <2>4, <3>2, <5>3, Types DEF EpochsInStep, StagesInStep
      <4> QED
        BY <2>2, <3>2, <4>1
    <3>3. Preparing \/ (step = "prepared" /\ UNCHANGED <<draft, state>>)
      BY <2>4, StepCases DEF Quietly, Begin, Answer, Recover, SaveRecoveredFile,
         SaveRecoveredLatest, ListRecovered, Match, Observe, NothingNew, ReadReward,
         UpdateTransferCache, Send, Await, PublishFile, PublishLatest, PublishHistory, SaveState,
         Stop, Forget, DropTx, Clock, vars, pubVars, fileVars, memoryVars
    <3> QED
      BY <3>1, <3>2, <3>3
  <2>5. Sum(merkleRoot') = allocated'
    <3>1. ASSUME NEW i \in Pending, PublishTx(i) PROVE Sum(merkleRoot') = allocated'
      <4>1. i \in DOMAIN txs /\ merkleRoot' = txs[i].root /\ allocated' = txs[i].allocated
        BY <3>1 DEF PublishTx, PublishDistribution, Pending
      <4> QED
        BY <2>2, <4>1
    <3>2. CASE UNCHANGED <<merkleRoot, allocated>>
      BY <2>2, <3>2
    <3>3. UNCHANGED <<merkleRoot, allocated>> \/ \E i \in Pending : PublishTx(i)
      BY VaultMoves DEF vaultVars, Claim, FundVault, PauseVault
    <3> QED
      BY <3>1, <3>2, <3>3
  <2> QED
    BY <2>3, <2>4, <2>5
<1> QED
  BY <1>3, <1>4

-----------------------------------------------------------------------------
(* Transfers, the history and the cadence                                  *)

\* The cache has every event that its nodes could not still be late with.
CacheComplete ==
  \A t \in InBlocks(0, transferCache.lastIndexedBlock - Lateness) : t \in transferCache.events

\* A refresh keeps every settled event: it drops only what it fetches again, and what
\* a node may still lack is younger than the overlap.
LEMMA CacheStep ==
  ASSUME TypeOK, RecordsInStep, CacheComplete, [Next]_vars
  PROVE  CacheComplete'
<1>1. CASE UNCHANGED transferCache
  BY <1>1 DEF CacheComplete, InBlocks
<1>2. CASE UpdateTransferCache
  <2> DEFINE start == RefreshStart(transferCache)
             last == transferCache.lastIndexedBlock
             end == draft.windowEnd
  <2>1. PICK late \in SUBSET {e \in InBlocks(start, end) : Transfers[e].time + Lateness > now} :
               transferCache' = Updated(transferCache, InBlocks(start, end) \ late, end)
    BY <1>2 DEF UpdateTransferCache, Answers
  <2>2. end \in Nat /\ end <= now /\ now \in Nat
    BY <1>2, Types DEF UpdateTransferCache, RecordsInStep, DraftInStep, Drafted
  <2>3. last \in Int /\ transferCache.events \subseteq DOMAIN Transfers
    BY DEF TypeOK, FilesTypeOK
  <2>4. /\ start \in Nat /\ start >= last - OverlapBlocks + 1
        /\ (start = 0 \/ start = last - OverlapBlocks + 1)
    BY <2>3, CacheAssumption DEF RefreshStart
  <2>5. /\ transferCache'.lastIndexedBlock = end
        /\ transferCache'.events
             = {e \in transferCache.events : Transfers[e].time < start} \cup (InBlocks(start, end) \ late)
    BY <2>1 DEF Updated
  <2>6. ASSUME NEW t \in DOMAIN Transfers, Transfers[t].time \in 0..(end - Lateness)
        PROVE  t \in transferCache'.events
    <3>1. Transfers[t].time \in Nat /\ Transfers[t].time <= end - Lateness
      BY <2>2, <2>6, TransfersAssumption, CacheAssumption
    <3>2. CASE Transfers[t].time >= start
      <4>1. Transfers[t].time \in start..end /\ Transfers[t].time + Lateness <= now
        BY <2>2, <2>4, <3>1, <3>2, CacheAssumption
      <4>2. t \in InBlocks(start, end) /\ t \notin late
        BY <2>2, <3>1, <4>1, CacheAssumption DEF InBlocks
      <4> QED
        BY <2>5, <4>2
    <3>3. CASE Transfers[t].time < start
      <4>1. Transfers[t].time \in 0..(last - Lateness)
        BY <2>3, <2>4, <3>1, <3>3, CacheAssumption
      <4>2. t \in transferCache.events
        BY <4>1 DEF CacheComplete, InBlocks
      <4> QED
        BY <2>5, <3>3, <4>2
    <3> QED
      BY <2>4, <3>1, <3>2, <3>3
  <2> QED
    BY <2>5, <2>6 DEF CacheComplete, InBlocks
<1>3. UpdateTransferCache \/ UNCHANGED transferCache
  BY StepCases DEF Quietly, Preparing, Begin, Answer, Recover, SaveRecoveredFile, SaveRecoveredLatest, Match, Observe,
     NothingNew, ReadReward, ListRecovered, Prepare, Send, Await, SaveState, PublishFile,
     PublishLatest, PublishHistory, Stop, DropTx, Clock, vars, pubVars, fileVars
<1> QED
  BY <1>1, <1>2, <1>3

HistoryTrue == \A e \in history : e <= latestEpoch

\* The history gets an epoch only when the chain has it.
LEMMA HistoryStep ==
  ASSUME TypeOK, EpochsInStep, HistoryTrue, [Next]_vars
  PROVE  HistoryTrue'
<1>1. latestEpoch' >= latestEpoch /\ latestEpoch' \in Nat
  <2>1. ASSUME NEW i \in Pending, PublishTx(i) PROVE latestEpoch' >= latestEpoch /\ latestEpoch' \in Nat
    <3>1. i \in DOMAIN txs /\ latestEpoch' = txs[i].epoch /\ txs[i].epoch > latestEpoch
      BY <2>1 DEF PublishTx, PublishDistribution, Accepts, Pending
    <3> QED
      BY <3>1, Types
  <2>2. UNCHANGED latestEpoch \/ \E i \in Pending : PublishTx(i)
    BY VaultMoves DEF vaultVars, Claim, FundVault, PauseVault
  <2> QED
    BY <2>1, <2>2, Types
<1>2. \A e \in history : e \in Nat
  BY Types DEF TypeOK, FilesTypeOK
<1>3. \A e \in history : e <= latestEpoch'
  BY <1>1, <1>2, Types DEF HistoryTrue
<1>4. CASE UNCHANGED history
  BY <1>3, <1>4 DEF HistoryTrue
<1>5. CASE ListRecovered
  BY <1>1, <1>3, <1>5, Types DEF ListRecovered, HistoryTrue, EpochsInStep, StagesInStep, Repairing
<1>6. CASE PublishHistory
  BY <1>1, <1>3, <1>6, Types DEF PublishHistory, HistoryTrue, EpochsInStep, StagesInStep, Confirmed
<1>7. ListRecovered \/ PublishHistory \/ UNCHANGED history
  BY StepCases DEF Quietly, Preparing, Begin, Answer, Recover, SaveRecoveredFile, SaveRecoveredLatest, Match, Observe,
     NothingNew, ReadReward, UpdateTransferCache, Prepare, Send, Await, SaveState, PublishFile,
     PublishLatest, Stop, DropTx, Clock, vars, pubVars, fileVars
<1> QED
  BY <1>4, <1>5, <1>6, <1>7

\* A candidate has been counted from a time since which every observation was at
\* its level or above, and the last of them is known.
CadenceProven ==
  LET c == state.cadence IN
  /\ c.lastObservation = None => c.candidate = None /\ \A l \in Levels : aboveSince[l] = None
  /\ c.candidate # None => /\ c.since # None /\ aboveSince[c.candidate] # None
                           /\ aboveSince[c.candidate] <= c.since
  /\ \A l \in Levels : aboveSince[l] # None => aboveSince[l] <= now

\* What LevelsAreProven says of a step.
LevelStep ==
  LET old == state.cadence.confirmed new == state'.cadence.confirmed IN
  old # new => /\ new > old
               /\ aboveSince'[new] # None
               /\ now - aboveSince'[new] >= Confirmation

\* An observation raises the level only when the candidate has been seen, without a
\* gap, for the confirmation time.
LEMMA ObserveStep ==
  ASSUME TypeOK, CadenceProven, NEW target \in Levels, Observe(target), now' = now
  PROVE  CadenceProven' /\ LevelStep
<1> DEFINE c == state.cadence
           g == AfterGap(c, now)
           d == Observed(c, now, target)
           gap == c.lastObservation # None /\ now - c.lastObservation > MaxGap
<1>0. now' = now
  OBVIOUS
<1>1. c \in Cadence /\ now \in Nat /\ aboveSince \in [Levels -> Nat \cup {None}]
  BY Types DEF State, TypeOK, GhostsTypeOK
<1>2. state'.cadence = d
  BY Types DEF Observe, State
<1>3. \A l \in Levels :
        aboveSince'[l] = IF target < l THEN None
                         ELSE IF aboveSince[l] = None \/ now - c.lastObservation > MaxGap
                              THEN now ELSE aboveSince[l]
  BY DEF Observe
<1>4. /\ target \in Nat /\ c.confirmed \in Levels /\ c.confirmed \in Nat
      /\ c.candidate \in Levels \cup {None} /\ c.since \in Nat \cup {None}
      /\ None \notin Nat /\ None \notin Levels
  BY <1>1, CadenceAssumption DEF Cadence
<1>5. /\ gap => g = [c EXCEPT !.lastObservation = now, !.candidate = None, !.since = None]
      /\ ~gap => g = [c EXCEPT !.lastObservation = now]
  BY DEF AfterGap
<1>6. /\ g \in Cadence /\ g.lastObservation = now /\ g.confirmed = c.confirmed
      /\ gap => g.candidate = None
      /\ ~gap => g.candidate = c.candidate /\ g.since = c.since
  BY <1>1, <1>5 DEF Cadence
<1>7. \A l \in Levels : /\ aboveSince[l] \in Nat \cup {None}
                        /\ aboveSince'[l] # None => aboveSince'[l] \in Nat /\ aboveSince'[l] <= now
  <2>1. \A l \in Levels : aboveSince[l] \in Nat \cup {None}
    BY <1>1
  <2> QED
    BY <1>1, <1>3, <2>1 DEF CadenceProven
<1>8. aboveSince'[target] # None
  BY <1>1, <1>3, <1>4
<1>9. now' = now
  BY <1>0
<1> HIDE DEF c, g, d, gap
<1>10. CASE target <= g.confirmed
  <2>1. d = [g EXCEPT !.candidate = None, !.since = None]
    BY <1>4, <1>6, <1>10 DEF Observed, g, d, c
  <2>2. d.candidate = None /\ d.lastObservation = now /\ d.confirmed = c.confirmed
    BY <1>6, <2>1 DEF Cadence
  <2>3. now # None
    BY <1>1, <1>4
  <2> QED
    BY <1>2, <1>7, <1>9, <2>2, <2>3 DEF CadenceProven, LevelStep, c
<1>11. CASE target > g.confirmed /\ g.candidate # target
  <2>1. d = [g EXCEPT !.candidate = target, !.since = now]
    BY <1>4, <1>6, <1>11 DEF Observed, g, d, c
  <2>2. /\ d.candidate = target /\ d.since = now
        /\ d.lastObservation = now /\ d.confirmed = c.confirmed
    BY <1>6, <2>1 DEF Cadence
  <2>3. now # None
    BY <1>1, <1>4
  <2> QED
    BY <1>2, <1>7, <1>8, <1>9, <2>2, <2>3 DEF CadenceProven, LevelStep, c
<1>12. CASE target > g.confirmed /\ g.candidate = target
  <2>1. ~gap /\ c.candidate = target /\ target # None
    BY <1>4, <1>6, <1>12
  <2>2. /\ c.lastObservation # None /\ c.since # None
        /\ aboveSince[target] # None /\ aboveSince[target] <= c.since
    BY <2>1 DEF CadenceProven, c
  <2>3. aboveSince'[target] = aboveSince[target]
    BY <1>3, <1>4, <2>1, <2>2 DEF gap
  <2>4. g.since = c.since /\ c.since \in Nat /\ aboveSince[target] \in Nat
    BY <1>4, <1>6, <1>7, <2>1, <2>2
  <2>5. CASE now - g.since >= Confirmation
    <3>1. d = [g EXCEPT !.confirmed = target, !.candidate = None, !.since = None]
      BY <1>4, <1>6, <1>12, <2>5 DEF Observed, g, d, c
    <3>2. d.candidate = None /\ d.lastObservation = now /\ d.confirmed = target
      BY <1>6, <3>1 DEF Cadence
    <3>3. now # None /\ now - aboveSince'[target] >= Confirmation
      BY <1>1, <1>4, <2>2, <2>3, <2>4, <2>5, CadenceAssumption
    <3> QED
      BY <1>2, <1>6, <1>7, <1>8, <1>9, <1>12, <3>2, <3>3 DEF CadenceProven, LevelStep, c
  <2>6. CASE ~(now - g.since >= Confirmation)
    <3>1. d = g
      BY <1>4, <1>6, <1>12, <2>6 DEF Observed, g, d, c
    <3>2. now # None
      BY <1>1, <1>4
    <3> QED
      BY <1>2, <1>6, <1>7, <1>8, <1>9, <1>12, <2>2, <2>3, <2>4, <3>1, <3>2
         DEF CadenceProven, LevelStep, c
  <2> QED
    BY <2>5, <2>6
<1> QED
  <2>1. g.confirmed \in Nat
    BY <1>4, <1>6
  <2> QED
    BY <1>4, <1>10, <1>11, <1>12, <2>1

\* Only an observation changes the cadence; a recovery and a save copy it.
LEMMA CadenceMoves ==
  ASSUME TypeOK, [Next]_vars
  PROVE  \/ \E target \in Levels : Observe(target) /\ UNCHANGED now
         \/ UNCHANGED <<state.cadence, aboveSince>>
<1>1. CASE Quietly(Recover)
  <2> DEFINE end == epochFiles[view.epoch].windowEnd
             given == epochFiles[view.epoch].root
  <2>1. /\ state' = [state EXCEPT !.latestEpoch = view.epoch, !.lastWindowEnd = end,
                                  !.cumulative = given]
        /\ UNCHANGED aboveSince
    BY <1>1 DEF Quietly, Recover, Recovered, ghostVars
  <2> HIDE DEF end, given
  <2> QED
    BY <2>1, Types DEF State
<1>2. CASE Quietly(SaveState)
  <2>1. state' = [state EXCEPT !.latestEpoch = @ + 1, !.lastWindowEnd = draft.windowEnd,
                               !.cumulative = draft.root]
        /\ UNCHANGED aboveSince
    BY <1>2 DEF Quietly, SaveState, ghostVars
  <2> QED
    BY <2>1, Types DEF State
<1>3. \/ \E target \in Levels : Observe(target) /\ UNCHANGED now
      \/ Quietly(Recover) \/ Quietly(SaveState) \/ UNCHANGED <<state, aboveSince>>
  BY StepCases DEF Quietly, Preparing, Begin, Answer, SaveRecoveredFile, SaveRecoveredLatest, ListRecovered, Match,
     NothingNew, ReadReward, UpdateTransferCache, Prepare, Send, Await, PublishFile,
     PublishLatest, PublishHistory, Stop, DropTx, Clock, vars, pubVars, fileVars, ghostVars
<1> QED
  BY <1>1, <1>2, <1>3

\* Every step keeps the candidate's proof and changes the level only on one.
LEMMA CadenceStep ==
  ASSUME TypeOK, CadenceProven, [Next]_vars
  PROVE  CadenceProven' /\ LevelStep
<1>1. ASSUME NEW target \in Levels, Observe(target), UNCHANGED now PROVE CadenceProven' /\ LevelStep
  BY <1>1, ObserveStep
<1>2. CASE UNCHANGED <<state.cadence, aboveSince>>
  <2>1. now' \in Nat /\ now' >= now /\ now \in Nat
    <3>1. now' = now \/ now' = now + 1
      BY StepCases DEF Quietly, Preparing, Begin, Answer, Stop, DropTx, Clock, vars, pubVars
    <3> QED
      BY <3>1, Types
  <2>2. \A l \in Levels : aboveSince[l] \in Nat \cup {None}
    BY DEF TypeOK, GhostsTypeOK
  <2>3. \A l \in Levels : aboveSince[l] # None => aboveSince[l] <= now'
    BY <2>1, <2>2 DEF CadenceProven
  <2> QED
    BY <1>2, <2>3 DEF CadenceProven, LevelStep
<1> QED
  BY <1>1, <1>2, CadenceMoves

-----------------------------------------------------------------------------
(* The publisher with the vault                                            *)

PublisherInv ==
  /\ TypeOK /\ EpochsInStep /\ RecordsInStep
  /\ ChainRecorded /\ ClaimsCounted /\ SumsAgree
  /\ CacheComplete /\ HistoryTrue /\ CadenceProven

\* The invariant holds when nothing has been published.
LEMMA InvInit == Init => PublisherInv
<1> SUFFICES ASSUME Init PROVE PublisherInv
  OBVIOUS
<1> USE DEF Init, VaultInit
<1>1. NoRoot \in [Account -> Nat] /\ MaxEpochs \in Nat
  BY PublisherAssumption DEF NoRoot
<1>2. FreshCadence \in Cadence /\ FreshCadence.lastObservation = None /\ FreshCadence.candidate = None
  BY CadenceAssumption DEF FreshCadence, Cadence
<1>3. NoFile \in File /\ NoFile.status = "none"
  BY <1>1 DEF NoFile, File
<1>4. /\ NewState \in State /\ NewState.latestEpoch = 0 /\ NewState.lastWindowEnd = 0
      /\ NewState.cumulative = NoRoot /\ NewState.cadence = FreshCadence
  <2> HIDE DEF NoRoot
  <2>1. 0 \in 0..MaxEpochs
    BY <1>1
  <2> QED
    BY <1>1, <1>2, <2>1 DEF NewState, State
<1>5. txs = <<>> /\ txs \in Seq(Tx) /\ DOMAIN txs = {}
  OBVIOUS
<1>6. TypeOK
  <2>1. ChainTypeOK
    BY <1>1, <1>5 DEF ChainTypeOK, VaultTypeOK
  <2>2. FilesTypeOK
    BY <1>1, <1>3, <1>4 DEF FilesTypeOK, EmptyCache
  <2>3. MemoryTypeOK
    BY <1>1, <1>3 DEF MemoryTypeOK, NoView, View
  <2>4. GhostsTypeOK
    BY DEF GhostsTypeOK
  <2> QED
    BY <2>1, <2>2, <2>3, <2>4 DEF TypeOK
<1>7. EpochsInStep
  BY <1>1, <1>4, <1>5 DEF EpochsInStep, StagesInStep, ViewInStep, Repairing, Snapshotted, Confirmed
<1>8. RecordsInStep
  <2>1. FilesInStep
    BY <1>3 DEF FilesInStep
  <2>2. StateInStep
    BY <1>4 DEF StateInStep, EndOf, RootOf, RootIn
  <2>3. DraftInStep
    BY DEF DraftInStep, Drafted, Snapshotted, Confirmed
  <2>4. TxsInStep
    BY <1>5 DEF TxsInStep
  <2> QED
    BY <2>1, <2>2, <2>3, <2>4 DEF RecordsInStep
<1>9. ChainRecorded
  BY DEF ChainRecorded
<1>10. Sum(NoRoot) = 0
  BY SumZero, PublisherAssumption DEF Sum, NoRoot
<1>11. ClaimsCounted
  BY <1>10 DEF ClaimsCounted, AllocationsFunded, NoRoot
<1>12. SumsAgree
  BY <1>5, <1>10 DEF SumsAgree, Snapshotted, Confirmed, NoRoot
<1>13. CacheComplete
  BY CacheAssumption DEF CacheComplete, InBlocks, EmptyCache
<1>14. HistoryTrue
  BY DEF HistoryTrue
<1>15. CadenceProven
  BY <1>2, <1>4 DEF CadenceProven
<1> QED
  BY <1>6, <1>7, <1>8, <1>9, <1>11, <1>12, <1>13, <1>14, <1>15 DEF PublisherInv

\* Every step keeps the invariant: no tick, stop, late transaction, claim or
\* administrator's call breaks it.
LEMMA InvStep == PublisherInv /\ [Next]_vars => PublisherInv'
BY TypeStep, EpochsStep, RecordsStep, ChainRecordedStep, ClaimsCountedStep, SumsStep, CacheStep,
   HistoryStep, CadenceStep DEF PublisherInv

\* The invariant holds at every step of the publisher with the vault.
THEOREM PublisherInvariance == Spec => []PublisherInv
BY InvInit, InvStep, PTL DEF Spec

\* A file that differs from what the chain has is one that was overtaken.
LEMMA DivergedIsOvertaken == Diverged => Overtaken
BY DEF Diverged, Overtaken

\* Unless a snapshot was overtaken by a late transaction, or an epoch was counted twice
\* by a tick that read it without its total, the vault can pay all that its root allows;
\* and nobody is entitled to less than was paid.
THEOREM EveryClaimFundedHolds == Spec => []EveryClaimFunded
<1>1. PublisherInv => EveryClaimFunded
  <2> SUFFICES ASSUME PublisherInv, ~Overtaken
               PROVE  /\ recounted = {} => Outstanding <= vaultMstr
                      /\ \A a \in Account : merkleRoot[a] >= claimed[a]
    BY DEF EveryClaimFunded
  <2>1. /\ \A a \in Account : merkleRoot[a] >= claimed[a]
        /\ recounted = {} => Sum(merkleRoot) = allocated
    BY DivergedIsOvertaken DEF PublisherInv, SumsAgree
  <2>2. \A a \in Account : merkleRoot[a] \in Nat /\ claimed[a] \in Nat
    BY Types DEF PublisherInv
  <2> DEFINE open == [a \in Account |-> IF merkleRoot[a] > claimed[a]
                                       THEN merkleRoot[a] - claimed[a] ELSE 0]
  <2>3. \A a \in Account : /\ claimed[a] \in Int /\ open[a] \in Int
                           /\ merkleRoot[a] = claimed[a] + open[a]
    BY <2>1, <2>2
  <2>4. Outstanding = SumFunctionOnSet(open, Account)
    BY DEF Outstanding, SumFunction
  <2>5. IsFiniteSet(Account)
    BY PublisherAssumption
  <2> HIDE DEF open
  <2>6. SumFunctionOnSet(merkleRoot, Account)
        = SumFunctionOnSet(claimed, Account) + SumFunctionOnSet(open, Account)
    BY <2>3, <2>5, SumPlus
  <2>7. SumFunctionOnSet(claimed, Account) \in Int /\ SumFunctionOnSet(open, Account) \in Int
    BY <2>3, <2>5, SumTake
  <2>8. /\ totalClaimed = SumFunctionOnSet(claimed, Account)
        /\ allocated <= vaultMstr + totalClaimed /\ vaultMstr \in Nat
    BY Types DEF PublisherInv, ClaimsCounted, AllocationsFunded, Sum
  <2>9. recounted = {} => Outstanding <= vaultMstr
    BY <2>1, <2>4, <2>6, <2>7, <2>8 DEF Sum
  <2> QED
    BY <2>1, <2>9
<1> QED
  BY <1>1, PublisherInvariance, PTL

\* Unless a snapshot was overtaken, the files follow the chain, at most one epoch
\* behind, what is published adds up to what is allocated (unless an epoch was counted
\* twice), and the cache has every settled event.
THEOREM RecordsMatchChainHolds == Spec => []RecordsMatchChain
<1>1. PublisherInv => RecordsMatchChain
  <2> SUFFICES ASSUME PublisherInv, ~Overtaken
               PROVE  /\ latestEpoch - state.latestEpoch \in {0, 1}
                      /\ latestEpoch = state.latestEpoch => state.cumulative = merkleRoot
                      /\ latestEpoch > 0 => epochFiles[latestEpoch].root = merkleRoot
                      /\ recounted = {} => SumFunctionOnSet(merkleRoot, Account) = allocated
                      /\ \A e \in 1..latestEpoch :
                           epochFiles[e].windowStart = IF e = 1 THEN 0 ELSE epochFiles[e - 1].windowEnd
                      /\ \A e \in history : e <= latestEpoch
                      /\ \A t \in InBlocks(0, transferCache.lastIndexedBlock - Lateness) :
                           t \in transferCache.events
    BY DEF RecordsMatchChain
  <2> USE DEF PublisherInv
  <2>1. latestEpoch - state.latestEpoch \in {0, 1}
    BY Types DEF EpochsInStep, StagesInStep
  <2>2. latestEpoch = state.latestEpoch => state.cumulative = merkleRoot
    BY DivergedIsOvertaken, StateIsChain
  <2>3. ASSUME latestEpoch > 0 PROVE epochFiles[latestEpoch].root = merkleRoot
    <3>1. PICK i \in DOMAIN txs :
            /\ txs[i].outcome = "published" /\ txs[i].epoch = latestEpoch
            /\ txs[i].root = merkleRoot
      BY <2>3, Types DEF ChainRecorded
    <3> QED
      BY <3>1 DEF Overtaken
  <2>4. recounted = {} => SumFunctionOnSet(merkleRoot, Account) = allocated
    BY DivergedIsOvertaken DEF SumsAgree, Sum
  <2>5. ASSUME NEW e \in 1..latestEpoch
        PROVE  epochFiles[e].windowStart = IF e = 1 THEN 0 ELSE epochFiles[e - 1].windowEnd
    <3>1. e \in Epochs /\ epochFiles[e].status # "none"
      BY Types DEF EpochsInStep, StagesInStep, RecordsInStep, FilesInStep
    <3>2. epochFiles[e].windowStart = EndOf(e - 1)
      BY <3>1 DEF RecordsInStep, FilesInStep
    <3>3. e - 1 = 0 <=> e = 1
      BY Types
    <3> QED
      BY <3>2, <3>3 DEF EndOf
  <2> QED
    BY <2>1, <2>2, <2>3, <2>4, <2>5 DEF HistoryTrue, CacheComplete
<1> QED
  BY <1>1, PublisherInvariance, PTL

\* The payout interval changes only upwards, and only after a confirmation time seen
\* without a gap (RewardCadenceTracker.update).
THEOREM LevelsAreProvenHolds == Spec => LevelsAreProven
<1>1. PublisherInv /\ [Next]_vars => [LevelStep]_vars
  BY CadenceStep DEF PublisherInv
<1> QED
  BY <1>1, PublisherInvariance, PTL DEF Spec, LevelsAreProven, LevelStep

\* The publisher, its transactions and the holders together do nothing to the vault
\* that the vault by itself does not allow.
THEOREM VaultKept == Spec => VaultSpec
<1>1. Init => VaultInit
  BY DEF Init
<1>2. PublisherInv /\ [Next]_vars => [VaultNext]_vaultVars
  <2> SUFFICES ASSUME PublisherInv, [Next]_vars PROVE [VaultNext]_vaultVars
    OBVIOUS
  <2>1. ASSUME NEW i \in Pending, PublishTx(i) PROVE VaultNext
    <3>1. i \in DOMAIN txs
      BY DEF Pending
    <3>2. /\ txs[i].epoch \in Nat /\ txs[i].root \in [Account -> Nat] /\ txs[i].allocated \in Nat
      BY <3>1, Types DEF PublisherInv
    <3> QED
      BY <2>1, <3>2 DEF PublishTx, VaultNext
  <2>2. \A amount \in Funding : amount \in Nat
    BY PublisherAssumption
  <2> QED
    BY <2>1, <2>2, VaultMoves DEF VaultNext
<1> QED
  BY <1>1, <1>2, PublisherInvariance, PTL DEF Spec, VaultSpec

=============================================================================
