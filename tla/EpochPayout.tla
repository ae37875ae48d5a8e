----------------------------- MODULE EpochPayout -----------------------------
(***************************************************************************)
(* What the reward pipeline promises holders: epochs follow one another    *)
(* without gap or overlap, each one commits part of the inventory to       *)
(* shares, every share is paid once, and no epoch begins before the shares *)
(* of the last are all paid.                                               *)
(***************************************************************************)
EXTENDS Functions, Integers

VARIABLES
  epoch,       \* number of the latest epoch
  windowStart, \* holding time from which the epoch accounts for holders
  windowEnd,   \* and up to which
  unpaid,      \* its shares that are still to pay, as [id, amount] records
  inventory    \* MSTRx held for payouts

payoutVars == <<epoch, windowStart, windowEnd, unpaid, inventory>>

Owed(shares) == SumFunction([share \in shares |-> share.amount])

Init == epoch = 0 /\ windowStart = 0 /\ windowEnd = 0 /\ unpaid = {} /\ inventory = 0

Fund ==
  /\ inventory' \in Nat
  /\ inventory' > inventory
  /\ UNCHANGED <<epoch, windowStart, windowEnd, unpaid>>

Open ==
  /\ unpaid = {}
  /\ epoch' = epoch + 1
  /\ windowStart' = windowEnd
  /\ windowEnd' > windowStart'
  /\ unpaid' # {}
  /\ \A share \in unpaid' : share.amount > 0
  /\ Owed(unpaid') <= inventory
  /\ UNCHANGED inventory

Pay ==
  /\ \E share \in unpaid :
       /\ unpaid' = unpaid \ {share}
       /\ inventory' = inventory - share.amount
  /\ UNCHANGED <<epoch, windowStart, windowEnd>>

Next == Fund \/ Open \/ Pay

Spec == Init /\ [][Next]_payoutVars

=============================================================================
