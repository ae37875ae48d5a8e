------------------------------ MODULE FeeRouter ------------------------------
(***************************************************************************)
(* FeeRouter and the KeeperVault behind it: ETH that arrives is split 50,  *)
(* 40 and 10 percent; the first two shares wait in buckets until they are  *)
(* swapped for MSTR, the last one pays the keepers' gas.  A call that      *)
(* reverts is not enabled; a swap delivers or reverts, and one wei counts  *)
(* as one MSTR.                                                            *)
(***************************************************************************)
EXTENDS Integers

CONSTANTS
  MaxEth,            \* bound: ETH that ever arrives
  MaxReimbursement   \* maxReimbursementWei

ASSUME RouterAssumption == MaxEth \in Nat /\ MaxReimbursement \in Nat

BPS == 10000
REWARD_BPS == 5000
RESERVE_BPS == 4000

VARIABLES
  received,            \* ETH that ever arrived
  unallocatedEth,
  pendingRewardEth,
  pendingReserveEth,
  rewardBought,        \* MSTR bought for the reward vault
  reserveBought,       \* and for the reserve vault
  keeperEth,           \* balance of the keeper vault
  reimbursed,          \* paid out of it
  routerPaused

routerVars == <<received, unallocatedEth, pendingRewardEth, pendingReserveEth,
                rewardBought, reserveBought, keeperEth, reimbursed, routerPaused>>

RouterInit ==
  /\ received = 0 /\ unallocatedEth = 0 /\ pendingRewardEth = 0 /\ pendingReserveEth = 0
  /\ rewardBought = 0 /\ reserveBought = 0 /\ keeperEth = 0 /\ reimbursed = 0
  /\ routerPaused = FALSE

\* receive
Receive(amount) ==
  /\ received + amount <= MaxEth
  /\ received' = received + amount
  /\ unallocatedEth' = unallocatedEth + amount
  /\ UNCHANGED <<pendingRewardEth, pendingReserveEth, rewardBought, reserveBought,
                 keeperEth, reimbursed, routerPaused>>

RewardAmount(amount) == (amount * REWARD_BPS) \div BPS
ReserveAmount(amount) == (amount * RESERVE_BPS) \div BPS

\* allocate, by anyone
Allocate ==
  LET amount == unallocatedEth IN
  /\ ~routerPaused
  /\ amount # 0
  /\ unallocatedEth' = 0
  /\ pendingRewardEth' = pendingRewardEth + RewardAmount(amount)
  /\ pendingReserveEth' = pendingReserveEth + ReserveAmount(amount)
  /\ keeperEth' = keeperEth + (amount - RewardAmount(amount) - ReserveAmount(amount))
  /\ UNCHANGED <<received, rewardBought, reserveBought, reimbursed, routerPaused>>

\* buyRewardMstr and buyRewardMstrWithAdapter
BuyReward(amount) ==
  /\ ~routerPaused
  /\ amount # 0
  /\ amount <= pendingRewardEth
  /\ pendingRewardEth' = pendingRewardEth - amount
  /\ rewardBought' = rewardBought + amount
  /\ UNCHANGED <<received, unallocatedEth, pendingReserveEth, reserveBought,
                 keeperEth, reimbursed, routerPaused>>

\* buyReserveMstr and buyReserveMstrWithAdapter
BuyReserve(amount) ==
  /\ ~routerPaused
  /\ amount # 0
  /\ amount <= pendingReserveEth
  /\ pendingReserveEth' = pendingReserveEth - amount
  /\ reserveBought' = reserveBought + amount
  /\ UNCHANGED <<received, unallocatedEth, pendingRewardEth, rewardBought,
                 keeperEth, reimbursed, routerPaused>>

\* pause and unpause
PauseRouter ==
  /\ routerPaused' = ~routerPaused
  /\ UNCHANGED <<received, unallocatedEth, pendingRewardEth, pendingReserveEth,
                 rewardBought, reserveBought, keeperEth, reimbursed>>

\* KeeperVault.reimburse, of a transaction not reimbursed before.
Reimburse(amount) ==
  /\ amount # 0
  /\ amount <= MaxReimbursement
  /\ amount <= keeperEth
  /\ keeperEth' = keeperEth - amount
  /\ reimbursed' = reimbursed + amount
  /\ UNCHANGED <<received, unallocatedEth, pendingRewardEth, pendingReserveEth,
                 rewardBought, reserveBought, routerPaused>>

\* reimburseGas of a keeper: the cost of the gas, at most the cap and what the vault
\* holds; one that fails or is worth nothing is given up.
ReimburseTransaction ==
  \/ \E amount \in 1..MaxReimbursement : Reimburse(amount)
  \/ UNCHANGED routerVars

RouterNext ==
  \/ \E amount \in Nat :
       Receive(amount) \/ BuyReward(amount) \/ BuyReserve(amount) \/ Reimburse(amount)
  \/ Allocate
  \/ PauseRouter

RouterSpec == RouterInit /\ [][RouterNext]_routerVars

-----------------------------------------------------------------------------
(***************************************************************************)
(* Properties.                                                             *)
(***************************************************************************)
\* Balances never underflow.
RouterTypeOK ==
  /\ received \in Nat /\ unallocatedEth \in Nat
  /\ pendingRewardEth \in Nat /\ pendingReserveEth \in Nat
  /\ rewardBought \in Nat /\ reserveBought \in Nat
  /\ keeperEth \in Nat /\ reimbursed \in Nat
  /\ routerPaused \in BOOLEAN

\* Every wei that arrived is in a bucket, was swapped for a vault, or went to the
\* keepers: roundings of the split lose nothing and create nothing, whoever calls
\* allocate and however often ("Splits every newly received wei", allocate).
EthConserved ==
  received = unallocatedEth + pendingRewardEth + pendingReserveEth
             + rewardBought + reserveBought + keeperEth + reimbursed

=============================================================================
