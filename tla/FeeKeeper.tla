------------------------------ MODULE FeeKeeper ------------------------------
(***************************************************************************)
(* The reward keeper and PonsFeeCollector: every cycle collects what PONS  *)
(* holds for the project, has the router split it, and swaps the two       *)
(* buckets, a chunk of each.  A transaction may fail at every step, which  *)
(* ends the cycle, and is reimbursed from the keeper vault if it can be.   *)
(***************************************************************************)
EXTENDS PonsLaunch, FeeRouter

CONSTANTS
  MaxChunk    \* MAX_CHUNK

VARIABLES
  cycle,       \* where the keeper's cycle is
  gasOwed      \* whether its last transaction is to be reimbursed

keeperVars == <<cycle, gasOwed>>

KeeperInit == cycle = "collect" /\ gasOwed = FALSE

-----------------------------------------------------------------------------
CycleEnds == cycle' = "collect" /\ gasOwed' = FALSE
Sent(next) == cycle' = next /\ gasOwed' = TRUE
Skipped(next) == cycle' = next /\ UNCHANGED <<gasOwed, ponsFees, routerVars>>
At(step) == cycle = step /\ ~gasOwed

\* sweepCurveAndCollect while the curve holds fees, collect while the escrow does.
SweepAndCollect ==
  /\ OnCurve /\ curveFees > 0
  /\ Receive(escrow + curveFees)
  /\ escrow' = 0 /\ curveFees' = 0

Collect ==
  /\ ~(OnCurve /\ curveFees > 0)
  /\ escrow > 0
  /\ Receive(escrow)
  /\ escrow' = 0 /\ UNCHANGED curveFees

\* Mutant: with nothing to claim collect is called all the same, which reverts.
CollectAlways ==
  /\ At("collect")
  /\ SweepAndCollect \/ Collect
  /\ Sent("allocate")
  /\ UNCHANGED chainVars

CollectPonsFees ==
  /\ At("collect")
  /\ \/ (SweepAndCollect \/ Collect) /\ Sent("allocate")
     \/ ~(OnCurve /\ curveFees > 0) /\ escrow = 0 /\ Skipped("allocate")
  /\ UNCHANGED chainVars

AllocateFees ==
  /\ At("allocate")
  /\ \/ Allocate /\ Sent("reward") /\ UNCHANGED ponsFees
     \/ unallocatedEth = 0 /\ Skipped("reward")
  /\ UNCHANGED chainVars

Chunk(pending) == IF pending > MaxChunk THEN MaxChunk ELSE pending

\* buy, of each bucket.  The code reads both before it swaps one, which is the same where
\* only the keeper allocates.
BuyForRewards ==
  /\ At("reward")
  /\ \/ BuyReward(Chunk(pendingRewardEth)) /\ Sent("reserve") /\ UNCHANGED ponsFees
     \/ pendingRewardEth = 0 /\ Skipped("reserve")
  /\ UNCHANGED chainVars

BuyForReserve ==
  /\ At("reserve")
  /\ \/ BuyReserve(Chunk(pendingReserveEth)) /\ Sent("collect") /\ UNCHANGED ponsFees
     \/ pendingReserveEth = 0 /\ Skipped("collect")
  /\ UNCHANGED chainVars

\* A paused router reverts what the cycle asks for next, which ends the cycle.
PausedReverts ==
  /\ routerPaused
  /\ \/ At("allocate") /\ unallocatedEth > 0
     \/ At("reward") /\ pendingRewardEth > 0
     \/ At("reserve") /\ pendingReserveEth > 0
  /\ Skipped("collect")
  /\ UNCHANGED chainVars

\* submit, after the receipt.
ReimburseGas ==
  /\ gasOwed
  /\ gasOwed' = FALSE
  /\ ReimburseTransaction
  /\ UNCHANGED <<cycle, ponsVars>>

\* A transaction that went well when simulated reverts when mined: submit waits for its
\* receipt, does not look at it, and the cycle goes on.
TransactionReverts ==
  /\ \/ At("collect") /\ ((OnCurve /\ curveFees > 0) \/ escrow > 0) /\ Sent("allocate")
     \/ At("allocate") /\ unallocatedEth > 0 /\ Sent("reward")
     \/ At("reward") /\ pendingRewardEth > 0 /\ Sent("reserve")
     \/ At("reserve") /\ pendingReserveEth > 0 /\ Sent("collect")
  /\ UNCHANGED <<ponsVars, routerVars>>

\* A call fails, or the keeper restarts.
CycleFails ==
  /\ cycle # "collect" \/ gasOwed
  /\ CycleEnds
  /\ UNCHANGED <<ponsVars, routerVars>>

CycleStep ==
  \/ CollectPonsFees \/ AllocateFees \/ BuyForRewards \/ BuyForReserve
  \/ PausedReverts \/ ReimburseGas

=============================================================================
