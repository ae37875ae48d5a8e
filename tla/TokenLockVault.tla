--------------------------- MODULE TokenLockVault ---------------------------
(***************************************************************************)
(* ProjectTokenTimeLockVault and the hold vault behind it: tokens bought   *)
(* under BUYBACK_LOCK are registered as tranches; once mature, anyone may  *)
(* move a tranche to permanent custody.                                    *)
(***************************************************************************)
EXTENDS BlockTime, Sequences, FiniteSetsExt

CONSTANT MaxGifts    \* bound: tokens sent to the vault by others

ASSUME GiftsAssumption == MaxGifts \in Nat

VARIABLES
  tokens,       \* projectToken.balanceOf(lock vault)
  accounted,    \* accountedBalance
  tokenLocks,   \* locks
  held,         \* projectToken.balanceOf(hold vault)
  gifts         \* tokens others sent, which belong to no tranche

lockVars == <<tokens, accounted, tokenLocks, held, gifts>>

LockInit ==
  /\ tokens = 0 /\ accounted = 0 /\ held = 0 /\ gifts = 0
  /\ tokenLocks = <<>>

\* registerLock, called after the purchase of the same transaction: the
\* balance it reads is tokens'.
RegisterLock(amount, duration) ==
  /\ amount # 0
  /\ AllowedDuration(duration)
  /\ tokens' >= accounted + amount
  /\ accounted' = accounted + amount
  /\ tokenLocks' = Append(tokenLocks, [amount |-> amount, unlockAt |-> UnlockAt(duration),
                                       released |-> FALSE])

Mature(lockId) == ~tokenLocks[lockId].released /\ now >= tokenLocks[lockId].unlockAt

Release(lockId) ==
  LET amount == tokenLocks[lockId].amount IN
  /\ Mature(lockId)
  /\ tokenLocks' = [tokenLocks EXCEPT ![lockId].released = TRUE]
  /\ accounted' = accounted - amount
  /\ tokens' = tokens - amount
  /\ held' = held + amount
  /\ UNCHANGED gifts

\* The vault is an ordinary address: anyone can send it tokens.
Gift ==
  /\ gifts < MaxGifts
  /\ gifts' = gifts + 1
  /\ tokens' = tokens + 1
  /\ UNCHANGED <<accounted, tokenLocks, held>>

-----------------------------------------------------------------------------
LockTypeOK ==
  /\ tokens \in Nat /\ accounted \in Nat /\ held \in Nat /\ gifts \in Nat
  /\ tokenLocks \in Seq([amount : Nat, unlockAt : Nat, released : BOOLEAN])

(***************************************************************************)
(* Every tranche not yet released is counted in accountedBalance and       *)
(* backed by tokens in the vault, and tokens sent by others never pay for  *)
(* one: a release can therefore never fail, nor take another's tokens.     *)
(***************************************************************************)
LocksBacked ==
  /\ accounted = SumFunction([i \in DOMAIN tokenLocks |->
                                IF tokenLocks[i].released THEN 0 ELSE tokenLocks[i].amount])
  /\ tokens = accounted + gifts

=============================================================================
