---------------------------- MODULE ReserveVault ----------------------------
(***************************************************************************)
(* StrategicReserveVault: one MSTR balance, part of it locked until a      *)
(* time.  Only the executor locks and releases; anyone may deposit.        *)
(***************************************************************************)
EXTENDS BlockTime, Sequences, FiniteSetsExt

CONSTANTS
  MaxReserve,   \* bound: MSTR in the vault at once
  Deposits      \* amounts that arrive

ASSUME ReserveAssumption == MaxReserve \in Nat /\ Deposits \subseteq Nat

VARIABLES
  reserve,        \* mstr.balanceOf(vault)
  reserveLocks    \* locks: the tranches ever made

reserveVars == <<reserve, reserveLocks>>

LockedBalance ==
  SumFunction([i \in DOMAIN reserveLocks |->
                 IF reserveLocks[i].unlockAt > now THEN reserveLocks[i].amount ELSE 0])

\* Mutant: tranches are not taken off.
AvailableBalanceGross == reserve
AvailableBalance == reserve - LockedBalance

ReserveInit == reserve = 0 /\ reserveLocks = <<>>

LockMstr(amount, duration) ==
  /\ AllowedDuration(duration)
  /\ amount <= AvailableBalance
  /\ reserveLocks' = Append(reserveLocks,
                            [amount |-> amount, unlockAt |-> UnlockAt(duration)])
  /\ UNCHANGED reserve

ReleaseMstr(amount) ==
  /\ amount <= AvailableBalance
  /\ reserve' = reserve - amount
  /\ UNCHANGED reserveLocks

\* MSTR arrives: the reserve share of fees, or a transfer by anyone.
Deposit(amount) ==
  /\ reserve + amount <= MaxReserve
  /\ reserve' = reserve + amount
  /\ UNCHANGED reserveLocks

-----------------------------------------------------------------------------
ReserveTypeOK ==
  /\ reserve \in Nat
  /\ reserveLocks \in Seq([amount : Nat, unlockAt : Nat])

(***************************************************************************)
(* A tranche locked by vote stays in the vault until it expires, whatever  *)
(* later votes decide; equally, availableBalance never underflows, which   *)
(* would make every call of the vault revert.                              *)
(***************************************************************************)
LockedStays == reserve >= LockedBalance

=============================================================================
