----------------------------- MODULE BlockTime ------------------------------
(***************************************************************************)
(* The time the EVM contracts read (block.timestamp) and the lock          *)
(* durations both vaults allow.                                            *)
(***************************************************************************)
EXTENDS Integers

CONSTANTS
  MaxTime,        \* bound: time stops here
  LockDurations   \* the finite lock durations a vault accepts

ASSUME TimeAssumption ==
  /\ MaxTime \in Nat \ {0}
  /\ LockDurations \subseteq Nat \ {0}

VARIABLE now

\* type(uint32).max as a duration, type(uint64).max as an unlock time.
Forever == MaxTime + 1

AllowedDuration(duration) == duration \in LockDurations \union {Forever}

UnlockAt(duration) == IF duration = Forever THEN Forever ELSE now + duration

Tick == now < MaxTime /\ now' = now + 1

=============================================================================
