------------------------------ MODULE FeeSplit ------------------------------
(***************************************************************************)
(* The 60/40 split of one collected creator-fee receipt between holder     *)
(* payout inventory and the strategic reserve, in raw (integer) MSTRx.     *)
(* BigInt division truncates, and the amounts are positive, so it is \div. *)
(***************************************************************************)
EXTENDS Integers

BASIS_POINTS == 10000
HOLDER_REWARD_BPS == 6000

\* splitMstrx60_40 rounds the holder share down; the reserve takes the rest.
HolderRaw(raw) == (raw * HOLDER_REWARD_BPS) \div BASIS_POINTS
ReserveRaw(raw) == raw - HolderRaw(raw)

=============================================================================
