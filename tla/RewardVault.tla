----------------------------- MODULE RewardVault -----------------------------
(***************************************************************************)
(* RewardVault: MSTR allocated to holders under a cumulative Merkle root.  *)
(* A root is what it commits to, the cumulative amount of every account    *)
(* (zero for an account without an entry, which cannot claim either way).  *)
(* A call that reverts is not enabled.                                     *)
(***************************************************************************)
EXTENDS FiniteSets, Functions, Integers

CONSTANTS
  Account,     \* holders
  MaxVault     \* bound: MSTR that ever reaches the vault

ASSUME VaultAssumption == MaxVault \in Nat

VARIABLES
  vaultMstr,     \* mstr.balanceOf(vault)
  latestEpoch,
  merkleRoot,
  allocated,     \* cumulativeAllocated
  claimed,
  totalClaimed,
  vaultPaused

vaultVars == <<vaultMstr, latestEpoch, merkleRoot, allocated, claimed, totalClaimed, vaultPaused>>

NoRoot == [a \in Account |-> 0]

VaultInit ==
  /\ vaultMstr = 0 /\ latestEpoch = 0 /\ allocated = 0 /\ totalClaimed = 0
  /\ merkleRoot = NoRoot
  /\ claimed = [a \in Account |-> 0]
  /\ vaultPaused = FALSE

\* The conditions under which publishDistribution does not revert.
Accepts(epoch, newAllocated) ==
  /\ epoch > latestEpoch
  /\ newAllocated >= allocated
  /\ newAllocated <= vaultMstr + totalClaimed

PublishDistribution(epoch, root, newAllocated) ==
  /\ Accepts(epoch, newAllocated)
  /\ latestEpoch' = epoch
  /\ merkleRoot' = root
  /\ allocated' = newAllocated
  /\ UNCHANGED <<vaultMstr, claimed, totalClaimed, vaultPaused>>

\* claim, with the amount the root proves for the caller.
Claim(a) ==
  LET amount == merkleRoot[a] - claimed[a] IN
  /\ ~vaultPaused
  /\ amount > 0
  /\ amount <= vaultMstr
  /\ claimed' = [claimed EXCEPT ![a] = merkleRoot[a]]
  /\ totalClaimed' = totalClaimed + amount
  /\ vaultMstr' = vaultMstr - amount
  /\ UNCHANGED <<latestEpoch, merkleRoot, allocated, vaultPaused>>

PauseVault == vaultPaused' = ~vaultPaused
              /\ UNCHANGED <<vaultMstr, latestEpoch, merkleRoot, allocated, claimed, totalClaimed>>

\* MSTR arrives: the reward share of fees, or a transfer by anyone.
FundVault(amount) ==
  /\ vaultMstr + totalClaimed + amount <= MaxVault
  /\ vaultMstr' = vaultMstr + amount
  /\ UNCHANGED <<latestEpoch, merkleRoot, allocated, claimed, totalClaimed, vaultPaused>>

VaultNext ==
  \/ \E epoch \in Nat, root \in [Account -> Nat], newAllocated \in Nat :
       PublishDistribution(epoch, root, newAllocated)
  \/ \E a \in Account : Claim(a)
  \/ \E amount \in Nat : FundVault(amount)
  \/ PauseVault

\* The vault by itself: any roots, any claims.
VaultSpec == VaultInit /\ [][VaultNext]_vaultVars

-----------------------------------------------------------------------------
VaultTypeOK ==
  /\ vaultMstr \in Nat /\ latestEpoch \in Nat /\ allocated \in Nat /\ totalClaimed \in Nat
  /\ merkleRoot \in [Account -> Nat]
  /\ claimed \in [Account -> Nat]
  /\ vaultPaused \in BOOLEAN

\* What the root still lets the holders take.
Outstanding ==
  SumFunction([a \in Account |->
                 IF merkleRoot[a] > claimed[a] THEN merkleRoot[a] - claimed[a] ELSE 0])

\* The vault holds what it has allocated and not yet paid out, whatever roots
\* the publisher sends and in whatever order holders claim.
AllocationsFunded == allocated <= vaultMstr + totalClaimed

=============================================================================
