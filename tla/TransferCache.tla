---------------------------- MODULE TransferCache ----------------------------
(***************************************************************************)
(* updateTransferCache: events up to the last indexed block, the latest of *)
(* which are dropped and fetched again each time, because a node may show  *)
(* the events of a recent block late.  Events are named by their place in  *)
(* the history; the launch is in block 0.                                  *)
(***************************************************************************)
EXTENDS Integers, FiniteSets

CONSTANTS
  Transfers,       \* the token's history: each event's block, parties and amount
  OverlapBlocks,
  Lateness         \* a node shows an event when its block is this old

ASSUME CacheAssumption == OverlapBlocks \in Nat /\ Lateness \in Nat /\ Lateness <= OverlapBlocks
ASSUME TransfersAssumption ==
  /\ IsFiniteSet(DOMAIN Transfers) /\ DOMAIN Transfers \subseteq Nat
  /\ \A t \in DOMAIN Transfers : Transfers[t].time \in Nat /\ Transfers[t].amount \in Nat

EmptyCache == [lastIndexedBlock |-> -1, events |-> {}]

RefreshStart(cache) ==
  IF cache.lastIndexedBlock - OverlapBlocks + 1 > 0
  THEN cache.lastIndexedBlock - OverlapBlocks + 1 ELSE 0

\* The cache must not be further than the chain by more than the overlap
\* (TRANSFER_CACHE_AHEAD_OF_CHAIN).
AheadOfChain(cache, toBlock) == toBlock + OverlapBlocks < cache.lastIndexedBlock

InBlocks(from, to) == {e \in DOMAIN Transfers : Transfers[e].time \in from..to}

\* What a node may answer, from fetchTransferEvents and fetchAlchemyTransferEvents.
Answers(from, to, head) ==
  {InBlocks(from, to) \ late :
     late \in SUBSET {e \in InBlocks(from, to) : Transfers[e].time + Lateness > head}}

Updated(cache, fresh, toBlock) ==
  [lastIndexedBlock |-> toBlock,
   events |-> {e \in cache.events : Transfers[e].time < RefreshStart(cache)} \cup fresh]

=============================================================================
