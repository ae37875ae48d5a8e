------------------------- MODULE HolderJournalCache -------------------------
(***************************************************************************)
(* The holder indexer: it asks a streaming provider which transactions     *)
(* moved the token, over a window that overlaps what it asked before,      *)
(* keeps them in a cache, and writes the journal of the next epoch, from   *)
(* which the planner replays holdings and splits the reward.               *)
(*                                                                         *)
(* The provider shows transactions late and in any order, and may leave    *)
(* out one it has shown; it says how far it is.  One slot is one second    *)
(* here.  Transactions are named by their place in chain order, which is   *)
(* that of slot and index; the first is the launch.                        *)
(*                                                                         *)
(* A refresh asks the provider many times: how far it reaches, and then    *)
(* window by window.  Each answer is of the moment it is given, and the    *)
(* provider goes on between two of them.  What throws ends the refresh     *)
(* (IndexerStops).                                                         *)
(***************************************************************************)
EXTENDS HoldingEngine, LargestRemainder, RewardMerkle

CONSTANTS
  LaunchNet,      \* what the launch mints
  Nets,           \* net changes other transactions make
  Disorder,       \* a transaction is shown when the provider's newest second is this much later
  Retention,      \* seconds the provider keeps
  MaxWindow,      \* longest window asked for, 6 hours
  PageSize,       \* rows a query returns at most
  Overlap,        \* overlapSeconds
  IndexLag,       \* how far behind finality the indexer stays (SOLANA_HOLDER_INDEX_LAG_SLOTS)
  EpochSeconds,
  Funded,         \* the reward of an epoch
  MaxTransactions, MaxTime    \* bounds

ASSUME JournalAssumption ==
  /\ {Retention, MaxWindow, Overlap, EpochSeconds, MaxTransactions, MaxTime} \subseteq Nat
  /\ {Disorder, IndexLag} \subseteq Nat \ {0}
  /\ Disorder <= Overlap

VARIABLES
  now,       \* the finalized second
  chain,     \* transactions, in order
  newest,    \* how far the provider says it is
  shown,     \* transactions it shows
  cache,     \* capital-transfers.json
  journal,   \* the journal file
  refresh,   \* the refresh in progress
  plan,      \* current.json
  lost       \* what the provider had dropped when its window was asked (CutAway)

chainVars == <<now, chain>>
sourceVars == <<newest, shown>>
indexerVars == <<cache, journal, refresh, lost>>
vars == <<chainVars, sourceVars, indexerVars, plan>>

Launch == 1
LaunchTime == 0

NoCache == [through |-> LaunchTime - 1, txs |-> {}]
NoJournal == [epochId |-> 0, windowStart |-> 0, windowEnd |-> 0, txs |-> {}]
NoPlan == [epochId |-> 0, windowEnd |-> LaunchTime, finalized |-> TRUE]
NoRefresh == [step |-> "idle", through |-> LaunchTime, windows |-> {}, found |-> {}, cut |-> {}]

Init ==
  /\ now = LaunchTime /\ newest = LaunchTime
  /\ chain = <<[time |-> LaunchTime, net |-> LaunchNet]>>
  /\ shown = {}
  /\ cache = NoCache
  /\ journal = NoJournal
  /\ refresh = NoRefresh
  /\ plan = NoPlan
  /\ lost = {}

Transactions == DOMAIN chain
Time(t) == chain[t].time

-----------------------------------------------------------------------------
(***************************************************************************)
(* The chain and the provider.                                             *)
(***************************************************************************)
Balance(h) == MapThenSumSet(LAMBDA t : chain[t].net[h], Transactions)

Transact(net) ==
  /\ Len(chain) < MaxTransactions
  /\ \A h \in Holder : Balance(h) + net[h] >= 0
  /\ chain' = Append(chain, [time |-> now, net |-> net])
  /\ UNCHANGED <<now, sourceVars, indexerVars, plan>>

Clock ==
  /\ now < MaxTime
  /\ now' = now + 1
  /\ UNCHANGED <<chain, sourceVars, indexerVars, plan>>

\* The launch need never be shown: minting is not always a transfer.
Show(t) ==
  /\ t \notin shown
  /\ Time(t) <= newest
  /\ shown' = shown \cup {t}
  /\ UNCHANGED <<chainVars, newest, indexerVars, plan>>

NewerBlocks ==
  /\ newest < now
  /\ \A t \in Transactions \ {Launch} : Time(t) + Disorder <= newest + 1 => t \in shown
  /\ newest' = newest + 1
  /\ UNCHANGED <<chainVars, shown, indexerVars, plan>>

\* The provider leaves out what it has shown and the indexer has seen; what it
\* shows to nobody yet is late, by no more than Disorder.
LeaveOut(t) ==
  /\ t \in shown \cap cache.txs
  /\ shown' = shown \ {t}
  /\ UNCHANGED <<chainVars, newest, indexerVars, plan>>

-----------------------------------------------------------------------------
(***************************************************************************)
(* refreshHolderJournal, and BitqueryTransferSource.discover in it.        *)
(***************************************************************************)
\* Mutant: the next window begins where the last one ended.
FromTimeNoOverlap ==
  IF cache = NoCache THEN LaunchTime ELSE cache.through + 1
FromTime ==
  IF cache = NoCache THEN LaunchTime ELSE Greatest(LaunchTime, cache.through - Overlap)

\* A slot that is final at every provider, with the same block: the lowest of
\* their heights or one before it, for they may be behind the chain.
FinalizedConsensus == LaunchTime..now

\* agreedBlock: from the slot asked for downwards, skipped slots passed over.
AgreedBlocks(proposed) == {slot \in LaunchTime..MaxTime : slot <= proposed}

\* probeCoverage: a query outside what is kept would return only its tail.
Covered(from, through) ==
  /\ through - from <= MaxWindow
  /\ newest - Retention <= from
  /\ newest >= through - 1

\* A refresh begins: up to where, and whether the provider reaches as far.
Probe(through) ==
  /\ refresh.step = "idle"
  /\ \E slot \in FinalizedConsensus : through \in AgreedBlocks(slot - IndexLag)
  /\ through >= cache.through
  /\ Covered(FromTime, through + 1)
  /\ refresh' = [NoRefresh EXCEPT !.step = "asking", !.through = through,
                                  !.windows = {<<FromTime, through + 1>>}]
  /\ UNCHANGED <<chainVars, sourceVars, cache, journal, plan, lost>>

Returned(from, through) ==
  {t \in shown : Time(t) >= Greatest(from, newest - Retention) /\ Time(t) < through}

\* Beyond the code: transactions of a window, not indexed yet, that were covered
\* by the probe and are no longer kept when the window is asked.
CutAway(from, through) ==
  {t \in shown \ cache.txs : /\ Time(t) >= from /\ Time(t) < through
                             /\ Time(t) < newest - Retention}

\* The oldest window is asked; if its page is full, its halves are, and a full
\* second throws.
Query(w) ==
  LET page == Returned(w[1], w[2])
      middle == w[1] + (w[2] - w[1]) \div 2
      others == refresh.windows \ {w}
  IN
  /\ refresh.step = "asking"
  /\ w \in refresh.windows /\ \A v \in refresh.windows : w[1] <= v[1]
  /\ \/ /\ Cardinality(page) < PageSize
        /\ refresh' = [refresh EXCEPT !.windows = others, !.found = @ \cup page,
                                      !.cut = @ \cup CutAway(w[1], w[2])]
     \/ /\ Cardinality(page) >= PageSize
        /\ w[2] - w[1] > 1
        /\ refresh' = [refresh EXCEPT
                         !.windows = others \cup {<<w[1], middle>>, <<middle, w[2]>>}]
  /\ UNCHANGED <<chainVars, sourceVars, cache, journal, plan, lost>>

\* What was found, with the launch, which is verified by itself at first and
\* then kept.
Found ==
  refresh.found \cup {t \in {Launch} : cache = NoCache \/ Time(t) >= FromTime}

\* Every cached transaction of the window is found again.
\* Mutant: what is missing is dropped.
MissingIgnored(found, through) == TRUE
NoneMissing(found, through) ==
  \A t \in cache.txs : Time(t) >= FromTime /\ Time(t) <= through => t \in found

\* All windows are answered.
SaveCache ==
  /\ refresh.step = "asking" /\ refresh.windows = {}
  /\ NoneMissing(Found, refresh.through)
  /\ cache' = [through |-> refresh.through,
               txs |-> {t \in cache.txs : Time(t) < FromTime} \cup Found]
  /\ refresh' = [NoRefresh EXCEPT !.step = "saved"]
  /\ lost' = lost \cup refresh.cut
  /\ UNCHANGED <<chainVars, sourceVars, journal, plan>>

\* The journal is written when no plan is open and a window is full.
Publish ==
  /\ refresh.step = "saved"
  /\ IF plan.finalized /\ cache.through - plan.windowEnd >= EpochSeconds
     THEN journal' = [epochId |-> plan.epochId + 1, windowStart |-> plan.windowEnd,
                      windowEnd |-> cache.through, txs |-> cache.txs]
     ELSE UNCHANGED journal
  /\ refresh' = NoRefresh
  /\ UNCHANGED <<chainVars, sourceVars, cache, plan, lost>>

\* The indexer stops, or anything throws: a call, a check, the second file.
IndexerStops ==
  /\ refresh.step # "idle"
  /\ refresh' = NoRefresh
  /\ UNCHANGED <<chainVars, sourceVars, cache, journal, plan, lost>>

-----------------------------------------------------------------------------
(***************************************************************************)
(* The journal's movements (holderMovements), and the plan made of them.   *)
(***************************************************************************)
\* Givers and takers of a transaction are matched along a line: a giver
\* occupies as much of it as it gives, the next begins where it ends, and
\* takers likewise.  Beyond the last of either is NoOne.
Gives(t) == [h \in Holder |-> IF chain[t].net[h] < 0 THEN -chain[t].net[h] ELSE 0]
Takes(t) == [h \in Holder |-> IF chain[t].net[h] > 0 THEN chain[t].net[h] ELSE 0]

Span(t, h, amount) ==
  LET before == SumFunctionOnSet(amount, {o \in Holder : h = NoOne \/ o < h})
  IN [from |-> before,
      to |-> IF h # NoOne THEN before + amount[h]
             ELSE Greatest(SumFunction(Gives(t)), SumFunction(Takes(t)))]

Overlapping(t, g, r) ==
  [from |-> Greatest(Span(t, g, Gives(t)).from, Span(t, r, Takes(t)).from),
   to   |-> Least(Span(t, g, Gives(t)).to, Span(t, r, Takes(t)).to)]

HolderMovements(t) ==
  LET giver == {h \in Holder : Gives(t)[h] > 0} \cup {NoOne}
      taker == {h \in Holder : Takes(t)[h] > 0} \cup {NoOne}
      pairs == {p \in giver \X taker :
                  Overlapping(t, p[1], p[2]).from < Overlapping(t, p[1], p[2]).to}
      at(p) == Overlapping(t, p[1], p[2]).from
      ordered == SetToSortSeq(pairs, LAMBDA p, q : at(p) < at(q))
  IN [i \in DOMAIN ordered |->
        [id |-> <<t, i>>, time |-> Time(t), from |-> ordered[i][1], to |-> ordered[i][2],
         amount |-> Overlapping(t, ordered[i][1], ordered[i][2]).to - at(ordered[i])]]

Ordered(txs) == SetToSortSeq(txs, <)

Movements(txs) ==
  FoldSeq(LAMBDA t, moves : HolderMovements(t) \o moves, <<>>, Ordered(txs))

\* buildRewardEpochPlan: holdings of the window, their split, one leaf each.
Holdings(j) == Replayed(Movements(j.txs), j.windowStart, j.windowEnd)

Allocations(weights) ==
  LET paid == Ordered({h \in Holder : Share(weights, Funded, h) > 0})
  IN [i \in DOMAIN paid |->
        [recipient |-> paid[i], amount |-> Share(weights, Funded, paid[i])]]

RewardLeaf(epochId, payment) == <<"leaf", <<epochId, payment.recipient, payment.amount>>>>

\* The runner takes the journal it waits for; holdings that do not add up, or
\* nobody to pay, throw.
PlanEpoch ==
  /\ plan.finalized
  /\ journal.epochId = plan.epochId + 1
  /\ journal.windowStart = plan.windowEnd
  /\ \E holdings \in {Holdings(journal)} :
       ~holdings.overdrawn /\ Rows(Weights(holdings)) # {}
  /\ plan' = [epochId |-> journal.epochId, windowEnd |-> journal.windowEnd, finalized |-> FALSE]
  /\ UNCHANGED <<chainVars, sourceVars, indexerVars>>

FinalizeEpoch ==
  /\ ~plan.finalized
  /\ plan' = [plan EXCEPT !.finalized = TRUE]
  /\ UNCHANGED <<chainVars, sourceVars, indexerVars>>

-----------------------------------------------------------------------------
World ==
  \/ \E net \in Nets : Transact(net)
  \/ Clock
  \/ \E t \in Transactions : Show(t) \/ LeaveOut(t)
  \/ NewerBlocks

Indexer ==
  \/ \E through \in 0..MaxTime : Probe(through)
  \/ \E w \in refresh.windows : Query(w)
  \/ SaveCache \/ Publish \/ IndexerStops
Planner == PlanEpoch \/ FinalizeEpoch

Next == World \/ Indexer \/ Planner
Spec == Init /\ [][Next]_vars

-----------------------------------------------------------------------------
(***************************************************************************)
(* Properties.                                                             *)
(***************************************************************************)
\* What the indexer has verified once stays in its cache, and the cache never
\* goes back in time, whatever the provider leaves out later
\* (HOLDER_INDEX_PREVIOUS_TRANSFER_MISSING, the retained and the refreshed rows).
NothingForgotten ==
  [][cache.txs \subseteq cache'.txs /\ cache.through <= cache'.through]_vars

\* A journal has every transaction that is older than the provider's disorder,
\* and none after its window, although each was asked for at most a few times,
\* windows are asked in halves while the provider goes on, and refreshes stop or
\* are refused in between.  The one way to lose a transaction is that the
\* provider drops its second between the probe and the query for its window,
\* which then answers with the tail and no error (the comment of probeCoverage).
JournalComplete ==
  journal # NoJournal =>
    /\ Launch \in journal.txs
    /\ \A t \in Transactions :
         /\ Time(t) + Disorder <= journal.windowEnd => t \in journal.txs \cup lost
         /\ t \in journal.txs => Time(t) <= journal.windowEnd

\* Every holder has the weight its holding has by the second, a unit sold being
\* the youngest one, computed from the net changes of the chain; the split of the
\* reward over those weights gives out every unit, nothing without weight, never
\* a unit away from the exact share and never less for more weight; and every
\* payment has a proof the root accepts (MERKLE_PROOF_BUILD_FAILED).
Fair(j) ==
  LET engine == Holdings(j)
      weights == Weights(engine)
      total == TotalWeight(weights)
      payments == Allocations(weights)
      leaves == [i \in DOMAIN payments |-> RewardLeaf(j.epochId, payments[i])]
      share(h) == FoldSeq(LAMBDA p, sum : sum + (IF p.recipient = h THEN p.amount ELSE 0),
                          0, payments)
  IN /\ ~engine.overdrawn
     /\ \A h \in Holder : weights[h] = BySecond(chain, h, j.windowStart, j.windowEnd)
     /\ total > 0 =>
          /\ MapThenSumSet(share, Holder) = Funded
          /\ \A h \in Holder :
               /\ weights[h] = 0 => share(h) = 0
               /\ share(h) * total < Funded * weights[h] + total
               /\ share(h) * total > Funded * weights[h] - total
          /\ \A g, h \in Holder : weights[g] > weights[h] => share(g) >= share(h)
          /\ \A i \in DOMAIN leaves :
               VerifyRewardProof(Root(leaves), leaves[i], Proof(leaves, i))

\* So it is for every journal that has all transactions up to its end.
RewardsFollowHoldings ==
  [][(/\ journal' # journal
      /\ \A t \in Transactions : Time(t) <= journal'.windowEnd => t \in journal'.txs) =>
     Fair(journal')]_vars

=============================================================================
