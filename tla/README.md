# Flywheel strategy: TLA+ specifications and proofs

This directory models the parts of the repository that move money or remember
what was moved, checks them with TLC and proves the main results with TLAPS.
Every definition is translated from a source file; `PROJECT.json` gives the lines
under `map`, the model-checking runs, one mutant of the code for every checked
property, the theorems, and the hazards the properties are aimed at.

    tlc -workers 2 -config FeeSettlement.cfg MCFeeSettlement.tla
    tlapm FeeSettlementProofs.tla

## 1. The system

Two deployments live in the repository. The current one (`services/solana`) runs
on Solana: Pump.fun creator fees in MSTRx are collected, split 60/40 between a
holder payout account and a strategic reserve, and the holder part is paid out to
CAPITAL holders every epoch. The earlier one (`contracts`, `services/keeper`,
`services/indexer`) runs on an EVM chain.

| Component | State | Operations | Talks to | Hard behaviour | What makes it correct |
|---|---|---|---|---|---|
| Creator-fee settlement (`feeSettlement.ts`) | `fee-settlement.json`: receipts, a recovery | sweep, reconcile, route, recover | Solana through two RPC providers; control runner calls it | a signed transaction is saved before it is sent, and signed anew once it expired; lagging or wrong providers; stops | a receipt is paid out once, whole, and nothing else is |
| Reward pipeline (`rewardPipeline.ts`, `epochPlanner.ts`) | `reward-epochs/current.json`, public epoch files and history | prepare, distribute, finalize | reads the journal file; Solana | the same, over batches of two jobs; three files written one after the other | every batch once and in order; public files true |
| Holder indexer (`holderIndexerRunner.ts`, `holderJournal.ts`) | transfer cache, journal file | refresh | Bitquery, RPCs; reads the plan file, writes the journal | decides on a plan that may change before it writes; late or missing rows | windows without gap or overlap |
| Owner-action requests (`server.ts`, `controlRunner.ts`, `controlRequestStatus.ts`) | challenges in memory, request directories, nonces, failure records, outcome markers | challenge, queue, dispatch, answer, restore | panel, API server, runner, through directories | both processes stop between any two file operations | one effect per signature; a truthful answer in the end |
| Control runner and pause (`controlRunner.ts`) | `solana-status.json`, `config.json` | 13 owner actions; launch, fee and reward ticks | all of the above | effects before the status that records them; a pause with two owners | activation as armed; each pause is somebody's and ends |
| Launch detection (`launchDetector.ts`, `launchVerifier.ts`) | none beyond the armed status | candidate selection, verification | Bitquery, RPCs | launches before and after arming, several of them | the approved launch or none |
| Holder accounting (`holderAccounting.ts`, `rewardMerkle.ts`) | none | LIFO holding time, loyalty, largest-remainder split | called by the planner | integer boundaries | conserves and orders |
| Governance (`GovernanceController`, `RestrictedExecutor`, vaults) | proposals, votes, reserve and its locks | propose, vote, execute, release | keepers call execute and release | executor reverts undo everything; amounts fixed earlier | a vote per holder; governance never stuck; locked reserve stays |
| Fee router, collector, reward vault, keeper vault (EVM) | buckets of ETH and MSTR, roots, claims | receive, allocate, buy, publish, claim, reimburse | keepers, publisher | permissionless callers between keeper steps | conservation, one claim per amount |
| Publisher and keepers (`services/keeper`) | `PublisherState`, snapshots, history | publish, recover, fee cycle, releases, due proposals | the contracts | stop between transaction and saved state | state and chain agree or are repaired |
| Launch watcher and host control (`launchWatcher.ts`, `ops/control-runner.sh`) | armed, detected, request directories | detect, disarm, process a request | docker, PONS | two processes rewriting one file, stops | no launch missed |

`PROJECT.json` lists them all under `components`, with a reason for each one that
is not modelled, and the places where each can go wrong under `hazards`.

## 2. What is modelled

`SolanaTransactions` is shared by everything that signs. A transaction has a
status (unsigned, signed, sent, landed, failed), a commitment, and a *window*:
open up to `lastValidBlockHeight`, closing for the 32 blocks of margin the code
waits, past afterwards. An honest provider answers from the chain, its signature
status possibly lagging its height by the margin; a provider in `Faulty` may
answer anything about signatures and heights. The code's question is always the
same: have *all* providers finalized it (`readAgreedFinalizedTransaction`), or do
*all* agree it expired (`pendingTransaction`, `reconcileSubmitted`)?

| Module | Code | Correspondence |
|---|---|---|
| `FeeSplit` | `splitMstrx60_40` | exact integer arithmetic |
| `FeeCustody` | | the promise of settlement: what is collected is held apart and leaves once and whole |
| `FeeSettlement` | `feeSettlement.ts` | `ledger`, `recovery` are the JSON file; one action per saved step (`Sweep`, `CollectionFinalized`, `RouteReceipt`, ...); `sending` is the transaction saved and not yet sent |
| `EpochPayout` | | the promise to holders: consecutive epochs, each share once |
| `RewardPipeline` | `rewardPipeline.ts`, the planning side of `holderJournal.ts` | two processes; `plan` and `jobs` are `current.json`, `journal`, `epochFiles`, `history` the other files; `draft`, `sending`, `reading` what a process holds in memory |
| `ControlRequests` | `server.ts` (Solana part), `processOnce`, `consumeControlNonce`, `restoreRequestOutcomeMarkers`, `controlRequestStatus.ts` | one variable per directory; one action per file operation |
| `ControlRunner` | `dispatch` and the three ticks | `status` is `solana-status.json`, `held` the copy a call works on; fee ledger and plan appear as the state of their one open item; `launchedAt` is the block time of a launch, `seenBy` at how many providers it is final, and `Detected` compares them with the second of arming as `launchDetector.ts` does; `Facts` is what the verifier reads of a coin (`assertFixedMstrxPumpLaunch`) |
| `BlockTime`, `ReserveVault`, `TokenLockVault` | `StrategicReserveVault`, `ProjectTokenTimeLockVault` | the two vaults: balances, tranches, the clock both read |
| `Governance` | `GovernanceController`, `RestrictedExecutor`, `governanceKeeper.ts` | extends both vaults; one action per contract call, `proposals` holds the record, its options and their votes |
| `HoldingEngine`, `LargestRemainder`, `RewardMerkle` | `holderAccounting.ts`, `holdingMath.ts`, `distribution.ts`, `rewardMerkle.ts` | pure operators: lots and their LIFO consumption, loyalty by the hour, the split, the tree and its proofs |
| `HolderJournalCache` | `holderJournal.ts`, `bitqueryTransferSource.ts`, `holderIndexerRunner.ts`, the planning of `epochPlanner.ts` | `cache` and `journal` are the two files; `refresh` is what a refresh has in memory, one action per request (the coverage probe, the query of each window or half of one) and per file, the chain and the provider going on in between; `lost` remembers the rows that were dropped between probe and query |
| `TransferCache`, `RewardCadence` | `transferCache.ts`, `rewardCadence.ts` | the EVM cache with its overlap; the tracker that proves a market level before it changes the interval |
| `RewardVault` | `RewardVault.sol` | one action per call; a root is the cumulative amounts it commits to |
| `RewardPublisher` | `rewardPublisher.ts` | extends all of the above; `state`, `epochFiles`, `latestFile` and `history` are its files, one action per write, send or receipt; `view` is what its five concurrent reads have answered, each of the block of its own answer |
| `FeeRouter` | `FeeRouter.sol`, `KeeperVault.sol`, `reimburse.ts` | the buckets; a call is an action |
| `PonsLaunch` | external: the PONS factory and curve, as the watcher and the keeper use them | blocks, the phase of a launch, the fees it holds |
| `LaunchWatcher` | `launchWatcher.ts`, `ponsLifecycle.ts` | `armed`, `detected`, `prelaunch` are files; `watcher` is the process's memory |
| `FeeKeeper` | `rewardKeeper.ts`, `PonsFeeCollector.sol` | one action per transaction of a cycle |
| `HostControl` | `control-runner.sh`, `activate-postlaunch.py`, the queue of `server.ts` | composes the last four; one action per file or docker command |

In the contracts a transaction is atomic and a revert undoes it, so a call that
reverts is an action that is not enabled. Balances in the type invariants are
naturals: that is the statement that no checked subtraction underflows. The swap of
the adapter delivers something or reverts; the Merkle proof is membership in the
snapshot. Everybody may vote, execute, release, deposit and send tokens; only
the proposer proposes, and roles stay as deployed.

In the Solana modules an action runs up to the next durable save or broadcast of the code. What the
process still has in memory at that point is a variable, and a stop
(`BroadcastLost`, `ControlStops`, `IndexerStops`, `RunnerStops`, `ServerStops`)
loses it; an exception thrown by an RPC or the disk has the same effect. Writes
are atomic: `durableJson.ts` writes a temporary file and renames it. Where the code
writes in place (`server.ts:295`), the reader may fail instead.

`FeeSettlement` implements `FeeCustody` and `RewardPipeline` implements `EpochPayout`
under the refinement mappings at the end of each module (`KeepsCustody`,
`KeepsPayout`): an unpaid share disappears in the step in which its transfer
lands, whatever the files say at that moment.

Abstractions: one MSTRx balance per account; the two fee sources (curve and pool) are
one vault: each is collected by a transaction of its own (`feeSettlement.ts:195,208`), but one
at a time and whole, so that the fees of the other are like fees that arrive later; shares of a
batch are one amount, since how the inventory is split is pure; timestamps are units of
the instance; heartbeats and freshness of heartbeats are left out, which only
enables more; the coins are those of the creator, for candidates are asked for by creator; JSON
validation errors are absent, as the files are only written by the code itself.

Of a launch, the chain and the runner's host are taken to agree on the second it is: `armedAt` is
the host's clock and is compared with block times (`launchDetector.ts:26`). Blocks become final
in their order, so one of the two providers shows all that the other does; both are read in
one step, which makes no difference to what they agree on, as what is final stays. Two rules
are the owner's and not the code's, which would arm and activate again: nothing more is launched once
the site is live (`docs/launch-panel.md:63`), and then the owner does not arm in the very
second of a launch (`OwnerArms`).

Of the EVM deployment: the two PONS contracts are external, and that graduation
settles the curve's fees into the escrow is assumed (the keeper asks the curve for
nothing afterwards). A launch is named by its block, and whether it fits a manifest
is one comparison. The host's owner signs a request when the former is done (the
runner would make it wait), blocks matter until the detection, ETH arrives once the
services were started, the router is paused only with something to convert, and a
keeper cycle that finds nothing is left out: each of these removes interleavings that
change nothing, and is named where it stands in `HostControl`. The publisher's
market is a level, the transfers of `RewardPublisher` a fixed history read with
varying completeness. All calls to an EVM node are taken to reach a
node that is not behind one that answered before: `rpc.ts:20-22` may fall back to another,
and the watcher's head, logs and factory record (`launchWatcher.ts:178`) then need not fit each
other. `armed.json` is written in place when the host is armed (`control-runner.sh:131-136`); the
model writes it at once, so a watcher that reads half of it is not among its faults. The keeper
reads both buckets before it swaps either (`rewardKeeper.ts:152-157`), which is the same where, as in
the composition, only the keeper allocates; that it does not look at the status of a receipt
(`rewardKeeper.ts:89`) is `TransactionReverts`.
Some variables are ghosts: `ownerPaused` (what the owner asked last),
`watch` (the manifest and first block of the current watch), `torn` (an activation was
interrupted), `lost` (rows dropped between a probe and a query), `recounted`, `skipped` and
`aboveSince` (epochs counted twice, repairs that were stopped, readings of the market).

## 3. What TLC checks

| Run | Question | Instance |
|---|---|---|
| `fee_settlement` | Do money and ledger stay in step in the approved one-wallet configuration, while the owner spends from that account and strangers collect the vault? | 2 receipts, 5 signatures, 2 expiries, the fallback provider may lie; amounts 2 and 3, so the split rounds |
| `fee_settlement_live` | With two wallets and the recovery transfer, does every signed collection end? | 1 receipt, 4 signatures, 2 expiries |
| `reward_pipeline` | Are epochs paid once, in order and truthfully published? | 2 epochs of up to 2 batches, 7 signatures, 1 expiry, on-chain failure, a lying provider |
| `reward_pipeline_live` | Does an active epoch end? | 1 epoch, 1 expiry |
| `holders` | Do journals hold every transfer and rewards follow the holdings? | 5 seconds, 3 transactions of 4 kinds over 2 holders and a pool, pages of 2 rows, retention 3 that may pass a window while it is asked, a provider late by 1 second |
| `control_requests` | Does a signature act once, and is it answered truthfully? | 2 requests, 2 stops of the runner, stops of the server |
| `control_runner` | Are activation and pause coherent under all interleavings of actions and ticks? Does an epoch's pause end, and an armed launch activate? | 3 coins, 2 as approved and one with another creator fee, of which 2 are launched, in 2 seconds; unboundedly many epochs and stops |
| `control_runner_pause` | Does an owner pause stop routing, as the panel says? Violated, see below | 1 coin |
| `governance` | Does only a majority move the reserve, and never its locked part? Does the keeper end every vote and every lock? | 2 proposals over 5 menus with every action, 2 voters, MSTR deposited at any time, tokens sent by others, `execute` with any id |
| `governance_stuck` | Is every due proposal decided, as a comment says? Violated, see below | 1 proposal, an empty reserve |
| `evm_rewards` | Does the publisher keep its files, the vault and the holders in step? | 2 epochs, 2 accounts, 2 levels, 2 sends, reads of different blocks, transactions mined late, dropped or reverted, a stop before every write |
| `launch_host` | Does the earlier host get from a registered manifest to converted fees, whatever is asked of it and whatever fails once? | 3 requests of 7 kinds, 2 manifests, 2 blocks, 1 launch, 1 fault, 4 wei in chunks of 1 |

Bounds are CONSTANTS in the guards: `MaxReceipts`, `MaxVault`, `MaxForeign`,
`MaxDrops`, `MaxEpochs`, `MaxBatches`, `MaxTime`, `MaxSecond`, `MaxFunding`, `MaxStops`,
`MaxReserve`, `MaxGifts`, `MaxProposals`, `MaxTransactions`, `MaxSends`, `MaxEth`,
`MaxBlock`, `MaxLaunches`, `MaxRequests`, `MaxFaults`. They are
enough for the cases the hazards name: two receipts or epochs are the least in which
one can take from the other; two expiries are the least in which a route is
replaced twice or by a recovery; two batches of two jobs the least with an order
between and within; two stops the least in which a recovery from a stop is itself
stopped; three transactions over five seconds the least in which one is shown late, one
falls out of the overlap and one falls into the next window; two sends the least in
which a second publication meets a first that is mined late; two launches in two seconds the least in which one is
before the second of arming, in it or after it, and final or not when the other is; arming, activating and one
more request the least in which a request interferes with either, and one fault the least in which a
launch's recording is interrupted. With safety alone `launch_host` also holds for 5 requests, 2
faults and 3 blocks. Stops of `FeeSettlement`, `RewardPipeline` and `ControlRunner` are unbounded.
The proofs below carry the main properties to every bound.

`SignaturesInOrder` in `MCRewardPipeline` is a symmetry reduction: signatures are
interchangeable, so a run that uses them in numeric order represents the rest.
`MCFeeSettlement` uses TLC's symmetry sets, in a run without liveness only.
`CHECK_DEADLOCK FALSE` everywhere: when the bounds are spent (no more fees, no more
signatures) the models do stop.

The properties, by what they would catch:

* *Double payment:* `PaidOutOnce`, `BatchPaidOnce`, `ActedOnce`.
* *Let go too early:* `AbandonedNeverLands`, with the 32-block margin and the
  two-provider agreement as its mutants.
* *Files that say what is not so:* `LedgerTruth`, `PlanTruth`,
  `PublicFilesTrue`, `HistoryFaithful`, `ProcessedIsDone`, `ActivatedIsPublished`,
  `RecordsMatchChain`, `CursorSkipsNothing`.
* *Money of somebody else, or owed and not there:* `UnrelatedUntouched`, `KeepsCustody`,
  `EveryClaimFunded`.
* *Holders:* `JournalComplete` (every transaction old enough is in the journal, unless the provider
  dropped it between probe and query, and none after its window), `NothingForgotten`, `RewardsFollowHoldings` (weights equal a reference
  that adds up holdings second by second, and the split gives out every unit and respects
  the order of weights).
* *Order:* `InOrder`, `ActivatesTheArmedLaunch` (what is activated is the first coin launched since
  the second of arming), `LevelsAreProven` (the interval follows a level
  only after uninterrupted readings of it), `AutomationIsActivated` (services run only for
  the launch that was activated).
* *A pause nobody lifts, or somebody else's:* `PauseIsOwned`, `OwnerPauseOutlivesEpochs`.
* *Something must happen:* `EverySweepEnds`, `EveryEpochEnds`,
  `EveryRequestAnswered`, `EpochPauseReleased`, `LaunchActivates`, `EveryEpochListed`,
  `LaunchDetected`, `FeesConverted`.
* *Votes and reserve:* `TallyIsVoters`, `DecisionIsMajority`, `VaultsKeep`,
  `FrozenAmountsCovered`, `KeeperDecides`, `LocksReleased`. The published total of a ballot is the sum of its weights in
  the instance; that it may be another is covered by the proof. The durations and
  shares of the instance are small numbers (votes and delay 1, locks 2 or for ever,
  quorum 6 of 10): two proposals fit into the time, so that the second meets the
  tranches of the first, unexpired, expiring or permanent, and one vote of two misses
  the quorum. `FrozenAmountsCovered` has `StrayExecuted` as a premise, for the reason given
  in section 5; without it the same displacement refutes it.
* *The whole promise:* `KeepsCustody`, `KeepsPayout`.

### Fairness

The runner's `main` loops for ever and its service manager restarts it, so a step
that stays possible is taken (weak fairness on the steps of reconciliation,
distribution, dispatch). A call that is stopped in the middle is repeated from its
beginning, which makes later steps only repeatedly enabled: those get strong
fairness, that is, a call does not fail for ever. The network lands a transaction
it keeps receiving; `MaxDrops` bounds how often it does not. Heights and finality
advance. Nothing is assumed of fees, holders, launches, the owner (except that a
recovery once begun is followed up) or the indexer. In the liveness instances all
providers are honest and transactions do not fail on chain: the code answers a
disagreement and an on-chain error by throwing for ever, and
`docs/operations.md:98` asks the operator to stop and preserve state.

The governance keeper ticks for ever (`setInterval` at the end of its module), so its two
calls are weakly fair: a swap does not revert for ever because of prices or migration.
Nothing is assumed of voters, proposer, depositors or other callers. `KeeperDecides` ends at
`StrayExecuted`, for the keeper executes only the active proposal (section 5).

The publisher is a loop in a restarted container: its next step, of which a stop is one,
is weakly fair; of the ticks that find the chain an epoch ahead, not every one throws before its
repair is saved (`SF` of `Recover`), for each tick reads the chain anew; the chain owes it nothing. In
`launch_host` the runner, the watcher and the keeper are three processes, each with weak
fairness on its next step; failures and stops are bounded by `MaxFaults` instead
of being outvoted by strong fairness. `LaunchDetected` asks nothing of an owner who
disarms or arms again, `FeesConverted` only of runs in which the services stay up and the
router stays unpaused.

## 4. What is proved

TLAPS proves the following for every value of the constants that meets the named
ASSUMEs: any number of receipts, batches, epochs, requests, launches, blocks, accounts
and faults, and any set of providers of which one is honest.

| Module | Theorems |
|---|---|
| `FeeSettlementProofs` | `TypeCorrect`, `Invariance`, `PaidOutOnceHolds`, `AbandonedNeverLandsHolds`, `LedgerTruthHolds`, `PayoutIsReceiptHolds`, `MoneyInvariance`, `UnrelatedUntouchedHolds`, and the refinement `KeepsCustodyHolds` |
| `RewardPipelineProofs` | `TypeCorrect`, `Invariance`, `BatchPaidOnceHolds`, `PlanTruthHolds`, `InOrderHolds`, `PublicFilesTrueHolds`, `HistoryFaithfulHolds`, and the refinement `KeepsPayoutHolds` |
| `HolderJournalProofs` | `JournalInvariance`, `JournalCompleteHolds`, `NothingForgottenHolds` |
| `ControlProofs` | of the requests: `ActedOnceHolds`, `ProcessedIsDoneHolds`; of the runner: `TypeCorrect`, `ActivatedIsPublishedHolds`, `PauseIsOwnedHolds`, `ActivatesTheArmedLaunchHolds`, `OwnerPauseOutlivesEpochsHolds` |
| `GovernanceProofs` | `TypeCorrect`, `VaultsKeepHolds`, `TallyIsVotersHolds`, `DecisionIsMajorityHolds`, `FrozenAmountsCoveredHolds` |
| `RewardPublisherProofs` | of the vault: `VaultTypeCorrect`, `AllocationsFundedHolds`; of the publisher: `PublisherInvariance`, `EveryClaimFundedHolds`, `RecordsMatchChainHolds`, `LevelsAreProvenHolds`, `VaultKept`; of the split both deployments use: `SplitIsFair` |
| `HostControlProofs` | of the router: `RouterTypeCorrect`, `EthConservedHolds`; of the host: `Invariance`, `CursorSkipsNothingHolds`, `AutomationIsActivatedHolds` |
| `SumTheorems` | lemmas: sums over finite sets (`SumAdd`, `SumChange`, `SumPart`, `SumReindex`, ...), least members (`MinimalSubset`, `LeastNumber`), ranks (`Ranked`, `Placed`) |

Both refinements are proved step by step: the initial states of the detailed
specification map to initial states of the abstract one, and every step to a step of
it or to none.

The assumptions are the named ASSUMEs, nothing else:

* `TransactionsAssumption`: some provider is not faulty, and "no signature" is not a signature.
* `RunnerAssumption`: every coin has the facts its launch says, "no mint" is not a mint, and "never" not a time.
* `JournalAssumption`: the overlap of two windows is no shorter than the provider's disorder,
  and disorder and index lag are at least a second. Without the last, a transaction in a
  second the provider has already passed would be missed.
* `CacheAssumption`, `TransfersAssumption`: the same of the EVM cache, over finitely many transfers.
* `PublisherAssumption`: accounts are finitely many numbers (they are ordered), bases and loyalty
  are numbers, and transfers are between accounts; `CadenceAssumption`: levels are numbers, one is 0.
* `GovernanceAssumption`: a ballot lists weights that are naturals, a menu is a sequence of options,
  votes last at least a second, shares are of a positive whole.
* `WatcherAssumption`: the manifest registered before is one, or none.
* `ConstantsAssumption`, `PipelineAssumption`, `RequestsAssumption`, `RouterAssumption`,
  `VaultAssumption`, `ReserveAssumption`, `GiftsAssumption`, `TimeAssumption`: bounds are numbers.

*The argument about transactions.* "No double payment" is not inductive: once a
transaction has expired the file forgets it, and nothing in the property says that
it cannot land later. The invariants therefore say that a forgotten transaction is
`Dead`: past its window and not landed, which no step undoes. `ExpiryIsFinal` derives
this from one honest provider and the 32-block margin. In `FeeSettlement` a receipt
then has at most one payout that is not dead (`SolePayout`), and its state names it.
In `RewardPipeline` every job has at most one attempt that is not dead
(`SoleAttempt`), the plan's entry names it while the epoch lasts
(`CurrentAttempt`), and a new plan has a number under which nothing was ever signed
(`EpochsFit`, `JournalsFit`). The last point is where the two processes meet: a
stale journal is refused because its number is not the successor of the plan's, and
before the first plan every journal is of epoch 1.

*The money and the promises.* That the creator account never falls below what is not the
flywheel's needs the amount of every transfer that could still land: it is that of one receipt
that is held (`PayoutIsHeld`), so the balance is the held receipts plus the unrelated MSTRx
(`MoneyFit`). Each step then is one of `FeeCustody` or none. In `RewardPipeline` the
inventory a plan divides is read before the plan is saved; it can only have grown
meanwhile, because between plans nothing signed can still be paid (`PlansFit`, `AttemptsFit`).
`FilesFit` and `HistoryFit` say at each step of a finalization which of the public files
speak of the epoch. From `PipelineInv`, which joins these, every step is one of `EpochPayout`
or none.

*The argument about journals.* A journal is a copy of the cache, and the cache is
complete up to the disorder (`Complete`) only if the provider leaves out nothing the indexer does not
have (`SourceFits`). A transaction that is in the range of a claim is either younger than
where the new window begins, and then found, or older by the overlap than what the cache
claimed before, and then there already. While a refresh is under way, a row of its window is found,
or in a window still to be asked, or the provider dropped it meanwhile (`cut`): halving a window, and
answering one, keep this, whatever becomes of the chain and the provider between the requests.

*The argument about requests.* Before its nonce is consumed nothing has been done
(`NonceFirst`); after that only the request in hand can still act, once (`InHand`);
so whatever is filed or marked as a success is one (`FiledIsDone`).

*The argument about the runner.* That an epoch's pause is released by its own end, and
the owner's by the owner, is not inductive, because every call reads the status file,
works, and writes back what it read. The invariant says what a call may hold in memory while
it is between the two, relative to the files (`HeldFits`). What it holds of a launch is that it is the
first since the second of arming (`FirstLaunch`): an earlier one would be final at both
providers by then (`FinalInOrder`), and the two would not have shown one coin only; a later one
does not change it. And no launch counts once one was activated, though the owner
may arm again (`NoneAfter`).

*The argument about votes.* A tally is a sum over voters, so one vote changes it by the voter's
weight (`SumChange`). What was decided stays the majority's because a decision needs
the vote to have ended (`DecisionsFinal`). The loop of `_winner` is compared with the
definition of a sole greatest option round by round. The frozen amounts stay covered because at
most one proposal is undecided (`OneUndecided`) until an id is executed before it was
proposed (`StrayExecuted`, section 5).

*The argument about the publisher.* `PublisherInv` says that chain, state and transactions
are within one epoch of each other (`StagesInStep`), that what a tick has read is of now or
of before and that it goes on only with the epoch its state has (`ViewInStep`), which files agree with which
(`RecordsInStep`), and that sums agree until an epoch on the chain has another snapshot than the
file (`Diverged`) or was counted twice (`recounted`). The property excuses a state in which that has become possible
(`Overtaken`), which `Diverged` implies. That a snapshot's root adds up to its
total is proved of the code's own split: the rows that get a unit more are those ranked before
the remainder, and ranks number them without gap (`Ranked`). `SplitIsFair` adds that no share is a
whole unit away from the exact one and that more weight never gets less: a row whose share is
exact gets no unit more (`ExactGetsNoMore`), since the rows that leave a remainder outnumber the
units left over. That a replay of transfers ends in
weights that are naturals is shown by its shortest prefix that would not.

*The argument about the host.* The cursor theorem needs two facts that the property
does not state: no cursor is ahead of the blocks there are, or a launch in the next block
would already be passed; and a process that scans looks for the manifest the
watch is about, though prelaunch.json may have been replaced meanwhile
(`CursorFits`). The activation theorem needs to know which of the three files name the
launch at every step of an activation (`ActivationFits`), that what a request names was
launched when the request was queued and that chains only grow (`Verified`), and that a
detection is never replaced (`DetectedOnce`).

*The contracts.* The sums of `FeeRouter` and `RewardVault` are inductive once the
balances are naturals, which every call that is let through preserves: this is where
a checked subtraction would revert.

*Data defined by recursion.* The library states induction with an operator as parameter,
which the installed back ends cannot instantiate. Where a proof needs it (sums over sets, the rounds
of `_winner`, replays) it takes a smallest counterexample instead, which
exists because numbers and the subsets of a finite set are well founded
(`LeastNumber`, `MinimalSubset`), and the existence of a recursively defined function
is proved in the same way (`SumsExist`, `RoundsExist`).

Only model-checked: `RewardsFollowHoldings`, which compares the lots of
`HoldingEngine` with a sum over seconds and includes the Merkle proofs (its part about the
split is `SplitIsFair`, for all weights and amounts), and everything
that must eventually happen (`EverySweepEnds`, `EveryEpochEnds`, `EveryRequestAnswered`,
`EpochPauseReleased`, `LaunchActivates`, `KeeperDecides`, `LocksReleased`,
`EveryEpochListed`, `LaunchDetected`, `FeesConverted`): liveness under fairness and ENABLED
are out of this prover's reach, as are RECURSIVE operators, of which the modules have none.

## 5. Where the code differs from what is written about it

Two runs show a disagreement:

* `control_runner_pause`: the panel says that pausing stops new fee collections and
  routing (`apps/web/src/solanaAdmin.tsx:58`). A pause requested while an epoch owns
  the pause leaves no trace in the status, and is lifted when the epoch is
  finalized.
* `governance_stuck`: `createProposal` accepts a share of the reserve that rounds to zero
  and freezes zero; `executeOption` refuses zero. If such an option wins, `execute`
  reverts for ever and `createProposal` refuses every further proposal, while
  `GovernanceController.sol:163` says that execution is called automatically after the delay.

The models also have these behaviours, which properties exclude by name or which
nothing in the repository promises otherwise:

* *A recorded failure is dispatched again.* After a stop between the failure record and the move of
  a request (`controlRunner.ts:516`), the request is dispatched again, and takes effect
  if its nonce had not been consumed when the first attempt failed; it is then shown as
  processed until the next restart marks it failed from the old record.
* *A displaced proposal.* `createProposal` refuses while a proposal is active
  (`GovernanceController.sol:89`), but `execute` clears `activeProposalId` for whichever id it
  is given, and an id not yet proposed reads as due, quorate and untied. A second proposal
  can then be open beside the first, which the keeper no longer sees (`StrayExecuted`).
* *An overtaken snapshot.* When the wait for a publication gives up and the transaction is mined
  later, the epoch's snapshot may have been rewritten: recovery then refuses
  (`RECOVERY_SNAPSHOT_ROOT_MISMATCH`), and because the receipt's status is not looked at
  (`rewardPublisher.ts:281`), a reverted second publication is recorded as published
  (`Overtaken`).
* *An epoch counted twice.* A tick reads epoch, root, total allocated and total claimed by separate
  calls (`rewardPublisher.ts:124-131`). When a late publication is mined between them, the epoch may be
  the new one and the total that of before: recovery accepts it, `newReward` (line 197) counts the
  reward of that epoch again, and the vault, which only checks the total, accepts a root that owes more
  than it holds: the last to claim are refused until more arrives (`recounted`).
* *Rows dropped between probe and query.* `probeCoverage` checks the provider's floor once
  (`bitqueryTransferSource.ts:83`); a query sent after the floor has passed the start of its window returns
  the tail and no error, which is what the comment at line 56 fears. Rows seen before are missed
  (`HOLDER_INDEX_PREVIOUS_TRANSFER_MISSING`), others are not (`lost`).
* *A second launch that is not final yet* when the first is detected goes unnoticed: the coin activated
  is the first since the second of arming, not always the only one. One of that second but
  before the owner armed counts as well (`launchDetector.ts:26` rounds down).
* *A repair that is stopped* after it saved the state (`rewardPublisher.ts:149-160`) is not repeated:
  the epoch stays out of the public history (`skipped`).
* *An indexer that was down* for longer than six hours less the overlap, or met a second with as many
  rows as a page holds, refuses every later refresh (`TRANSFER_SOURCE_REALTIME_GAP`,
  `BITQUERY_SINGLE_SECOND_OVERFLOW`): safe, and only an operator can end it.
* *`armed.json` is rewritten from the watcher's memory* (`launchWatcher.ts:196`): a cancellation or
  a new arming between two scans is undone by the next cursor, and the expiry of an old
  watch disarms a new one.
* *A manifest registered while armed* is seen by the watcher at its next start only, and the cursor it
  resumes from was not scanned for it; the ghost `watch` therefore ends there.
* *A stop inside an activation.* `activate-postlaunch.py` writes `postlaunch.json` before the environment
  file; stopped in between (lines 91 and 92), a later `start_automation` finds the record and starts the
  services with the former environment (`control-runner.sh:99-100`). `AutomationIsActivated` excludes
  interrupted activations (`torn`).
* *A request that the runner was processing when it stopped* stays in `processing`, where nothing
  looks again; one that is only partly written when it is read is archived as
  rejected.

## 6. Not modelled, and what is left

Not modelled because there is no state to explore: the web panel, deployment and
verification scripts, instruction building (`pumpFees.ts`), market prices and quotes,
the fields of manifests, the cryptography of signatures and hashes, the token cache of
Bitquery's authentication, heartbeats and reports.

Left out of a modelled part: the choice of swap adapters in `FeeRouter` and the list of
reimbursed jobs in `KeeperVault`; the challenge before the earlier API's queue (as in
`ControlRequests`); how `launchVerifier.ts` reads the facts of a launch from its
transaction and accounts (the decision over them is in `ControlRunner`); governance
snapshots, whose tree and holdings are the operators of `RewardMerkle` and
`HoldingEngine` over other leaves.

Left to prove: of `RewardsFollowHoldings`, that a sale of the youngest lots earns what the
reference by the second says, and that the proofs of `RewardMerkle` verify.
