--------------------------- MODULE RewardPublisher ---------------------------
(***************************************************************************)
(* The reward publisher of the EVM deployment with the vault it publishes  *)
(* to.  A tick reads the chain, repairs its state from the epoch file when *)
(* the chain is one epoch ahead, observes the market, writes the snapshot, *)
(* sends the transaction, waits for it, and then writes four files; it may *)
(* stop (or throw) before each.  The wait gives up after a while, so that  *)
(* the transaction may be mined after the tick that sent it, and a receipt *)
(* is not asked whether the transaction succeeded.  A block is a second.   *)
(*                                                                         *)
(* The tick reads five quantities of the chain by five calls at once, each *)
(* answered of the latest block when it arrives: they may be of different  *)
(* blocks.                                                                 *)
(***************************************************************************)
EXTENDS RewardVault, RewardCadence, LargestRemainder, TransferCache, Sequences

CONSTANTS
  NoOne,         \* the zero address
  Hour, Loyalty, BaseBps,    \* of the holding weights
  IndexerConfirmations,
  Funding,       \* amounts that arrive
  MaxEpochs,     \* bound: epochs
  MaxSends,      \* bound: transactions the publisher sends
  MaxTime        \* bound: time

ASSUME PublisherAssumption ==
  /\ IsFiniteSet(Account) /\ Account \subseteq Int /\ NoOne \notin Account
  /\ Hour \in Nat /\ BaseBps \in Nat \ {0} /\ Loyalty \in Seq(Nat) /\ Loyalty # <<>>
  /\ IndexerConfirmations \in Nat /\ Funding \subseteq Nat /\ MaxEpochs \in Nat
  /\ \A t \in DOMAIN Transfers : {Transfers[t].from, Transfers[t].to} \subseteq Account \cup {NoOne}

VARIABLES
  now,          \* timestamp of the latest block
  txs,          \* transactions sent, in nonce order, with what became of them
  state,        \* reward-state.json
  epochFiles,   \* epoch-<n>.json
  latestFile,   \* the epoch latest.json shows
  history,      \* the epochs history.json lists
  transferCache,
  step,         \* where the tick is
  view,         \* what the tick has read of the chain
  draft,        \* the snapshot in memory
  recounted,    \* epochs drafted from a total older than the epoch read with it (Torn)
  skipped,      \* epochs whose repair stopped after the state was saved
  aboveSince    \* since when every observation has been at a level or above

fileVars == <<state, epochFiles, latestFile, history, transferCache>>
memoryVars == <<step, view, draft>>
ghostVars == <<recounted, skipped, aboveSince>>
pubVars == <<now, txs, fileVars, memoryVars, ghostVars>>
vars == <<vaultVars, pubVars>>

Epochs == 1..MaxEpochs

Engine == INSTANCE HoldingEngine WITH Holder <- Account, Excluded <- {}

NoFile ==
  [status |-> "none", windowStart |-> 0, windowEnd |-> 0, reward |-> 0, allocated |-> 0,
   root |-> NoRoot]
NewState == [latestEpoch |-> 0, lastWindowEnd |-> 0, cumulative |-> NoRoot, cadence |-> FreshCadence]
NoView == [block |-> 0, epoch |-> 0, root |-> NoRoot, allocated |-> 0, claimed |-> 0]

Init ==
  /\ VaultInit
  /\ now = 0 /\ txs = <<>>
  /\ state = NewState
  /\ epochFiles = [e \in Epochs |-> NoFile]
  /\ latestFile = 0 /\ history = {} /\ transferCache = EmptyCache
  /\ step = "idle" /\ view = NoView /\ draft = NoFile
  /\ recounted = {} /\ skipped = {}
  /\ aboveSince = [l \in Levels |-> None]

-----------------------------------------------------------------------------
(***************************************************************************)
(* A tick.                                                                 *)
(***************************************************************************)
\* The tick is over, and what it had in memory gone.
Forget == step' = "idle" /\ view' = NoView /\ draft' = NoFile

\* What the five calls would answer now.
Latest == [block |-> now, epoch |-> latestEpoch, root |-> merkleRoot,
           allocated |-> allocated, claimed |-> totalClaimed]

\* A tick begins: its calls are sent, and may all be answered at once.
Begin ==
  /\ step = "idle"
  /\ step' = "reading"
  /\ view' = Latest
  /\ UNCHANGED <<fileVars, draft>>

\* A call is answered later than that.
Answer(q) ==
  /\ step = "reading"
  /\ view[q] # Latest[q]
  /\ view' = [view EXCEPT ![q] = Latest[q]]
  /\ UNCHANGED <<step, fileVars, draft>>

Recovered(file) ==
  [state EXCEPT !.latestEpoch = view.epoch, !.lastWindowEnd = file.windowEnd,
                !.cumulative = file.root]

\* The chain is one epoch ahead: a stop after the transaction was sent.  A
\* snapshot with another root throws.
Recover ==
  /\ step = "reading"
  /\ view.epoch = state.latestEpoch + 1
  /\ epochFiles[view.epoch].status # "none"
  /\ epochFiles[view.epoch].root = view.root
  /\ state' = Recovered(epochFiles[view.epoch])
  /\ step' = "recovered"
  /\ UNCHANGED <<epochFiles, latestFile, history, transferCache, view, draft>>

SaveRecoveredFile ==
  /\ step = "recovered"
  /\ epochFiles' = [epochFiles EXCEPT ![state.latestEpoch].status = "published-recovered"]
  /\ step' = "refiled"
  /\ UNCHANGED <<state, latestFile, history, transferCache, view, draft>>

SaveRecoveredLatest ==
  /\ step = "refiled"
  /\ latestFile' = state.latestEpoch
  /\ step' = "shown"
  /\ UNCHANGED <<state, epochFiles, history, transferCache, view, draft>>

ListRecovered ==
  /\ step = "shown"
  /\ history' = history \cup {state.latestEpoch}
  /\ step' = "matched"
  /\ UNCHANGED <<state, epochFiles, latestFile, transferCache, view, draft>>

\* State and chain agree; any other difference throws.
Match ==
  /\ step = "reading"
  /\ view.epoch = state.latestEpoch
  /\ step' = "matched"
  /\ UNCHANGED <<fileVars, view, draft>>

IndexedBlock ==
  IF view.block > IndexerConfirmations THEN view.block - IndexerConfirmations ELSE view.block

\* The market is read and the cadence saved.  The balance is read later
\* (ReadReward) than the total claimed: a claim in between makes the reward too
\* small, even negative.
Observe(target) ==
  LET cadence == Observed(state.cadence, now, target) IN
  /\ step = "matched"
  /\ state' = [state EXCEPT !.cadence = cadence]
  /\ \/ /\ IndexedBlock < state.lastWindowEnd + Interval(cadence)
        /\ Forget
     \/ /\ IndexedBlock >= state.lastWindowEnd + Interval(cadence)
        /\ draft' = [NoFile EXCEPT !.windowStart = state.lastWindowEnd, !.windowEnd = IndexedBlock]
        /\ step' = "due" /\ UNCHANGED view
  /\ aboveSince' = [l \in Levels |->
       IF target < l THEN None
       ELSE IF aboveSince[l] = None \/ now - state.cadence.lastObservation > MaxGap THEN now
       ELSE aboveSince[l]]
  /\ UNCHANGED <<epochFiles, latestFile, history, transferCache>>

NewReward == vaultMstr + view.claimed - view.allocated

\* Nothing new: the tick is over.
NothingNew ==
  /\ step = "due"
  /\ NewReward = 0
  /\ Forget
  /\ UNCHANGED fileVars

\* The balance is read, then the transfers, up to the indexed block.
ReadReward ==
  /\ step = "due"
  /\ NewReward # 0
  /\ draft' = [draft EXCEPT !.reward = NewReward]
  /\ step' = "read"
  /\ UNCHANGED <<fileVars, view>>

UpdateTransferCache ==
  /\ step = "read"
  /\ ~AheadOfChain(transferCache, draft.windowEnd)
  /\ \E fresh \in Answers(RefreshStart(transferCache), draft.windowEnd, now) :
       transferCache' = Updated(transferCache, fresh, draft.windowEnd)
  /\ step' = "indexed"
  /\ UNCHANGED <<state, epochFiles, latestFile, history, view, draft>>

\* HoldingWeightEngine over the cached events.
Replayed ==
  LET place(e) == Cardinality({f \in transferCache.events : f <= e})
      nth(i) == CHOOSE e \in transferCache.events : place(e) = i
  IN Engine!Replayed([i \in 1..Cardinality(transferCache.events) |-> Transfers[nth(i)]],
                     draft.windowStart, draft.windowEnd)
\* buildWeightSnapshotFromTransfers.
HolderWeights == Engine!Weights(Replayed)

\* buildDistribution: what earlier epochs gave, and the share of this one.
\* Mutant: only accounts with weight keep an entry.
CumulativeOfRows(weights) ==
  [a \in Account |-> IF weights[a] > 0
                     THEN state.cumulative[a] + Share(weights, draft.reward, a) ELSE 0]
Cumulative(weights) ==
  [a \in Account |-> state.cumulative[a] + Share(weights, draft.reward, a)]

\* Beyond the code: the tick knows the chain's epoch, and an older total, of before
\* that epoch was published.
Torn == view.epoch = latestEpoch /\ view.allocated # allocated

\* The snapshot is written before the transaction is sent.  An empty reward,
\* a transfer that exceeds its balance, or nobody with weight throws.
Prepare ==
  LET snapshot == [draft EXCEPT !.status = "prepared",
                                !.allocated = view.allocated + draft.reward,
                                !.root = Cumulative(HolderWeights)] IN
  /\ step = "indexed"
  /\ state.latestEpoch < MaxEpochs
  /\ draft.reward > 0
  /\ ~Replayed.overdrawn
  /\ Rows(HolderWeights) # {}
  /\ epochFiles' = [epochFiles EXCEPT ![state.latestEpoch + 1] = snapshot]
  /\ draft' = snapshot
  /\ step' = "prepared"
  /\ recounted' = recounted \cup {e \in {state.latestEpoch + 1} : Torn}
  /\ UNCHANGED <<state, latestFile, history, transferCache, view>>

\* simulateContract, then writeContract.
Send ==
  /\ step = "prepared"
  /\ Accepts(state.latestEpoch + 1, draft.allocated)
  /\ Len(txs) < MaxSends
  /\ txs' = Append(txs, [epoch |-> state.latestEpoch + 1, root |-> draft.root,
                         allocated |-> draft.allocated, outcome |-> "pending"])
  /\ step' = "sent"
  /\ UNCHANGED <<fileVars, view, draft>>

\* waitForTransactionReceipt returns for a reverted transaction too.
\* Mutant: the receipt is not waited for.
AwaitNothing ==
  /\ step = "sent"
  /\ step' = "mined"
  /\ UNCHANGED <<fileVars, view, draft>>
Await ==
  /\ step = "sent"
  /\ txs[Len(txs)].outcome \in {"published", "reverted"}
  /\ step' = "mined"
  /\ UNCHANGED <<fileVars, view, draft>>

PublishFile ==
  /\ step = "mined"
  /\ epochFiles' = [epochFiles EXCEPT ![state.latestEpoch + 1] =
                      [draft EXCEPT !.status = "published"]]
  /\ step' = "filed"
  /\ UNCHANGED <<state, latestFile, history, transferCache, view, draft>>

PublishLatest ==
  /\ step = "filed"
  /\ latestFile' = state.latestEpoch + 1
  /\ step' = "latest"
  /\ UNCHANGED <<state, epochFiles, history, transferCache, view, draft>>

PublishHistory ==
  /\ step = "latest"
  /\ history' = history \cup {state.latestEpoch + 1}
  /\ step' = "listed"
  /\ UNCHANGED <<state, epochFiles, latestFile, transferCache, view, draft>>

\* Mutant: the state is saved before the history, which a stop then never lists.
SaveStateFirst ==
  /\ step = "filed"
  /\ state' = [state EXCEPT !.latestEpoch = @ + 1, !.lastWindowEnd = draft.windowEnd,
                            !.cumulative = draft.root]
  /\ Forget
  /\ UNCHANGED <<epochFiles, latestFile, history, transferCache>>
SaveState ==
  /\ step = "listed"
  /\ state' = [state EXCEPT !.latestEpoch = @ + 1, !.lastWindowEnd = draft.windowEnd,
                            !.cumulative = draft.root]
  /\ Forget
  /\ UNCHANGED <<epochFiles, latestFile, history, transferCache>>

\* The process stops, an RPC or the disk throws, or the wait for the receipt
\* gives up.
Stop ==
  /\ step # "idle"
  /\ Forget
  /\ skipped' = IF step \in {"recovered", "refiled", "shown"}
                THEN skipped \cup {state.latestEpoch} ELSE skipped
  /\ UNCHANGED <<now, txs, fileVars, recounted, aboveSince>>

-----------------------------------------------------------------------------
(***************************************************************************)
(* The chain: transactions of one sender are mined in nonce order.         *)
(***************************************************************************)
Pending == {i \in DOMAIN txs : txs[i].outcome = "pending"}

Mine ==
  \E i \in Pending :
    /\ \A j \in Pending : i <= j
    /\ \/ /\ PublishDistribution(txs[i].epoch, txs[i].root, txs[i].allocated)
          /\ txs' = [txs EXCEPT ![i].outcome = "published"]
       \/ /\ ~Accepts(txs[i].epoch, txs[i].allocated)
          /\ txs' = [txs EXCEPT ![i].outcome = "reverted"]
          /\ UNCHANGED vaultVars
    /\ UNCHANGED <<now, fileVars, memoryVars, ghostVars>>

\* The mempool forgets the youngest transaction; its nonce is used again.
DropTx ==
  /\ Len(txs) \in Pending
  /\ txs' = [txs EXCEPT ![Len(txs)].outcome = "dropped"]
  /\ UNCHANGED <<vaultVars, now, fileVars, memoryVars, ghostVars>>

Clock ==
  /\ now < MaxTime
  /\ now' = now + 1
  /\ UNCHANGED <<vaultVars, txs, fileVars, memoryVars, ghostVars>>

Holders ==
  /\ (\E a \in Account : Claim(a)) \/ (\E amount \in Funding : FundVault(amount))
  /\ UNCHANGED pubVars

Admin == PauseVault /\ UNCHANGED pubVars

Repair == Recover \/ SaveRecoveredFile \/ SaveRecoveredLatest \/ ListRecovered
Publish ==
  \/ Match \/ NothingNew \/ ReadReward \/ UpdateTransferCache \/ Await
  \/ PublishFile \/ PublishLatest \/ PublishHistory \/ SaveState
Read == Begin \/ \E q \in DOMAIN view : Answer(q)

Publisher ==
  \/ Stop /\ UNCHANGED vaultVars
  \/ (Read \/ Repair \/ Publish) /\ UNCHANGED <<vaultVars, now, txs, ghostVars>>
  \/ Prepare /\ UNCHANGED <<vaultVars, now, txs, skipped, aboveSince>>
  \/ /\ \E target \in Levels : Observe(target)
     /\ UNCHANGED <<vaultVars, now, txs, recounted, skipped>>
  \/ Send /\ UNCHANGED <<vaultVars, now, ghostVars>>

Next == Publisher \/ Mine \/ DropTx \/ Clock \/ Holders \/ Admin

Spec == Init /\ [][Next]_vars

\* The publisher ticks for ever (setInterval, and its service manager): a tick
\* goes on or throws, and another begins; and of the ticks that find the chain
\* an epoch ahead, not every one throws before it has saved its repair.
FairSpec ==
  /\ Spec
  /\ WF_vars(Publisher)
  /\ SF_vars(Recover /\ UNCHANGED <<vaultVars, now, txs, ghostVars>>)

-----------------------------------------------------------------------------
(***************************************************************************)
(* Properties.                                                             *)
(***************************************************************************)
\* The snapshot of an epoch was written anew after a transaction with another
\* one had been sent for it: the wait for that transaction had given up, it was
\* mined later, and the file no longer is what the chain committed to.  From
\* then on the publisher refuses to go on (RECOVERY_SNAPSHOT_ROOT_MISMATCH) or
\* records as published what reverted; the properties below do not hold then.
Overtaken ==
  \E i \in DOMAIN txs :
    /\ txs[i].outcome # "dropped"
    /\ \/ epochFiles[txs[i].epoch].root # txs[i].root
       \/ epochFiles[txs[i].epoch].allocated # txs[i].allocated

\* The vault can pay every claim the root allows, all of them together, whatever
\* is claimed or mined between the reads of a tick and its transaction, and
\* however the split rounds (claim would revert for the last of them); and nobody
\* is entitled to less than was already paid, by a repair or by selling everything.
\* The exception: an epoch that the tick found published while the total it read
\* was still the one of before, so that the next counts the same reward again
\* (newReward), which the vault accepts.
EveryClaimFunded ==
  ~Overtaken => /\ recounted = {} => Outstanding <= vaultMstr
                /\ \A a \in Account : merkleRoot[a] >= claimed[a]

\* reward-state.json, the epoch files and the history say what the chain does,
\* or lag it by the one epoch that Recover repairs: cumulative amounts are the
\* root's, they add up to what the vault allocated (unless an epoch was counted
\* twice), and the windows of the epochs follow one another without gap or overlap;
\* and the transfer cache has every event its nodes cannot be late with.
RecordsMatchChain ==
  ~Overtaken =>
    /\ latestEpoch - state.latestEpoch \in {0, 1}
    /\ latestEpoch = state.latestEpoch => state.cumulative = merkleRoot
    /\ latestEpoch > 0 => epochFiles[latestEpoch].root = merkleRoot
    /\ recounted = {} => SumFunctionOnSet(merkleRoot, Account) = allocated
    /\ \A e \in 1..latestEpoch :
         epochFiles[e].windowStart = IF e = 1 THEN 0 ELSE epochFiles[e - 1].windowEnd
    /\ \A e \in history : e <= latestEpoch
    /\ \A t \in InBlocks(0, transferCache.lastIndexedBlock - Lateness) : t \in transferCache.events

\* Every epoch the chain has accepted reaches the state file and the public
\* history, wherever the publisher stops, except a repair that is itself stopped
\* after it has saved the state: nothing lists that epoch again.
EveryEpochListed ==
  []<>(\/ \A e \in 1..latestEpoch :
            (state.latestEpoch >= e /\ e \in history) \/ e \in skipped
       \/ Overtaken)

\* The interval slows for good only after a full confirmation time in which the
\* market was seen at the level or above without a gap, across restarts too, and
\* never speeds up (the comments in rewardCadence.ts, update).
LevelsAreProven ==
  [][LET old == state.cadence.confirmed new == state'.cadence.confirmed IN
     old # new => /\ new > old
                  /\ aboveSince'[new] # None
                  /\ now - aboveSince'[new] >= Confirmation]_vars

=============================================================================
