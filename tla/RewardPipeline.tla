--------------------------- MODULE RewardPipeline ---------------------------
(***************************************************************************)
(* Hourly MSTRx payouts to holders (services/solana/rewardPipeline.ts) and *)
(* the holder indexer that feeds them (holderJournal.ts), two processes    *)
(* that meet in files: the indexer reads the reward plan and writes the    *)
(* journal; the control runner reads the journal and writes the plan.      *)
(*                                                                         *)
(* A plan commits the whole holder inventory to batches.  Each batch is    *)
(* two jobs, creating the recipients' token accounts ("ata") and paying    *)
(* them ("transfer"); jobs are done one at a time, in order, each as a     *)
(* transaction that is saved before it is broadcast.                       *)
(*                                                                         *)
(* As in FeeSettlement, an action of a process runs up to its next save,   *)
(* and what the process still holds in memory then is a variable, which a  *)
(* stop (ControlStops, IndexerStops) loses.  Time is holding time, in      *)
(* units of the instance's choice, from launch.                            *)
(***************************************************************************)
EXTENDS SolanaTransactions, SequencesExt

CONSTANTS
  EpochSeconds,   \* SOLANA_REWARD_EPOCH_SECONDS
  MaxJournalAge,  \* how old a journal may be when it is used, 30 minutes
  MinimumRaw,     \* minimumRawMstrx
  HistoryLimit,   \* entries history.json keeps, 50
  MaxBatches,     \* bound: batches of a plan
  MaxEpochs,      \* bound: epochs
  MaxTime,        \* bound: time
  Amount,         \* bound: amounts by which fees fund the inventory
  MaxFunding,     \* bound: inventory
  Failures        \* transactions may fail on chain for outside reasons

ASSUME PipelineAssumption ==
  /\ EpochSeconds \in Nat \ {0}
  /\ {MaxJournalAge, MaxEpochs, MaxTime, MaxFunding} \subseteq Nat
  /\ {MinimumRaw, HistoryLimit, MaxBatches} \subseteq Nat \ {0}
  /\ Amount \subseteq Nat \ {0}
  /\ Failures \in BOOLEAN

VARIABLES
  plan,       \* reward-epochs/current.json, but for the progress of its jobs
  jobs,       \* reward-epochs/current.json: the progress of each job
  journal,    \* the holder journal file
  epochFiles, \* snapshots/solana-reward-epoch-<n>.json
  history,    \* snapshots/history.json
  step,       \* control runner memory: where in a call it is
  draft,      \* control runner memory: the epoch being prepared
  sending,    \* control runner memory: the saved transaction about to be sent
  reading,    \* indexer memory: the journal about to be written
  now,        \* finalized block time
  inventory,  \* chain: MSTRx of the holder payout account
  pay         \* chain: what each transaction does

fileVars == <<plan, jobs, epochFiles, history>>
memoryVars == <<step, draft, sending>>
indexerVars == <<journal, reading>>
chainVars == <<inventory, pay, txVars>>
vars == <<fileVars, memoryVars, indexerVars, now, chainVars>>

Batch == 1..MaxBatches
Job == [batch: Batch, kind: {"ata", "transfer"}]

Progress ==
  [state: {"pending", "submitted", "confirmed"},
   signature: Signature \cup {NoSignature}]

Plan ==
  [state: {"none", "active", "finalized"},
   epochId: Nat, windowStart: Nat, windowEnd: Nat,
   funded: Nat,          \* fundedRawMstrx
   rawTotals: Seq(Nat)]  \* the amount of each batch

Journal == [epochId: Nat, windowStart: Nat, windowEnd: Nat]

Payment == [epochId: Nat, job: Job, amount: Nat]

NotStarted == [state |-> "pending", signature |-> NoSignature]
NoPlan == [state |-> "none", epochId |-> 0, windowStart |-> 0, windowEnd |-> 0,
           funded |-> 0, rawTotals |-> <<>>]
NoJournal == [epochId |-> 0, windowStart |-> 0, windowEnd |-> 0]
NoPayment == [epochId |-> 0, job |-> [batch |-> 1, kind |-> "ata"], amount |-> 0]

Init ==
  /\ plan = NoPlan
  /\ jobs = [j \in Job |-> NotStarted]
  /\ journal = NoJournal
  /\ epochFiles = {}
  /\ history = <<>>
  /\ step = "idle"
  /\ draft = NoPlan
  /\ sending = NoSignature
  /\ reading = NoJournal
  /\ now = 0
  /\ inventory = 0
  /\ pay = [t \in Signature |-> NoPayment]
  /\ TxInit

-----------------------------------------------------------------------------
(***************************************************************************)
(* The chain.  Creating token accounts is idempotent.                      *)
(***************************************************************************)
Pays(t, epochId, j) == Signed(t) /\ pay[t].epochId = epochId /\ pay[t].job = j

Tick ==
  /\ now < MaxTime
  /\ now' = now + 1
  /\ UNCHANGED <<fileVars, memoryVars, indexerVars, chainVars>>

\* The fee settlement routes its holder share here.
Fund(a) ==
  /\ inventory + a <= MaxFunding
  /\ inventory' = inventory + a
  /\ UNCHANGED <<fileVars, memoryVars, indexerVars, now, pay, txVars>>

LandAta(t) ==
  /\ LandTx(t)
  /\ pay[t].job.kind = "ata"
  /\ UNCHANGED <<fileVars, memoryVars, indexerVars, now, inventory, pay>>

LandTransfer(t) ==
  /\ LandTx(t)
  /\ pay[t].job.kind = "transfer"
  /\ inventory >= pay[t].amount
  /\ inventory' = inventory - pay[t].amount
  /\ UNCHANGED <<fileVars, memoryVars, indexerVars, now, pay>>

\* A recipient closed its account, the operator is out of SOL, or the holder
\* account is short of MSTRx.
Fail(t) ==
  /\ FailTx(t)
  /\ Failures \/ (pay[t].job.kind = "transfer" /\ inventory < pay[t].amount)
  /\ UNCHANGED <<fileVars, memoryVars, indexerVars, now, inventory, pay>>

Advance(t) ==
  /\ Finalize(t) \/ CloseWindow(t) \/ PassMargin(t)
  /\ UNCHANGED <<fileVars, memoryVars, indexerVars, now, inventory, pay>>

-----------------------------------------------------------------------------
(***************************************************************************)
(* The holder indexer: refreshHolderJournal reads the plan, decides, and   *)
(* only then writes the journal, for the finalized time its call began at. *)
(***************************************************************************)
IndexerReads(end) ==
  /\ reading = NoJournal
  /\ end <= now
  /\ plan.state # "active"
  /\ end - plan.windowEnd >= EpochSeconds
  /\ reading' = [epochId |-> plan.epochId + 1, windowStart |-> plan.windowEnd,
                 windowEnd |-> end]
  /\ UNCHANGED <<fileVars, memoryVars, journal, now, chainVars>>

IndexerWrites ==
  /\ reading # NoJournal
  /\ journal' = reading
  /\ reading' = NoJournal
  /\ UNCHANGED <<fileVars, memoryVars, now, chainVars>>

IndexerStops ==
  /\ reading # NoJournal
  /\ reading' = NoJournal
  /\ UNCHANGED <<fileVars, memoryVars, journal, now, chainVars>>

-----------------------------------------------------------------------------
(***************************************************************************)
(* Preparing an epoch.                                                     *)
(***************************************************************************)
Idle == step = "idle"

\* Mutant: any fresh journal will do.
JournalAdvancedUnchecked == TRUE

\* assertHolderJournalReady against the previous plan.
JournalAdvanced ==
  plan.state = "finalized" =>
    /\ journal.epochId = plan.epochId + 1
    /\ journal.windowStart = plan.windowEnd

JournalFresh ==
  /\ journal.windowEnd <= now
  /\ now - journal.windowEnd <= MaxJournalAge

Total(rawTotals) == SumFunction(rawTotals)

\* buildPushDistribution conserves what it splits; who gets what is not
\* modelled here.
Splits(raw) == {s \in BoundedSeq(1..raw, MaxBatches) : Total(s) = raw}

NoneActive == plan.state # "active"

\* prepareRewardEpoch up to savePlan.  The journal and the inventory are read
\* here; by the time the plan is saved both may have changed.
Prepare ==
  /\ Idle
  /\ NoneActive
  /\ journal # NoJournal
  /\ journal.epochId <= MaxEpochs
  /\ JournalFresh
  /\ JournalAdvanced
  /\ journal.windowEnd > journal.windowStart
  /\ inventory >= MinimumRaw
  /\ \E shares \in Splits(inventory) :
       draft' = [state |-> "active", epochId |-> journal.epochId,
                 windowStart |-> journal.windowStart, windowEnd |-> journal.windowEnd,
                 funded |-> inventory, rawTotals |-> shares]
  /\ step' = "prepared"
  /\ UNCHANGED <<fileVars, sending, indexerVars, now, chainVars>>

SavePrepared ==
  /\ step = "prepared"
  /\ plan' = draft
  /\ jobs' = [j \in Job |-> NotStarted]
  /\ step' = "idle"
  /\ draft' = NoPlan
  /\ UNCHANGED <<epochFiles, history, sending, indexerVars, now, chainVars>>

-----------------------------------------------------------------------------
(***************************************************************************)
(* distributeRewardEpoch.                                                  *)
(***************************************************************************)
InPlan(j) == j.batch \in DOMAIN plan.rawTotals

Earlier(i, j) ==
  \/ i.batch < j.batch
  \/ i.batch = j.batch /\ i.kind = "ata" /\ j.kind = "transfer"

\* Mutant: no waiting for the accounts of this batch, or for the batch before.
CurrentAnyOrder(j) ==
  /\ plan.state = "active"
  /\ InPlan(j)
  /\ jobs[j].state # "confirmed"

\* The loop's position: every earlier job is confirmed, this one is not.
Current(j) ==
  /\ plan.state = "active"
  /\ InPlan(j)
  /\ jobs[j].state # "confirmed"
  /\ \A i \in Job : Earlier(i, j) => jobs[i].state = "confirmed"

AmountOf(j) == IF j.kind = "transfer" THEN plan.rawTotals[j.batch] ELSE 0

\* Simulation refuses a transfer that the holder account cannot cover.
SignJob(j, t) ==
  /\ Idle
  /\ Current(j)
  /\ jobs[j].state = "pending"
  /\ inventory >= AmountOf(j)
  /\ SignTx(t)
  /\ pay' = [pay EXCEPT ![t] = [epochId |-> plan.epochId, job |-> j, amount |-> AmountOf(j)]]
  /\ jobs' = [jobs EXCEPT ![j] = [state |-> "submitted", signature |-> t]]
  /\ step' = "signed"
  /\ sending' = t
  /\ UNCHANGED <<plan, epochFiles, history, draft, indexerVars, now, inventory>>

Submitted(j) == Idle /\ Current(j) /\ jobs[j].state = "submitted"

\* reconcileSubmitted: finalized on both providers, with the planned amounts.
ConfirmJob(j) ==
  /\ Submitted(j)
  /\ AgreedFinalized(jobs[j].signature)
  /\ pay[jobs[j].signature].amount = AmountOf(j)
  /\ jobs' = [jobs EXCEPT ![j].state = "confirmed"]
  /\ UNCHANGED <<plan, epochFiles, history, memoryVars, indexerVars, now, chainVars>>

\* Mutants: a closed window is taken for expiry; expiry is not written down.
ExpireJobEarly(j) ==
  /\ Submitted(j)
  /\ tx[jobs[j].signature].window # "open"
  /\ jobs' = [jobs EXCEPT ![j] = NotStarted]
  /\ UNCHANGED <<plan, epochFiles, history, memoryVars, indexerVars, now, chainVars>>
ExpireJobKeepsState(j) ==
  /\ Submitted(j)
  /\ AgreedExpired(jobs[j].signature)
  /\ UNCHANGED vars

ExpireJob(j) ==
  /\ Submitted(j)
  /\ AgreedExpired(jobs[j].signature)
  /\ jobs' = [jobs EXCEPT ![j] = NotStarted]
  /\ UNCHANGED <<plan, epochFiles, history, memoryVars, indexerVars, now, chainVars>>

\* While every provider's height is at most lastValidBlockHeight.
Rebroadcast(j) ==
  /\ Submitted(j)
  /\ tx[jobs[j].signature].window = "open"
  /\ SubmitTx(jobs[j].signature)
  /\ UNCHANGED <<fileVars, memoryVars, indexerVars, now, inventory, pay>>

Broadcast ==
  /\ step = "signed"
  /\ SubmitTx(sending)
  /\ step' = "idle"
  /\ sending' = NoSignature
  /\ UNCHANGED <<fileVars, draft, indexerVars, now, inventory, pay>>

-----------------------------------------------------------------------------
(***************************************************************************)
(* finalizeRewardEpoch: the public epoch file, then the public history,    *)
(* then the plan.  It may be run again on a finalized plan.                *)
(***************************************************************************)
Transfer(i) == [batch |-> i, kind |-> "transfer"]

EpochFile ==
  [epochId |-> plan.epochId, windowEnd |-> plan.windowEnd, funded |-> plan.funded,
   signatures |-> [i \in DOMAIN plan.rawTotals |-> jobs[Transfer(i)].signature]]

HistoryEntry ==
  [epochId |-> plan.epochId, windowEnd |-> plan.windowEnd, funded |-> plan.funded]

\* Mutant: one confirmed batch is enough.
CompleteAny == \E i \in DOMAIN plan.rawTotals : jobs[Transfer(i)].state = "confirmed"
Complete ==
  \A i \in DOMAIN plan.rawTotals : jobs[Transfer(i)].state = "confirmed"

PublishEpoch ==
  /\ Idle
  /\ plan.state # "none"
  /\ Complete
  /\ Total(plan.rawTotals) = plan.funded
  /\ epochFiles' = {f \in epochFiles : f.epochId # plan.epochId} \cup {EpochFile}
  /\ step' = "published"
  /\ UNCHANGED <<plan, jobs, history, draft, sending, indexerVars, now, chainVars>>

\* The entry, then the others in their order, up to the limit.
NewHistory ==
  LET others == {i \in DOMAIN history : history[i].epochId # plan.epochId}
      nth(n) == CHOOSE i \in others : Cardinality({k \in others : k <= i}) = n
  IN  [n \in 1..Min({HistoryLimit, Cardinality(others) + 1}) |->
         IF n = 1 THEN HistoryEntry ELSE history[nth(n - 1)]]

ListEpoch ==
  /\ step = "published"
  /\ history' = NewHistory
  /\ step' = "listed"
  /\ UNCHANGED <<plan, jobs, epochFiles, draft, sending, indexerVars, now, chainVars>>

\* Mutant: the plan is closed before the public history is written.
ClosePlanFirst ==
  /\ step \in {"published", "listed"}
  /\ plan' = [plan EXCEPT !.state = "finalized"]
  /\ step' = "idle"
  /\ UNCHANGED <<jobs, epochFiles, history, draft, sending, indexerVars, now, chainVars>>

ClosePlan ==
  /\ step = "listed"
  /\ plan' = [plan EXCEPT !.state = "finalized"]
  /\ step' = "idle"
  /\ UNCHANGED <<jobs, epochFiles, history, draft, sending, indexerVars, now, chainVars>>

\* The runner stops, or an RPC or the disk throws, inside a call.
ControlStops ==
  /\ ~Idle
  /\ step' = "idle"
  /\ draft' = NoPlan
  /\ sending' = NoSignature
  /\ UNCHANGED <<fileVars, indexerVars, now, chainVars>>

-----------------------------------------------------------------------------
World ==
  \/ Tick
  \/ \E a \in Amount : Fund(a)
  \/ \E t \in Signature : LandAta(t) \/ LandTransfer(t) \/ Fail(t) \/ Advance(t)

Indexer ==
  \/ \E end \in 0..MaxTime : IndexerReads(end)
  \/ IndexerWrites
  \/ IndexerStops

Distribute ==
  \/ \E j \in Job : ConfirmJob(j) \/ ExpireJob(j) \/ Rebroadcast(j)
  \/ \E j \in Job, t \in Signature : SignJob(j, t)
  \/ Broadcast

FinalizeEpoch == PublishEpoch \/ ListEpoch \/ ClosePlan

Control == Prepare \/ SavePrepared \/ Distribute \/ FinalizeEpoch \/ ControlStops

Next == World \/ Indexer \/ Control

Spec == Init /\ [][Next]_vars

(***************************************************************************)
(* Fairness, for a plan once it is active: the control loop runs a reward  *)
(* tick every interval for ever, and the network lands what it keeps       *)
(* receiving.  Nothing is assumed of the indexer, of fees, or of preparing *)
(* a new epoch.  A call that keeps being stopped gets through eventually   *)
(* (strong fairness), or the runner would never do anything.               *)
(***************************************************************************)
Fairness ==
  /\ TxFairness
  /\ \A t \in Signature : WF_vars(LandAta(t) \/ LandTransfer(t))
  /\ \A j \in Job :
       /\ WF_vars(\E t \in Signature : SignJob(j, t))
       /\ WF_vars(ConfirmJob(j))
       /\ WF_vars(ExpireJob(j))
       /\ WF_vars(Rebroadcast(j))
  /\ WF_vars(Broadcast)
  /\ WF_vars(PublishEpoch /\ plan.state = "active")
  /\ SF_vars(ListEpoch)
  /\ SF_vars(ClosePlan)

FairSpec == Spec /\ Fairness

-----------------------------------------------------------------------------
(***************************************************************************)
(* Properties.                                                             *)
(***************************************************************************)
\* Every variable has its type.
TypeOK ==
  /\ plan \in Plan /\ Len(plan.rawTotals) <= MaxBatches
  /\ jobs \in [Job -> Progress]
  /\ journal \in Journal
  /\ \A f \in epochFiles : f.signatures \in Seq(Signature)
  /\ step \in {"idle", "prepared", "signed", "published", "listed"}
  /\ draft \in Plan /\ Len(draft.rawTotals) <= MaxBatches
  /\ sending \in Signature \cup {NoSignature}
  /\ reading \in Journal
  /\ now \in Nat
  /\ inventory \in Nat
  /\ pay \in [Signature -> Payment]
  /\ TxTypeOK

PaidBy(t, epochId, i) == Pays(t, epochId, Transfer(i)) /\ Landed(t)

\* No batch is paid twice, in this epoch or an earlier one, however often its
\* transfer expired and was signed again (docs/operations.md:89, "never repeat a
\* finalized fee collection or holder payout").
BatchPaidOnce ==
  \A s, t \in Signature :
    /\ Landed(s) /\ Landed(t)
    /\ pay[s].job.kind = "transfer"
    /\ pay[s].epochId = pay[t].epochId
    /\ pay[s].job = pay[t].job
    => s = t

\* What the plan file says of a job is so on chain: a confirmed one has landed
\* as planned, and a pending transfer has not been paid by any earlier attempt.
PlanTruth ==
  \A j \in Job : plan.state # "none" /\ InPlan(j) =>
    /\ jobs[j].state = "confirmed" =>
         /\ Pays(jobs[j].signature, plan.epochId, j)
         /\ Landed(jobs[j].signature)
         /\ pay[jobs[j].signature].amount = AmountOf(j)
    /\ jobs[j].state = "pending" =>
         \A t \in Signature : Pays(t, plan.epochId, j) => ~Landed(t)

\* Holders are paid into accounts that exist, in the order of the plan: while a
\* transfer has been signed, every earlier job has landed.
InOrder ==
  \A t \in Signature : Signed(t) =>
    \A i \in Job :
      Earlier(i, pay[t].job) =>
        \E s \in Signature : Pays(s, pay[t].epochId, i) /\ Landed(s)

\* What landed for an epoch.
PaidRaw(epochId) ==
  LET paid == {t \in Signature : Landed(t) /\ pay[t].epochId = epochId}
  IN  SumFunctionOnSet([t \in Signature |-> pay[t].amount], paid)

\* The shares of the plan that no landed transfer has paid.
Unpaid ==
  {[id |-> <<plan.epochId, i>>, amount |-> plan.rawTotals[i]] :
     i \in {b \in DOMAIN plan.rawTotals : \A t \in Signature : ~PaidBy(t, plan.epochId, b)}}

\* Every public epoch file names transactions that landed for that epoch, and
\* they add up to what it says was paid.  The file of a finalized epoch is there
\* (HistoryFaithful), so an epoch is over only when all of it has been paid.
PublicFilesTrue ==
  \A f \in epochFiles :
    /\ \A i \in DOMAIN f.signatures :
         f.signatures[i] \in Signature /\ PaidBy(f.signatures[i], f.epochId, i)
    /\ PaidRaw(f.epochId) = f.funded

\* The public history lists epochs once, newest first, each with its file, and
\* misses no finalized epoch within its limit, wherever the runner stopped.
IsOver(epochId) ==
  epochId < plan.epochId \/ (epochId = plan.epochId /\ plan.state = "finalized")
HistoryFaithful ==
  /\ \A i, k \in DOMAIN history : i < k => history[i].epochId > history[k].epochId
  /\ \A i \in DOMAIN history : \E f \in epochFiles :
       /\ f.epochId = history[i].epochId
       /\ f.funded = history[i].funded
       /\ f.windowEnd = history[i].windowEnd
  /\ \A e \in 1..plan.epochId :
       IsOver(e) /\ e > plan.epochId - HistoryLimit =>
         \E i \in DOMAIN history : history[i].epochId = e

\* The pipeline keeps the promise of EpochPayout: consecutive epochs, windows
\* without gap or overlap, each share paid once, no epoch before the last is paid
\* and none that the inventory, less what is still owed, does not cover.
Payout == INSTANCE EpochPayout WITH
  epoch <- plan.epochId, windowStart <- plan.windowStart, windowEnd <- plan.windowEnd,
  unpaid <- Unpaid, inventory <- inventory
KeepsPayout == Payout!Spec

\* An active epoch is paid and finalized, through expiry and stops.
EveryEpochEnds == plan.state = "active" ~> plan.state = "finalized"

=============================================================================
