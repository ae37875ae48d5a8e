------------------------ MODULE RewardPipelineProofs ------------------------
(***************************************************************************)
(* Proofs about RewardPipeline for every set of signatures and providers,  *)
(* with at least one honest provider, and every number of batches, epochs  *)
(* and transactions that expire.                                           *)
(*                                                                         *)
(* That a batch is paid once is not inductive: the plan forgets an expired *)
(* attempt.  What the steps preserve is that of all the transactions ever  *)
(* signed for a job, the one its entry names is the only one that is not   *)
(* Dead (SoleAttempt, CurrentAttempt), and that a new plan has a number    *)
(* under which nothing was ever signed (EpochsFit, JournalsFit).           *)
(*                                                                         *)
(* What is published rests on more (PipelineInv): between plans nothing    *)
(* signed can still be paid (AttemptsFit, Settled), so the file of an      *)
(* epoch stays true and the inventory that the next plan was prepared from *)
(* can only have grown when it is saved (InventoryStays).  The same facts  *)
(* make every step one of EpochPayout, or none (PayoutStep).               *)
(***************************************************************************)
EXTENDS RewardPipeline, SumTheorems

-----------------------------------------------------------------------------
(***************************************************************************)
(* Signed transactions, as in FeeSettlementProofs: both components sign and *)
(* reconcile in the same way.                                              *)
(***************************************************************************)
\* t can no longer land.
Dead(t) == tx[t].window = "past" /\ tx[t].status \in {"signed", "sent"}

\* What happens to a transaction once it is signed.
Lives(t) ==
  \/ SubmitTx(t) \/ LandTx(t) \/ FailTx(t)
  \/ Finalize(t) \/ CloseWindow(t) \/ PassMargin(t)

\* A transaction two providers agree has expired, one of them honest, is dead:
\* pendingTransaction's verdict is final.
LEMMA ExpiryIsFinal ==
  ASSUME NEW t \in Signature, TxTypeOK, Signed(t), AgreedExpired(t)
  PROVE  Dead(t)
  BY TransactionsAssumption
     DEF TxTypeOK, Transaction, Signed, AgreedExpired, ReportsExpired, Dead

\* A transaction the providers agree is finalized has landed for good.
LEMMA FinalityIsLanding ==
  ASSUME NEW t \in Signature, TxTypeOK, AgreedFinalized(t)
  PROVE  Landed(t) /\ tx[t].commitment = "finalized"
  BY TransactionsAssumption DEF AgreedFinalized, ReturnsFinalized

LEMMA InitialTransactions ==
  ASSUME TxInit
  PROVE  TxTypeOK /\ \A s \in Signature : ~Signed(s) /\ ~Landed(s) /\ ~Dead(s)
  BY DEF TxInit, TxTypeOK, Transaction, Unsigned, Signed, Landed, Dead

\* Signing touches one new transaction, which has not landed and is not dead.
LEMMA Signing ==
  ASSUME NEW t \in Signature, TxTypeOK, SignTx(t)
  PROVE  /\ TxTypeOK'
         /\ ~Signed(t) /\ Signed(t)'
         /\ ~Landed(t) /\ ~Dead(t) /\ ~Landed(t)'
         /\ \A s \in Signature \ {t} : tx'[s] = tx[s]
<1>1. tx[t] \in Transaction
  BY DEF TxTypeOK
<1>2. [tx[t] EXCEPT !.status = "signed"] \in Transaction
  BY <1>1 DEF Transaction
<1>3. tx' = [tx EXCEPT ![t] = [tx[t] EXCEPT !.status = "signed"]]
  BY <1>1 DEF SignTx, TxTypeOK
<1>4. tx'[t].status = "signed"
  BY <1>1, <1>3 DEF TxTypeOK, Transaction
<1> QED BY <1>1, <1>2, <1>3, <1>4 DEF SignTx, TxTypeOK, Signed, Landed, Dead

\* A signed transaction's life keeps the types; it is signed for good, and what
\* is dead, landed, or another transaction stays as it was.
LEMMA Living ==
  ASSUME NEW t \in Signature, TxTypeOK, Lives(t)
  PROVE  /\ TxTypeOK'
         /\ \A s \in Signature \ {t} : tx'[s] = tx[s]
         /\ Signed(t)' <=> Signed(t)
         /\ Dead(t) => Dead(t)'
         /\ Landed(t) => Landed(t)'
<1> USE DEF TxTypeOK, Transaction, Signed, Dead, Landed
<1>1. CASE SubmitTx(t)
  BY <1>1 DEF SubmitTx
<1>2. CASE LandTx(t)
  BY <1>2 DEF LandTx, Landable
<1>3. CASE FailTx(t)
  BY <1>3 DEF FailTx, Landable
<1>4. CASE Finalize(t)
  BY <1>4 DEF Finalize
<1>5. CASE CloseWindow(t)
  BY <1>5 DEF CloseWindow
<1>6. CASE PassMargin(t)
  BY <1>6 DEF PassMargin
<1> QED BY <1>1, <1>2, <1>3, <1>4, <1>5, <1>6 DEF Lives

-----------------------------------------------------------------------------

\* A job that is under way is in the plan, and names a transaction that does
\* what the plan says; a confirmed one has landed.
JobsFit ==
  \A j \in Job : jobs[j].state # "pending" =>
    /\ InPlan(j)
    /\ jobs[j].signature \in Signature
    /\ Pays(jobs[j].signature, plan.epochId, j)
    /\ pay[jobs[j].signature].amount = AmountOf(j)
    /\ jobs[j].state = "confirmed" => Landed(jobs[j].signature)

\* Nothing is signed for an epoch that has no plan yet, and the plan being
\* prepared is the next one.
EpochsFit ==
  /\ \A t \in Signature : Signed(t) => pay[t].epochId <= plan.epochId
  /\ step = "prepared" => draft.epochId = plan.epochId + 1 /\ draft.state = "active"
  /\ plan.state = "none" => plan.epochId = 0

\* Before the first plan, a journal can only be that of epoch 1.
JournalsFit ==
  \A file \in {journal, reading} :
    file = NoJournal \/ (plan.state = "none" => file.epochId = 1)

SoleAttempt ==
  \A s, t \in Signature :
    /\ Signed(s) /\ Signed(t)
    /\ pay[s].epochId = pay[t].epochId
    /\ pay[s].job = pay[t].job
    => s = t \/ Dead(s) \/ Dead(t)

CurrentAttempt ==
  \A t \in Signature : Signed(t) /\ pay[t].epochId = plan.epochId =>
    \/ Dead(t)
    \/ jobs[pay[t].job].state # "pending" /\ jobs[pay[t].job].signature = t

SendingFits == step = "signed" => sending \in Signature

IInv ==
  /\ TypeOK
  /\ SendingFits
  /\ JobsFit
  /\ EpochsFit
  /\ JournalsFit
  /\ SoleAttempt
  /\ CurrentAttempt
  /\ InOrder

-----------------------------------------------------------------------------
(***************************************************************************)
(* Types.                                                                  *)
(***************************************************************************)
\* A split of the inventory is a short sequence of amounts.
LEMMA SplitsType ==
  ASSUME NEW raw \in Nat, NEW s \in Splits(raw)
  PROVE  s \in Seq(Nat) /\ Len(s) <= MaxBatches
<1>1. s \in SeqOf(1..raw, MaxBatches)
  BY DEF Splits, BoundedSeq
<1>2. PICK m \in 0..MaxBatches : s \in [1..m -> 1..raw]
  BY <1>1 DEF SeqOf
<1>3. s \in [1..m -> Nat] /\ m \in Nat
  BY <1>2, PipelineAssumption
<1>4. s \in Seq(Nat) /\ Len(s) = m
  BY <1>3
<1> QED BY <1>2, <1>4, PipelineAssumption

\* A job of the plan is paid an amount.
LEMMA AmountType ==
  ASSUME TypeOK, NEW j \in Job, InPlan(j)
  PROVE  AmountOf(j) \in Nat
  BY DEF TypeOK, Plan, InPlan, AmountOf

\* Every step keeps the types.
LEMMA TypeKept ==
  ASSUME IInv, [Next]_vars
  PROVE  TypeOK'
<1> USE PipelineAssumption DEF IInv, TypeOK
<1>0. UNCHANGED txVars => TxTypeOK'
  BY DEF TxTypeOK, txVars
<1>1. CASE Tick
  BY <1>0, <1>1 DEF Tick, fileVars, memoryVars, indexerVars, chainVars
<1>2. ASSUME NEW a \in Amount, Fund(a)
      PROVE  TypeOK'
  BY <1>0, <1>2 DEF Fund, fileVars, memoryVars, indexerVars
<1>3. ASSUME NEW t \in Signature, LandAta(t) \/ Fail(t) \/ Advance(t)
      PROVE  TypeOK'
  <2>1. TxTypeOK'
    BY <1>3, Living DEF LandAta, Fail, Advance, Lives
  <2> QED BY <1>3, <2>1 DEF LandAta, Fail, Advance, fileVars, memoryVars, indexerVars
<1>4. ASSUME NEW t \in Signature, LandTransfer(t)
      PROVE  TypeOK'
  <2>1. TxTypeOK'
    BY <1>4, Living DEF LandTransfer, Lives
  <2>2. pay[t].amount \in Nat
    BY DEF Payment
  <2>3. inventory' \in Nat
    BY <1>4, <2>2 DEF LandTransfer
  <2> QED BY <1>4, <2>1, <2>3 DEF LandTransfer, fileVars, memoryVars, indexerVars
<1>5. ASSUME NEW end \in 0..MaxTime, IndexerReads(end)
      PROVE  TypeOK'
  <2>1. plan.epochId \in Nat /\ plan.windowEnd \in Nat /\ end \in Nat
    BY DEF Plan
  <2>2. reading' \in Journal
    <3>1. reading' = [epochId |-> plan.epochId + 1, windowStart |-> plan.windowEnd,
                      windowEnd |-> end]
      BY <1>5 DEF IndexerReads
    <3>2. plan.epochId + 1 \in Nat
      BY <2>1
    <3> QED BY <2>1, <3>1, <3>2 DEF Journal
  <2> QED BY <1>0, <1>5, <2>2 DEF IndexerReads, fileVars, memoryVars, chainVars
<1>6. CASE IndexerWrites \/ IndexerStops
  <2>1. NoJournal \in Journal
    BY DEF NoJournal, Journal
  <2> QED
    BY <1>0, <1>6, <2>1 DEF IndexerWrites, IndexerStops, fileVars, memoryVars, chainVars
<1>7. CASE Prepare
  <2>1. PICK shares \in Splits(inventory) :
          draft' = [state |-> "active", epochId |-> journal.epochId,
                    windowStart |-> journal.windowStart, windowEnd |-> journal.windowEnd,
                    funded |-> inventory, rawTotals |-> shares]
    BY <1>7 DEF Prepare
  <2>2. shares \in Seq(Nat) /\ Len(shares) <= MaxBatches
    BY SplitsType
  <2>3. draft' \in Plan /\ Len(draft'.rawTotals) <= MaxBatches
    BY <2>1, <2>2 DEF Plan, Journal
  <2> QED BY <1>0, <1>7, <2>3 DEF Prepare, fileVars, indexerVars, chainVars
<1>8. CASE SavePrepared
  <2>1. NotStarted \in Progress
    BY DEF NotStarted, Progress
  <2>2. NoPlan \in Plan /\ Len(NoPlan.rawTotals) <= MaxBatches
    BY DEF NoPlan, Plan
  <2> QED BY <1>0, <1>8, <2>1, <2>2 DEF SavePrepared, indexerVars, chainVars
<1>9. ASSUME NEW j \in Job, ConfirmJob(j) \/ ExpireJob(j)
      PROVE  TypeOK'
  <2>1. jobs' \in [Job -> Progress]
    BY <1>9 DEF ConfirmJob, ExpireJob, Progress, NotStarted
  <2> QED
    BY <1>0, <1>9, <2>1 DEF ConfirmJob, ExpireJob, memoryVars, indexerVars, chainVars
<1>10. ASSUME NEW j \in Job, Rebroadcast(j)
       PROVE  TypeOK'
  <2>1. jobs[j].signature \in Signature
    BY <1>10 DEF Rebroadcast, Submitted, JobsFit
  <2>2. TxTypeOK'
    BY <1>10, <2>1, Living DEF Rebroadcast, Lives
  <2> QED BY <1>10, <2>2 DEF Rebroadcast, fileVars, memoryVars, indexerVars
<1>11. ASSUME NEW j \in Job, NEW t \in Signature, SignJob(j, t)
       PROVE  TypeOK'
  <2>1. AmountOf(j) \in Nat
    BY <1>11, AmountType DEF SignJob, Current
  <2>2. [epochId |-> plan.epochId, job |-> j, amount |-> AmountOf(j)] \in Payment
    BY <2>1 DEF Payment, Plan
  <2>3. pay' \in [Signature -> Payment]
    BY <1>11, <2>2 DEF SignJob
  <2>4. jobs' \in [Job -> Progress]
    BY <1>11 DEF SignJob, Progress
  <2>5. TxTypeOK'
    BY <1>11, Signing DEF SignJob
  <2> QED BY <1>11, <2>3, <2>4, <2>5 DEF SignJob, indexerVars
<1>12. CASE Broadcast
  <2>1. TxTypeOK'
    BY <1>12, Living DEF Broadcast, Lives, SendingFits
  <2> QED BY <1>12, <2>1 DEF Broadcast, fileVars, indexerVars
<1>13. CASE PublishEpoch
  <2>1. EpochFile.signatures \in Seq(Signature)
    <3>1. \A i \in DOMAIN plan.rawTotals : jobs[Transfer(i)].signature \in Signature
      <4> SUFFICES ASSUME NEW i \in DOMAIN plan.rawTotals
                   PROVE  jobs[Transfer(i)].signature \in Signature
        OBVIOUS
      <4>0. i \in Batch
        <5>1. plan.rawTotals \in Seq(Nat) /\ Len(plan.rawTotals) <= MaxBatches
          BY DEF Plan
        <5>2. i \in 1..Len(plan.rawTotals)
          BY <5>1
        <5> QED BY <5>1, <5>2 DEF Batch
      <4>1. Transfer(i) \in Job
        BY <4>0 DEF Transfer, Job
      <4>2. jobs[Transfer(i)].state = "confirmed"
        BY <1>13 DEF PublishEpoch, Complete
      <4> QED BY <4>1, <4>2 DEF JobsFit
    <3>2. DOMAIN plan.rawTotals = 1..Len(plan.rawTotals) /\ Len(plan.rawTotals) \in Nat
      BY DEF Plan
    <3>3. EpochFile.signatures = [i \in DOMAIN plan.rawTotals |-> jobs[Transfer(i)].signature]
      BY DEF EpochFile
    <3> HIDE DEF Transfer
    <3> QED BY <3>1, <3>2, <3>3
  <2> QED BY <1>0, <1>13, <2>1 DEF PublishEpoch, indexerVars, chainVars
<1>14. CASE ListEpoch
  BY <1>0, <1>14 DEF ListEpoch, indexerVars, chainVars
<1>15. CASE ClosePlan
  BY <1>0, <1>15 DEF ClosePlan, Plan, indexerVars, chainVars
<1>16. CASE ControlStops
  BY <1>0, <1>16 DEF ControlStops, NoPlan, Plan, fileVars, indexerVars, chainVars
<1>17. CASE UNCHANGED vars
  BY <1>0, <1>17 DEF vars, fileVars, memoryVars, indexerVars, chainVars
<1> QED
  BY <1>1, <1>2, <1>3, <1>4, <1>5, <1>6, <1>7, <1>8, <1>9, <1>10, <1>11, <1>12, <1>13,
     <1>14, <1>15, <1>16, <1>17
     DEF Next, World, Indexer, Control, Distribute, FinalizeEpoch

-----------------------------------------------------------------------------
(***************************************************************************)
(* Steps that leave the plan alone.  Whatever the chain does to a signed   *)
(* transaction, it pays what it paid; dead or landed it stays so.          *)
(***************************************************************************)
Monotone ==
  /\ UNCHANGED <<plan, jobs, pay>>
  /\ \A t \in Signature :
       /\ Signed(t)' <=> Signed(t)
       /\ Dead(t) => Dead(t)'
       /\ Landed(t) => Landed(t)'

\* What is in memory is accounted for, and the journal is one that was read
\* from the plan as it is or from the one before.
MemoryKept ==
  /\ step' = "prepared" => draft'.epochId = plan.epochId + 1 /\ draft'.state = "active"
  /\ step' = "signed" => sending' \in Signature
  /\ \A file \in {journal', reading'} :
       file \in {journal, reading, NoJournal} \/ file.epochId = plan.epochId + 1

LEMMA MonotoneKeepsIInv ==
  ASSUME IInv, TypeOK', Monotone, MemoryKept
  PROVE  IInv'
<1>1. /\ plan' = plan /\ jobs' = jobs /\ pay' = pay
      /\ \A t \in Signature : Signed(t)' <=> Signed(t)
      /\ \A t \in Signature : Dead(t) => Dead(t)'
      /\ \A t \in Signature : Landed(t) => Landed(t)'
  BY DEF Monotone
<1>2. \A j \in Job : InPlan(j)' <=> InPlan(j)
  BY <1>1 DEF InPlan
<1>3. \A j \in Job : AmountOf(j)' = AmountOf(j)
  BY <1>1 DEF AmountOf
<1> USE DEF IInv
<1>5. JobsFit'
  <2> SUFFICES ASSUME NEW j \in Job, jobs[j].state # "pending"
               PROVE  /\ InPlan(j)'
                      /\ jobs[j].signature \in Signature
                      /\ Pays(jobs[j].signature, plan.epochId, j)'
                      /\ pay[jobs[j].signature].amount = AmountOf(j)'
                      /\ jobs[j].state = "confirmed" => Landed(jobs[j].signature)'
    BY <1>1 DEF JobsFit
  <2>1. /\ InPlan(j)
        /\ jobs[j].signature \in Signature
        /\ Pays(jobs[j].signature, plan.epochId, j)
        /\ pay[jobs[j].signature].amount = AmountOf(j)
        /\ jobs[j].state = "confirmed" => Landed(jobs[j].signature)
    BY DEF JobsFit
  <2>2. Pays(jobs[j].signature, plan.epochId, j)'
    BY <1>1, <2>1 DEF Pays
  <2> DEFINE sig == jobs[j].signature
  <2>3. sig \in Signature /\ (Landed(sig) => Landed(sig)')
    BY <1>1, <2>1
  <2>4. jobs[j].state = "confirmed" => Landed(jobs[j].signature)'
    BY <1>1, <2>1, <2>3 DEF Landed
  <2> QED BY <1>2, <1>3, <2>1, <2>2, <2>4
<1>6. EpochsFit'
  BY <1>1 DEF EpochsFit, MemoryKept
<1>7. JournalsFit'
  BY <1>1 DEF EpochsFit, MemoryKept, JournalsFit
<1>8. SoleAttempt'
  BY <1>1 DEF SoleAttempt
<1>9. CurrentAttempt'
  BY <1>1 DEF CurrentAttempt
<1>10. InOrder'
  <2> SUFFICES ASSUME NEW t \in Signature, Signed(t), NEW i \in Job, Earlier(i, pay[t].job)
               PROVE  \E s \in Signature : Pays(s, pay[t].epochId, i)' /\ Landed(s)'
    BY <1>1 DEF InOrder, Earlier
  <2>1. PICK s \in Signature : Pays(s, pay[t].epochId, i) /\ Landed(s)
    BY DEF InOrder
  <2>2. Pays(s, pay[t].epochId, i)' /\ Landed(s)'
    BY <1>1, <2>1 DEF Pays
  <2> QED BY <2>2
<1>11. SendingFits'
  BY DEF MemoryKept, SendingFits
<1> QED BY <1>5, <1>6, <1>7, <1>8, <1>9, <1>10, <1>11

-----------------------------------------------------------------------------
\* What the chain does to a signed transaction is monotone.
LEMMA LifeIsMonotone ==
  ASSUME IInv, NEW t \in Signature, Lives(t), UNCHANGED <<plan, jobs, pay>>
  PROVE  Monotone
<1>1. /\ \A s \in Signature \ {t} : tx'[s] = tx[s]
      /\ Signed(t)' <=> Signed(t)
      /\ Dead(t) => Dead(t)'
      /\ Landed(t) => Landed(t)'
  BY Living DEF IInv, TypeOK
<1>2. ASSUME NEW s \in Signature, s # t
      PROVE  /\ Signed(s)' <=> Signed(s)
             /\ Dead(s) => Dead(s)'
             /\ Landed(s) => Landed(s)'
  BY <1>1, <1>2 DEF Signed, Dead, Landed
<1>3. \A s \in Signature :
        /\ Signed(s)' <=> Signed(s)
        /\ Dead(s) => Dead(s)'
        /\ Landed(s) => Landed(s)'
  BY <1>1, <1>2
<1> QED BY <1>3 DEF Monotone

LEMMA StillIsMonotone ==
  ASSUME UNCHANGED <<plan, jobs, pay, txVars>>
  PROVE  Monotone
  BY DEF Monotone, Signed, Dead, Landed, txVars

\* Memory that is as it was is accounted for.
LEMMA StillMemory ==
  ASSUME IInv, UNCHANGED <<memoryVars, indexerVars>>
  PROVE  MemoryKept
  BY DEF IInv, EpochsFit, SendingFits, MemoryKept, memoryVars, indexerVars

LEMMA WorldKeepsIInv ==
  ASSUME IInv, TypeOK', World
  PROVE  IInv'
<1>1. Monotone
  <2>1. CASE Tick
    BY <2>1, StillIsMonotone DEF Tick, fileVars, chainVars
  <2>2. ASSUME NEW a \in Amount, Fund(a)
        PROVE  Monotone
    BY <2>2, StillIsMonotone DEF Fund, fileVars
  <2>3. ASSUME NEW t \in Signature, LandAta(t) \/ LandTransfer(t) \/ Fail(t) \/ Advance(t)
        PROVE  Monotone
    BY <2>3, LifeIsMonotone DEF LandAta, LandTransfer, Fail, Advance, Lives, fileVars
  <2> QED BY <2>1, <2>2, <2>3 DEF World
<1>2. UNCHANGED <<memoryVars, indexerVars>>
  BY DEF World, Tick, Fund, LandAta, LandTransfer, Fail, Advance
<1> QED BY <1>1, <1>2, StillMemory, MonotoneKeepsIInv

LEMMA IndexerKeepsIInv ==
  ASSUME IInv, TypeOK', Indexer
  PROVE  IInv'
<1>1. Monotone
  BY StillIsMonotone
     DEF Indexer, IndexerReads, IndexerWrites, IndexerStops, fileVars, chainVars
<1>2. UNCHANGED memoryVars
  BY DEF Indexer, IndexerReads, IndexerWrites, IndexerStops
<1>3. \A file \in {journal', reading'} :
        file \in {journal, reading, NoJournal} \/ file.epochId = plan.epochId + 1
  BY DEF Indexer, IndexerReads, IndexerWrites, IndexerStops
<1>4. MemoryKept
  BY <1>2, <1>3 DEF IInv, EpochsFit, SendingFits, MemoryKept, memoryVars
<1> QED BY <1>1, <1>4, MonotoneKeepsIInv

\* The journal a plan is prepared from is the one after the plan before.
LEMMA PrepareKeepsIInv ==
  ASSUME IInv, TypeOK', Prepare
  PROVE  IInv'
<1>1. Monotone
  BY StillIsMonotone DEF Prepare, fileVars, chainVars
<1>2. draft'.epochId = journal.epochId /\ draft'.state = "active"
  BY DEF Prepare
<1>3. journal.epochId = plan.epochId + 1
  <2>1. plan.state \in {"none", "finalized"}
    BY DEF Prepare, NoneActive, IInv, TypeOK, Plan
  <2>2. CASE plan.state = "finalized"
    BY <2>2 DEF Prepare, JournalAdvanced
  <2>3. CASE plan.state = "none"
    BY <2>3 DEF Prepare, IInv, JournalsFit, EpochsFit
  <2> QED BY <2>1, <2>2, <2>3
<1>4. step' = "prepared" /\ UNCHANGED indexerVars
  BY DEF Prepare
<1>5. MemoryKept
  BY <1>2, <1>3, <1>4 DEF MemoryKept, indexerVars
<1> QED BY <1>1, <1>5, MonotoneKeepsIInv

\* Sending what was saved, publishing, and stopping leave the plan alone.
LEMMA BroadcastKeepsIInv ==
  ASSUME IInv, TypeOK', Broadcast \/ (\E j \in Job : Rebroadcast(j))
  PROVE  IInv'
<1>1. CASE Broadcast
  <2>1. sending \in Signature
    BY <1>1 DEF Broadcast, IInv, SendingFits
  <2>2. Monotone
    BY <1>1, <2>1, LifeIsMonotone DEF Broadcast, Lives, fileVars
  <2>3. MemoryKept
    BY <1>1 DEF Broadcast, MemoryKept, indexerVars
  <2> QED BY <2>2, <2>3, MonotoneKeepsIInv
<1>2. ASSUME NEW j \in Job, Rebroadcast(j)
      PROVE  IInv'
  <2>1. jobs[j].signature \in Signature
    BY <1>2 DEF Rebroadcast, Submitted, IInv, JobsFit
  <2>2. Monotone
    BY <1>2, <2>1, LifeIsMonotone DEF Rebroadcast, Lives, fileVars
  <2>3. MemoryKept
    BY <1>2, StillMemory DEF Rebroadcast
  <2> QED BY <2>2, <2>3, MonotoneKeepsIInv
<1> QED BY <1>1, <1>2

LEMMA QuietKeepsIInv ==
  ASSUME IInv, TypeOK', PublishEpoch \/ ListEpoch \/ ControlStops \/ UNCHANGED vars
  PROVE  IInv'
<1>1. Monotone
  BY StillIsMonotone DEF PublishEpoch, ListEpoch, ControlStops, vars, fileVars, chainVars
<1>2. CASE PublishEpoch \/ ListEpoch \/ ControlStops
  <2>1. step' \in {"published", "listed", "idle"} /\ UNCHANGED indexerVars
    BY <1>2 DEF PublishEpoch, ListEpoch, ControlStops
  <2>2. MemoryKept
    BY <2>1 DEF MemoryKept, indexerVars
  <2> QED BY <1>1, <2>2, MonotoneKeepsIInv
<1>3. CASE UNCHANGED vars
  BY <1>1, <1>3, StillMemory, MonotoneKeepsIInv DEF vars
<1> QED BY <1>2, <1>3

-----------------------------------------------------------------------------
(***************************************************************************)
(* Steps that write the plan.                                              *)
(***************************************************************************)
\* Nothing was ever signed under the number of the new plan.
LEMMA SavePreparedKeepsIInv ==
  ASSUME IInv, TypeOK', SavePrepared
  PROVE  IInv'
<1>1. /\ plan'.epochId = plan.epochId + 1
      /\ plan.epochId \in Nat
      /\ \A j \in Job : jobs'[j].state = "pending"
      /\ step' = "idle"
      /\ pay' = pay /\ tx' = tx /\ journal' = journal /\ reading' = reading
  BY DEF SavePrepared, NotStarted, IInv, EpochsFit, TypeOK, Plan, chainVars, indexerVars, txVars
<1>2. \A t \in Signature :
        /\ Signed(t)' <=> Signed(t)
        /\ Dead(t)' <=> Dead(t)
        /\ Landed(t)' <=> Landed(t)
        /\ Signed(t) => pay[t].epochId <= plan.epochId
        /\ pay[t].epochId \in Nat
  BY <1>1 DEF Signed, Dead, Landed, IInv, EpochsFit, TypeOK, Payment
<1> USE DEF IInv
<1>3. JobsFit'
  BY <1>1 DEF JobsFit
<1>4. plan'.state # "none"
  BY DEF SavePrepared, EpochsFit
<1>5. EpochsFit'
  BY <1>1, <1>2, <1>4 DEF EpochsFit
<1>6. JournalsFit'
  BY <1>1, <1>4 DEF JournalsFit
<1>7. SoleAttempt'
  BY <1>1, <1>2 DEF SoleAttempt
<1>8. CurrentAttempt'
  BY <1>1, <1>2 DEF CurrentAttempt
<1>9. InOrder'
  BY <1>1, <1>2 DEF InOrder, Pays
<1>10. SendingFits'
  BY <1>1 DEF SendingFits
<1> QED BY <1>3, <1>5, <1>6, <1>7, <1>8, <1>9, <1>10

LEMMA ClosePlanKeepsIInv ==
  ASSUME IInv, TypeOK', ClosePlan
  PROVE  IInv'
<1>1. /\ plan' = [plan EXCEPT !.state = "finalized"]
      /\ plan'.epochId = plan.epochId
      /\ plan'.rawTotals = plan.rawTotals
      /\ plan'.state # "none"
      /\ step' = "idle"
      /\ jobs' = jobs /\ pay' = pay /\ tx' = tx
      /\ journal' = journal /\ reading' = reading
  BY DEF ClosePlan, IInv, TypeOK, Plan, chainVars, indexerVars, txVars
<1> USE DEF IInv
<1>2. JobsFit'
  BY <1>1 DEF JobsFit, InPlan, Pays, Signed, AmountOf, Landed
<1>3. EpochsFit'
  BY <1>1 DEF EpochsFit, Signed
<1>4. JournalsFit'
  BY <1>1 DEF JournalsFit
<1>5. SoleAttempt' /\ CurrentAttempt'
  BY <1>1 DEF SoleAttempt, CurrentAttempt, Signed, Dead
<1>6. InOrder'
  BY <1>1 DEF InOrder, Pays, Signed, Landed
<1>7. SendingFits'
  BY <1>1 DEF SendingFits
<1> QED BY <1>2, <1>3, <1>4, <1>5, <1>6, <1>7

\* A confirmed job keeps its transaction.
LEMMA ConfirmKeepsIInv ==
  ASSUME IInv, TypeOK', NEW j \in Job, ConfirmJob(j)
  PROVE  IInv'
<1>1. /\ jobs[j].state = "submitted"
      /\ jobs[j].signature \in Signature
      /\ jobs'[j].state = "confirmed"
      /\ jobs'[j].signature = jobs[j].signature
      /\ \A i \in Job \ {j} : jobs'[i] = jobs[i]
      /\ plan' = plan /\ pay' = pay /\ tx' = tx
      /\ journal' = journal /\ reading' = reading
      /\ step' = step /\ draft' = draft /\ sending' = sending
  BY DEF ConfirmJob, Submitted, IInv, JobsFit, TypeOK, Progress, chainVars, indexerVars,
         memoryVars, txVars
<1>2. Landed(jobs[j].signature)
  BY <1>1, FinalityIsLanding DEF ConfirmJob, IInv, TypeOK
<1> USE DEF IInv
<1>3. JobsFit'
  <2>1. ASSUME NEW i \in Job, jobs'[i].state # "pending"
        PROVE  /\ InPlan(i)
               /\ jobs'[i].signature \in Signature
               /\ Pays(jobs'[i].signature, plan.epochId, i)
               /\ pay[jobs'[i].signature].amount = AmountOf(i)
               /\ jobs'[i].state = "confirmed" => Landed(jobs'[i].signature)
    <3>1. CASE i = j
      BY <1>1, <1>2, <3>1 DEF JobsFit
    <3>2. CASE i # j
      BY <1>1, <2>1, <3>2 DEF JobsFit
    <3> QED BY <3>1, <3>2
  <2> QED BY <1>1, <2>1 DEF JobsFit, InPlan, Pays, Signed, AmountOf, Landed
<1>4. EpochsFit' /\ JournalsFit' /\ SendingFits'
  BY <1>1 DEF EpochsFit, JournalsFit, SendingFits, Signed
<1>5. SoleAttempt'
  BY <1>1 DEF SoleAttempt, Signed, Dead
<1>6. CurrentAttempt'
  <2>1. \A i \in Job : jobs[i].state # "pending" =>
          jobs'[i].state # "pending" /\ jobs'[i].signature = jobs[i].signature
    BY <1>1
  <2>2. \A t \in Signature : pay[t].job \in Job
    BY DEF TypeOK, Payment
  <2> QED BY <1>1, <2>1, <2>2 DEF CurrentAttempt, Signed, Dead
<1>7. InOrder'
  BY <1>1 DEF InOrder, Pays, Signed, Landed
<1> QED BY <1>3, <1>4, <1>5, <1>6, <1>7

\* What the plan gives up on is dead.
LEMMA ExpireKeepsIInv ==
  ASSUME IInv, TypeOK', NEW j \in Job, ExpireJob(j)
  PROVE  IInv'
<1>1. /\ jobs[j].state = "submitted"
      /\ jobs[j].signature \in Signature
      /\ Signed(jobs[j].signature)
      /\ jobs'[j].state = "pending"
      /\ \A i \in Job \ {j} : jobs'[i] = jobs[i]
      /\ plan' = plan /\ pay' = pay /\ tx' = tx
      /\ journal' = journal /\ reading' = reading
      /\ step' = step /\ draft' = draft /\ sending' = sending
  BY DEF ExpireJob, Submitted, NotStarted, IInv, JobsFit, Pays, TypeOK, chainVars,
         indexerVars, memoryVars, txVars
<1>2. Dead(jobs[j].signature)
  BY <1>1, ExpiryIsFinal DEF ExpireJob, IInv, TypeOK
<1> USE DEF IInv
<1>3. JobsFit'
  <2>1. ASSUME NEW i \in Job, jobs'[i].state # "pending"
        PROVE  i # j /\ jobs'[i] = jobs[i]
    BY <1>1, <2>1
  <2> QED BY <1>1, <2>1 DEF JobsFit, InPlan, Pays, Signed, AmountOf, Landed
<1>4. EpochsFit' /\ JournalsFit' /\ SendingFits'
  BY <1>1 DEF EpochsFit, JournalsFit, SendingFits, Signed
<1>5. SoleAttempt'
  BY <1>1 DEF SoleAttempt, Signed, Dead
<1>6. CurrentAttempt'
  <2>1. ASSUME NEW t \in Signature, Signed(t), pay[t].epochId = plan.epochId
        PROVE  Dead(t) \/ (jobs'[pay[t].job].state # "pending" /\ jobs'[pay[t].job].signature = t)
    <3>1. pay[t].job \in Job
      BY DEF TypeOK, Payment
    <3>2. CASE pay[t].job = j
      BY <1>2, <2>1, <3>2 DEF CurrentAttempt
    <3>3. CASE pay[t].job # j
      BY <1>1, <2>1, <3>1, <3>3 DEF CurrentAttempt
    <3> QED BY <3>2, <3>3
  <2> QED BY <1>1, <2>1 DEF CurrentAttempt, Signed, Dead
<1>7. InOrder'
  BY <1>1 DEF InOrder, Pays, Signed, Landed
<1> QED BY <1>3, <1>4, <1>5, <1>6, <1>7

\* A job is signed only when every attempt before is dead.
LEMMA SignJobKeepsIInv ==
  ASSUME IInv, TypeOK', NEW j \in Job, NEW t \in Signature, SignJob(j, t)
  PROVE  IInv'
<1>1. /\ jobs[j].state = "pending"
      /\ Current(j) /\ InPlan(j)
      /\ jobs'[j].state = "submitted" /\ jobs'[j].signature = t
      /\ \A i \in Job \ {j} : jobs'[i] = jobs[i]
      /\ pay'[t].epochId = plan.epochId
      /\ pay'[t].job = j
      /\ pay'[t].amount = AmountOf(j)
      /\ \A s \in Signature \ {t} : pay'[s] = pay[s]
      /\ plan' = plan
      /\ journal' = journal /\ reading' = reading
      /\ step' = "signed" /\ sending' = t
  BY DEF SignJob, Current, IInv, TypeOK, Progress, Payment, indexerVars
<1>2. /\ ~Signed(t) /\ Signed(t)'
      /\ ~Landed(t)
      /\ \A s \in Signature \ {t} : tx'[s] = tx[s]
  BY Signing DEF SignJob, IInv, TypeOK
<1>3. ASSUME NEW s \in Signature, s # t
      PROVE  /\ Signed(s)' <=> Signed(s)
             /\ Dead(s)' <=> Dead(s)
             /\ Landed(s)' <=> Landed(s)
             /\ pay'[s] = pay[s]
             /\ \A e \in Nat, i \in Job : Pays(s, e, i)' <=> Pays(s, e, i)
  BY <1>1, <1>2, <1>3 DEF Signed, Dead, Landed, Pays
<1> USE DEF IInv
<1>4. \A i \in Job : jobs[i].state # "pending" => jobs[i].signature \in Signature \ {t}
  BY <1>2 DEF JobsFit, Pays
<1>5. \A s \in Signature :
        Signed(s) /\ pay[s].epochId = plan.epochId /\ pay[s].job = j => Dead(s)
  BY <1>1 DEF CurrentAttempt
<1>6. plan.epochId \in Nat
  BY DEF TypeOK, Plan
<1>7. JobsFit'
  <2>1. ASSUME NEW i \in Job, jobs'[i].state # "pending"
        PROVE  /\ InPlan(i)
               /\ jobs'[i].signature \in Signature
               /\ tx'[jobs'[i].signature].status # "unsigned"
               /\ pay'[jobs'[i].signature].epochId = plan.epochId
               /\ pay'[jobs'[i].signature].job = i
               /\ pay'[jobs'[i].signature].amount = AmountOf(i)
               /\ jobs'[i].state = "confirmed" => tx'[jobs'[i].signature].status = "landed"
    <3>1. CASE i = j
      BY <1>1, <1>2, <3>1 DEF Signed
    <3>2. CASE i # j
      <4> DEFINE s == jobs[i].signature
      <4>1. jobs'[i] = jobs[i] /\ s \in Signature /\ s # t
        BY <1>1, <1>4, <2>1, <3>2
      <4>2. /\ InPlan(i)
            /\ Pays(s, plan.epochId, i)
            /\ pay[s].amount = AmountOf(i)
            /\ jobs[i].state = "confirmed" => Landed(s)
        BY <4>1, <2>1 DEF JobsFit
      <4>3. Signed(s)' /\ pay'[s] = pay[s] /\ tx'[s] = tx[s]
        BY <1>2, <1>3, <4>1, <4>2 DEF Pays, Signed
      <4> QED BY <1>1, <4>1, <4>2, <4>3 DEF Pays, Signed, Landed
    <3> QED BY <3>1, <3>2
  <2> QED BY <1>1, <2>1 DEF JobsFit, InPlan, AmountOf, Pays, Signed, Landed
<1>8. EpochsFit'
  <2>1. \A s \in Signature : Signed(s)' => pay'[s].epochId <= plan.epochId
    BY <1>1, <1>3, <1>6 DEF EpochsFit
  <2> QED BY <1>1, <2>1 DEF EpochsFit
<1>9. JournalsFit' /\ SendingFits'
  BY <1>1 DEF JournalsFit, SendingFits
<1>10. SoleAttempt'
  <2> SUFFICES ASSUME NEW r \in Signature, NEW s \in Signature, Signed(r)', Signed(s)',
                      pay'[r].epochId = pay'[s].epochId, pay'[r].job = pay'[s].job, r # s
               PROVE  Dead(r)' \/ Dead(s)'
    BY DEF SoleAttempt
  <2>1. CASE r = t
    BY <1>1, <1>3, <1>5, <2>1
  <2>2. CASE s = t
    BY <1>1, <1>3, <1>5, <2>2
  <2>3. CASE r # t /\ s # t
    BY <1>3, <2>3 DEF SoleAttempt
  <2> QED BY <2>1, <2>2, <2>3
<1>11. CurrentAttempt'
  <2>1. ASSUME NEW s \in Signature, Signed(s)', pay'[s].epochId = plan.epochId
        PROVE  Dead(s)' \/ (jobs'[pay'[s].job].state # "pending" /\ jobs'[pay'[s].job].signature = s)
    <3>1. CASE s = t
      BY <1>1, <3>1
    <3>2. CASE s # t
      <4>1. pay'[s] = pay[s] /\ Signed(s) /\ pay[s].job \in Job
        BY <1>3, <2>1, <3>2 DEF TypeOK, Payment
      <4>2. CASE pay[s].job = j
        BY <1>3, <1>5, <2>1, <3>2, <4>1, <4>2
      <4>3. CASE pay[s].job # j
        BY <1>1, <1>3, <2>1, <3>2, <4>1, <4>3 DEF CurrentAttempt
      <4> QED BY <4>2, <4>3
    <3> QED BY <3>1, <3>2
  <2> QED BY <1>1, <2>1 DEF CurrentAttempt
<1>12. InOrder'
  <2> SUFFICES ASSUME NEW s \in Signature, Signed(s)', NEW i \in Job, Earlier(i, pay'[s].job)
               PROVE  \E u \in Signature :
                        /\ tx'[u].status = "landed"
                        /\ pay'[u].epochId = pay'[s].epochId /\ pay'[u].job = i
    BY DEF InOrder, Earlier, Pays, Signed, Landed
  <2>1. \E u \in Signature : u # t /\ Pays(u, pay'[s].epochId, i) /\ Landed(u)
    <3>1. CASE s = t
      <4>1. jobs[i].state = "confirmed"
        BY <1>1, <3>1 DEF Current
      <4> QED BY <1>1, <1>4, <3>1, <4>1 DEF JobsFit
    <3>2. CASE s # t
      BY <1>2, <1>3, <3>2 DEF InOrder
    <3> QED BY <3>1, <3>2
  <2>2. PICK u \in Signature : u # t /\ Pays(u, pay'[s].epochId, i) /\ Landed(u)
    BY <2>1
  <2>3. tx'[u].status = "landed" /\ pay'[u].epochId = pay'[s].epochId /\ pay'[u].job = i
    BY <1>2, <1>3, <2>2 DEF Pays, Landed
  <2> QED BY <2>3
<1> QED BY <1>7, <1>8, <1>9, <1>10, <1>11, <1>12

-----------------------------------------------------------------------------
\* Every step keeps the inductive invariant.
LEMMA InvStep ==
  ASSUME IInv, [Next]_vars
  PROVE  IInv'
<1>1. TypeOK'
  BY TypeKept
<1>2. CASE World
  BY <1>1, <1>2, WorldKeepsIInv
<1>3. CASE Indexer
  BY <1>1, <1>3, IndexerKeepsIInv
<1>4. CASE Prepare
  BY <1>1, <1>4, PrepareKeepsIInv
<1>5. CASE SavePrepared
  BY <1>1, <1>5, SavePreparedKeepsIInv
<1>6. ASSUME NEW j \in Job, ConfirmJob(j)
      PROVE  IInv'
  BY <1>1, <1>6, ConfirmKeepsIInv
<1>7. ASSUME NEW j \in Job, ExpireJob(j)
      PROVE  IInv'
  BY <1>1, <1>7, ExpireKeepsIInv
<1>8. ASSUME NEW j \in Job, NEW t \in Signature, SignJob(j, t)
      PROVE  IInv'
  BY <1>1, <1>8, SignJobKeepsIInv
<1>9. CASE Broadcast \/ \E j \in Job : Rebroadcast(j)
  BY <1>1, <1>9, BroadcastKeepsIInv
<1>10. CASE PublishEpoch \/ ListEpoch \/ ControlStops \/ UNCHANGED vars
  BY <1>1, <1>10, QuietKeepsIInv
<1>11. CASE ClosePlan
  BY <1>1, <1>11, ClosePlanKeepsIInv
<1> QED
  BY <1>2, <1>3, <1>4, <1>5, <1>6, <1>7, <1>8, <1>9, <1>10, <1>11
     DEF Next, Control, Distribute, FinalizeEpoch

\* The inductive invariant holds initially.
LEMMA InvInit ==
  ASSUME Init
  PROVE  IInv
<1>1. \A t \in Signature : ~Signed(t)
  BY InitialTransactions DEF Init
<1>2. TypeOK
  BY InitialTransactions, PipelineAssumption
     DEF Init, TypeOK, Plan, NoPlan, Progress, NotStarted, Journal, NoJournal, Payment,
         NoPayment, Job, Batch
<1>3. \A j \in Job : jobs[j].state = "pending"
  BY DEF Init, NotStarted
<1> QED
  BY <1>1, <1>2, <1>3
     DEF Init, IInv, JobsFit, EpochsFit, NoPlan, JournalsFit, SoleAttempt, CurrentAttempt,
         InOrder, SendingFits

\* The inductive invariant holds in every reachable state.
THEOREM Invariance == Spec => []IInv
<1>1. Init => IInv
  BY InvInit
<1>2. IInv /\ [Next]_vars => IInv'
  BY InvStep
<1> QED BY <1>1, <1>2, PTL DEF Spec

\* Every variable keeps its type.
THEOREM TypeCorrect == Spec => []TypeOK
<1>1. IInv => TypeOK
  BY DEF IInv
<1> QED BY <1>1, Invariance, PTL

\* No batch is paid twice, in whatever epoch.
THEOREM BatchPaidOnceHolds == Spec => []BatchPaidOnce
<1>1. IInv => BatchPaidOnce
  BY DEF IInv, SoleAttempt, BatchPaidOnce, Landed, Signed, Dead
<1> QED BY <1>1, Invariance, PTL

\* What the plan says of a job is so on chain.
THEOREM PlanTruthHolds == Spec => []PlanTruth
<1>1. IInv => PlanTruth
  <2> SUFFICES ASSUME IInv, NEW j \in Job
               PROVE  /\ jobs[j].state = "confirmed" =>
                           /\ Pays(jobs[j].signature, plan.epochId, j)
                           /\ Landed(jobs[j].signature)
                           /\ pay[jobs[j].signature].amount = AmountOf(j)
                      /\ jobs[j].state = "pending" =>
                           \A t \in Signature : Pays(t, plan.epochId, j) => ~Landed(t)
    BY DEF PlanTruth
  <2>1. jobs[j].state = "confirmed" =>
          /\ Pays(jobs[j].signature, plan.epochId, j)
          /\ Landed(jobs[j].signature)
          /\ pay[jobs[j].signature].amount = AmountOf(j)
    BY DEF IInv, JobsFit
  <2>2. jobs[j].state = "pending" =>
          \A t \in Signature : Pays(t, plan.epochId, j) => ~Landed(t)
    BY DEF IInv, CurrentAttempt, Pays, Dead, Landed
  <2> QED BY <2>1, <2>2
<1> QED BY <1>1, Invariance, PTL

\* Nothing is signed before everything that precedes it in the plan has landed.
THEOREM InOrderHolds == Spec => []InOrder
<1>1. IInv => InOrder
  BY DEF IInv
<1> QED BY <1>1, Invariance, PTL

-----------------------------------------------------------------------------
(***************************************************************************)
(* Epochs.                                                                 *)
(***************************************************************************)

\* The batches of a plan are amounts that add up to what it was funded with.
Divides(p) ==
  /\ DOMAIN p.rawTotals # {}
  /\ \A i \in DOMAIN p.rawTotals : p.rawTotals[i] > 0
  /\ Total(p.rawTotals) = p.funded
  /\ p.windowEnd > p.windowStart

\* The plan, and the one in memory that will follow it: the inventory still has
\* what it commits, and the window begins where the last one ended.
PlansFit ==
  /\ plan.state = "none" => /\ plan.windowEnd = 0 /\ plan.rawTotals = <<>>
                            /\ journal.windowStart = 0 /\ reading.windowStart = 0
  /\ plan.state # "none" => plan.epochId > 0 /\ Divides(plan)
  /\ step = "prepared" => /\ plan.state # "active" /\ Divides(draft)
                          /\ draft.windowStart = plan.windowEnd /\ draft.funded <= inventory
  /\ step \in {"published", "listed"} => plan.state # "none"
  /\ plan.state = "finalized" \/ step \in {"published", "listed"} => Complete

\* Of all transactions ever signed, those of the plan do what it says, and the
\* transfers of an earlier one have landed or never will.
AttemptsFit ==
  /\ IsFiniteSet({t \in Signature : Signed(t)})
  /\ \A t \in Signature : Signed(t) =>
       /\ pay[t].job.kind = "ata" => pay[t].amount = 0
       /\ pay[t].epochId = plan.epochId =>
            InPlan(pay[t].job) /\ pay[t].amount = AmountOf(pay[t].job)
       /\ pay[t].epochId < plan.epochId /\ pay[t].job.kind = "transfer" => Dead(t) \/ Landed(t)

\* A transfer job is one of its batch.
LEMMA TransferJobs ==
  ASSUME TypeOK
  PROVE  /\ \A i \in DOMAIN plan.rawTotals : /\ i \in Batch /\ Transfer(i) \in Job
                                             /\ InPlan(Transfer(i))
                                             /\ AmountOf(Transfer(i)) = plan.rawTotals[i]
         /\ \A j \in Job : j.kind = "transfer" => j = Transfer(j.batch)
<1>1. plan.rawTotals \in Seq(Nat) /\ Len(plan.rawTotals) <= MaxBatches
  BY DEF TypeOK, Plan
<1>2. \A i \in DOMAIN plan.rawTotals : i \in Batch
  BY <1>1, PipelineAssumption DEF Batch
<1> QED
  BY <1>2 DEF Transfer, Job, InPlan, AmountOf

\* What a step does to a signed transaction: it pays what it paid, and what is dead
\* or has landed stays so; a new one is a job of the plan.
LEMMA PayMoves ==
  ASSUME IInv, [Next]_vars
  PROVE  /\ \A t \in Signature : Signed(t) =>
              /\ Signed(t)' /\ pay'[t] = pay[t]
              /\ Dead(t) => Dead(t)'
              /\ Landed(t) => Landed(t)'
         /\ \A t \in Signature : ~Signed(t) /\ Signed(t)' => \E j \in Job : SignJob(j, t)
<1>1. CASE UNCHANGED <<pay, txVars>>
  BY <1>1 DEF Signed, Dead, Landed, txVars
<1>2. ASSUME NEW t \in Signature, Lives(t), UNCHANGED pay
      PROVE  \A s \in Signature : /\ Signed(s) <=> Signed(s)'
                                  /\ Dead(s) => Dead(s)'
                                  /\ Landed(s) => Landed(s)'
  <2>1. /\ \A s \in Signature \ {t} : tx'[s] = tx[s]
        /\ Signed(t)' <=> Signed(t)
        /\ Dead(t) => Dead(t)'
        /\ Landed(t) => Landed(t)'
    BY <1>2, Living DEF IInv, TypeOK
  <2>2. ASSUME NEW s \in Signature, s # t
        PROVE  /\ Signed(s)' <=> Signed(s)
               /\ Dead(s) => Dead(s)'
               /\ Landed(s) => Landed(s)'
    BY <2>1, <2>2 DEF Signed, Dead, Landed
  <2> QED
    BY <2>1, <2>2
<1>3. ASSUME NEW j \in Job, NEW t \in Signature, SignJob(j, t)
      PROVE  /\ ~Signed(t)
             /\ \A s \in Signature \ {t} :
                  /\ pay'[s] = pay[s] /\ (Signed(s) <=> Signed(s)')
                  /\ Dead(s) => Dead(s)'
                  /\ Landed(s) => Landed(s)'
  <2>1. ~Signed(t) /\ \A s \in Signature \ {t} : tx'[s] = tx[s]
    BY <1>3, Signing DEF SignJob, IInv, TypeOK
  <2>2. \A s \in Signature \ {t} : pay'[s] = pay[s]
    BY <1>3 DEF SignJob, IInv, TypeOK
  <2>3. \A s \in Signature \ {t} : /\ Signed(s)' <=> Signed(s)
                                   /\ Dead(s) => Dead(s)'
                                   /\ Landed(s) => Landed(s)'
    BY <2>1 DEF Signed, Dead, Landed
  <2> QED
    BY <2>1, <2>2, <2>3
<1>4. CASE World
  <2>1. UNCHANGED <<pay, txVars>> \/ \E t \in Signature : Lives(t) /\ UNCHANGED pay
    BY <1>4 DEF World, Tick, Fund, LandAta, LandTransfer, Fail, Advance, Lives, chainVars
  <2> QED
    BY <1>1, <1>2, <2>1
<1>5. CASE Indexer
  BY <1>1, <1>5 DEF Indexer, IndexerReads, IndexerWrites, IndexerStops, chainVars
<1>6. CASE Control \/ UNCHANGED vars
  <2>1. ASSUME NEW j \in Job, Rebroadcast(j)
        PROVE  \E t \in Signature : Lives(t) /\ UNCHANGED pay
    <3>1. jobs[j].signature \in Signature
      BY <2>1 DEF Rebroadcast, Submitted, IInv, JobsFit
    <3> QED
      BY <2>1, <3>1 DEF Rebroadcast, Lives
  <2>2. ASSUME Broadcast PROVE \E t \in Signature : Lives(t) /\ UNCHANGED pay
    BY <2>2 DEF Broadcast, Lives, IInv, SendingFits
  <2>3. \/ UNCHANGED <<pay, txVars>>
        \/ Broadcast
        \/ \E j \in Job : Rebroadcast(j)
        \/ \E j \in Job, t \in Signature : SignJob(j, t)
    BY <1>6 DEF Control, Prepare, SavePrepared, Distribute, ConfirmJob, ExpireJob, FinalizeEpoch,
       PublishEpoch, ListEpoch, ClosePlan, ControlStops, vars, chainVars
  <2> QED
    BY <1>1, <1>2, <1>3, <2>1, <2>2, <2>3
<1> QED
  BY <1>4, <1>5, <1>6 DEF Next

\* Between plans nothing can be paid any more.
LEMMA Settled ==
  ASSUME IInv, PlansFit, AttemptsFit, plan.state # "active"
  PROVE  \A t \in Signature :
           Signed(t) /\ pay[t].job.kind = "transfer" => Dead(t) \/ Landed(t)
<1> SUFFICES ASSUME NEW t \in Signature, Signed(t), pay[t].job.kind = "transfer", ~Dead(t)
             PROVE  Landed(t)
  OBVIOUS
<1>1. /\ pay[t].job \in Job /\ pay[t].epochId \in Nat /\ pay[t].epochId <= plan.epochId
      /\ plan.epochId \in Nat /\ plan.state \in {"none", "active", "finalized"}
  BY DEF IInv, TypeOK, Payment, Plan, EpochsFit
<1>2. CASE pay[t].epochId < plan.epochId
  BY <1>2 DEF AttemptsFit
<1>3. CASE pay[t].epochId = plan.epochId
  <2>1. InPlan(pay[t].job)
    BY <1>3 DEF AttemptsFit
  <2>2. plan.state # "none"
    BY <2>1 DEF InPlan, PlansFit
  <2>3. Complete
    BY <1>1, <2>2 DEF PlansFit
  <2>4. pay[t].job = Transfer(pay[t].job.batch) /\ pay[t].job.batch \in DOMAIN plan.rawTotals
    BY <1>1, <2>1, TransferJobs DEF InPlan, IInv
  <2>5. jobs[pay[t].job].state = "confirmed"
    BY <2>3, <2>4 DEF Complete
  <2>6. jobs[pay[t].job].signature = t
    BY <1>3 DEF IInv, CurrentAttempt
  <2> QED
    BY <1>1, <2>5, <2>6 DEF IInv, JobsFit
<1> QED
  BY <1>1, <1>2, <1>3

\* A complete plan stays complete, with the same transactions, until the next.
LEMMA FileStays ==
  ASSUME IInv, Complete, [Next]_vars, ~SavePrepared
  PROVE  Complete' /\ EpochFile' = EpochFile
<1>1. /\ plan'.epochId = plan.epochId /\ plan'.windowEnd = plan.windowEnd
      /\ plan'.funded = plan.funded /\ plan'.rawTotals = plan.rawTotals
  <2>1. CASE ClosePlan
    BY <2>1 DEF ClosePlan, IInv, TypeOK, Plan
  <2>2. ClosePlan \/ UNCHANGED plan
    BY DEF Next, World, Indexer, Control, Distribute, FinalizeEpoch, Tick, Fund, LandAta,
       LandTransfer, Fail, Advance, IndexerReads, IndexerWrites, IndexerStops, Prepare,
       ConfirmJob, ExpireJob, Rebroadcast, SignJob, Broadcast, PublishEpoch, ListEpoch,
       ControlStops, vars, fileVars
  <2> QED
    BY <2>1, <2>2
<1>2. \A j \in Job : jobs[j].state = "confirmed" => jobs'[j] = jobs[j]
  <2>1. ASSUME NEW i \in Job, ConfirmJob(i) \/ ExpireJob(i) \/ \E t \in Signature : SignJob(i, t)
        PROVE  \A j \in Job : jobs[j].state = "confirmed" => jobs'[j] = jobs[j]
    BY <2>1 DEF ConfirmJob, ExpireJob, SignJob, Submitted, IInv, TypeOK
  <2>2. \/ UNCHANGED jobs
        \/ \E i \in Job : ConfirmJob(i) \/ ExpireJob(i) \/ \E t \in Signature : SignJob(i, t)
    BY DEF Next, World, Indexer, Control, Distribute, FinalizeEpoch, Tick, Fund, LandAta,
       LandTransfer, Fail, Advance, IndexerReads, IndexerWrites, IndexerStops, Prepare,
       Rebroadcast, Broadcast, PublishEpoch, ListEpoch, ClosePlan, ControlStops, vars, fileVars
  <2> QED
    BY <2>1, <2>2
<1>3. \A i \in DOMAIN plan.rawTotals : jobs'[Transfer(i)] = jobs[Transfer(i)]
  BY <1>2, TransferJobs DEF Complete, IInv
<1>4. Complete'
  BY <1>1, <1>3 DEF Complete
<1> QED
  BY <1>1, <1>3, <1>4 DEF EpochFile

\* A plan being prepared commits all of an inventory that is not empty.
LEMMA PreparedDivides ==
  ASSUME IInv, Prepare
  PROVE  /\ Divides(draft') /\ draft'.funded = inventory
         /\ draft'.windowStart = journal.windowStart
<1>1. PICK shares \in Splits(inventory) :
        draft' = [state |-> "active", epochId |-> journal.epochId,
                  windowStart |-> journal.windowStart, windowEnd |-> journal.windowEnd,
                  funded |-> inventory, rawTotals |-> shares]
  BY DEF Prepare
<1>2. inventory \in Nat /\ inventory > 0 /\ journal.windowEnd > journal.windowStart
  BY PipelineAssumption DEF Prepare, IInv, TypeOK
<1>3. shares \in SeqOf(1..inventory, MaxBatches) /\ Total(shares) = inventory
  BY DEF Splits, BoundedSeq
<1>4. PICK m \in 0..MaxBatches : shares \in [1..m -> 1..inventory]
  BY <1>3 DEF SeqOf
<1>5. DOMAIN shares # {}
  <2> SUFFICES ASSUME DOMAIN shares = {} PROVE FALSE
    OBVIOUS
  <2>1. SumFunction(shares) = SumFunctionOnSet(shares, {})
    BY DEF SumFunction
  <2>2. SumFunction(shares) = 0
    BY <2>1, SumEmpty
  <2> QED
    BY <1>2, <1>3, <2>2 DEF Total
<1>6. \A i \in DOMAIN shares : shares[i] > 0
  BY <1>2, <1>4
<1> QED
  BY <1>1, <1>2, <1>3, <1>5, <1>6 DEF Divides

\* A step leaves what the plan commits alone, unless it saves the next one.
LEMMA PlanMoves ==
  ASSUME IInv, [Next]_vars
  PROVE  \/ SavePrepared
         \/ /\ plan'.epochId = plan.epochId /\ plan'.windowStart = plan.windowStart
            /\ plan'.windowEnd = plan.windowEnd
            /\ plan'.funded = plan.funded /\ plan'.rawTotals = plan.rawTotals
            /\ plan'.state = plan.state \/ (plan'.state = "finalized" /\ ClosePlan)
<1>1. CASE ClosePlan
  BY <1>1 DEF ClosePlan, IInv, TypeOK, Plan
<1>2. SavePrepared \/ ClosePlan \/ UNCHANGED plan
  BY DEF Next, World, Indexer, Control, Distribute, FinalizeEpoch, Tick, Fund, LandAta,
     LandTransfer, Fail, Advance, IndexerReads, IndexerWrites, IndexerStops, Prepare,
     ConfirmJob, ExpireJob, Rebroadcast, SignJob, Broadcast, PublishEpoch, ListEpoch,
     ControlStops, vars, fileVars
<1> QED
  BY <1>1, <1>2

\* The inventory only grows while a plan is prepared.
LEMMA InventoryStays ==
  ASSUME IInv, PlansFit, AttemptsFit, plan.state # "active", [Next]_vars
  PROVE  inventory' >= inventory
<1>1. ASSUME NEW t \in Signature PROVE ~LandTransfer(t)
  <2> SUFFICES ASSUME LandTransfer(t) PROVE FALSE
    OBVIOUS
  <2>1. tx[t].status = "sent" /\ tx[t].window = "open" /\ pay[t].job.kind = "transfer"
    BY DEF LandTransfer, LandTx, Landable
  <2> QED
    BY <2>1, Settled DEF Signed, Dead, Landed
<1>2. inventory \in Nat
  BY DEF IInv, TypeOK
<1>3. ASSUME NEW a \in Amount, Fund(a) PROVE inventory' >= inventory
  <2>1. a \in Nat
    BY PipelineAssumption
  <2> QED
    BY <1>2, <1>3, <2>1 DEF Fund
<1>4. \/ UNCHANGED inventory
      \/ \E a \in Amount : Fund(a)
      \/ \E t \in Signature : LandTransfer(t)
  BY DEF Next, World, Indexer, Control, Distribute, FinalizeEpoch, Tick, LandAta,
     Fail, Advance, IndexerReads, IndexerWrites, IndexerStops, Prepare, SavePrepared,
     ConfirmJob, ExpireJob, Rebroadcast, SignJob, Broadcast, PublishEpoch, ListEpoch, ClosePlan,
     ControlStops, vars, chainVars
<1> QED
  BY <1>1, <1>2, <1>3, <1>4

\* Every step keeps plan and draft as they should be.
LEMMA PlansStep ==
  ASSUME IInv, PlansFit, AttemptsFit, [Next]_vars
  PROVE  PlansFit'
<1>1. CASE SavePrepared
  <2>1. /\ plan' = draft /\ step' = "idle" /\ plan'.state = "active" /\ Divides(draft)
        /\ plan'.epochId > 0
    BY <1>1 DEF SavePrepared, PlansFit, IInv, EpochsFit, TypeOK, Plan
  <2> QED
    BY <2>1 DEF PlansFit, Divides, Total
<1>2. CASE ~SavePrepared
  <2>1. /\ plan'.epochId = plan.epochId /\ plan'.windowEnd = plan.windowEnd
        /\ plan'.windowStart = plan.windowStart
        /\ plan'.funded = plan.funded /\ plan'.rawTotals = plan.rawTotals
        /\ plan'.state = plan.state \/ (plan'.state = "finalized" /\ ClosePlan)
    BY <1>2, PlanMoves
  <2>2. ClosePlan => step = "listed" /\ plan.state # "none" /\ step' = "idle"
    BY DEF ClosePlan, PlansFit
  <2>3. ASSUME plan'.state = "none"
        PROVE  /\ plan'.windowEnd = 0 /\ plan'.rawTotals = <<>>
               /\ journal'.windowStart = 0 /\ reading'.windowStart = 0
    <3>1. plan.state = "none"
      BY <2>1, <2>3
    <3>2. \A file \in {journal', reading'} :
            \/ file \in {journal, reading, NoJournal}
            \/ file.windowStart = plan.windowEnd
      BY DEF Next, World, Indexer, Control, Distribute, FinalizeEpoch, Tick, Fund, LandAta,
         LandTransfer, Fail, Advance, IndexerReads, IndexerWrites, IndexerStops, Prepare,
         SavePrepared, ConfirmJob, ExpireJob, Rebroadcast, SignJob, Broadcast, PublishEpoch,
         ListEpoch, ClosePlan, ControlStops, vars, indexerVars
    <3> QED
      BY <2>1, <3>1, <3>2 DEF PlansFit, NoJournal
  <2>4. plan'.state # "none" => plan'.epochId > 0 /\ Divides(plan')
    BY <2>1, <2>2 DEF PlansFit, Divides, Total
  <2>5. ASSUME step' = "prepared"
        PROVE  /\ plan'.state # "active" /\ Divides(draft')
               /\ draft'.windowStart = plan'.windowEnd /\ draft'.funded <= inventory'
    <3>1. CASE Prepare
      <4>1. plan.state \in {"none", "finalized"} /\ inventory' = inventory /\ inventory \in Nat
        BY <3>1 DEF Prepare, NoneActive, chainVars, IInv, TypeOK, Plan
      <4>2. journal.windowStart = plan.windowEnd
        BY <3>1, <4>1 DEF Prepare, JournalAdvanced, PlansFit
      <4> QED
        BY <2>1, <3>1, <4>1, <4>2, PreparedDivides
    <3>2. CASE step = "prepared" /\ UNCHANGED draft
      <4>1. /\ plan.state # "active" /\ Divides(draft)
            /\ draft.windowStart = plan.windowEnd /\ draft.funded <= inventory
        BY <3>2 DEF PlansFit
      <4>2. inventory' >= inventory /\ inventory \in Nat /\ inventory' \in Nat
            /\ draft.funded \in Nat
        BY <4>1, InventoryStays, TypeKept DEF IInv, TypeOK, Plan
      <4>3. draft.funded <= inventory'
        BY <4>1, <4>2
      <4> QED
        BY <2>1, <3>2, <4>1, <4>3 DEF Divides, Total
    <3>3. Prepare \/ (step = "prepared" /\ UNCHANGED draft)
      BY <1>2, <2>5 DEF Next, World, Indexer, Control, Distribute, FinalizeEpoch, Tick, Fund, LandAta,
         LandTransfer, Fail, Advance, IndexerReads, IndexerWrites, IndexerStops,
         ConfirmJob, ExpireJob, Rebroadcast, SignJob, Broadcast, PublishEpoch,
         ListEpoch, ClosePlan, ControlStops, vars, memoryVars
    <3> QED
      BY <3>1, <3>2, <3>3
  <2>6. step' \in {"published", "listed"} =>
          /\ plan.state # "none" /\ Complete
          /\ step \in {"published", "listed"} \/ PublishEpoch
    BY DEF PlansFit, Next, World, Indexer, Control, Distribute, FinalizeEpoch, Tick, Fund, LandAta,
       LandTransfer, Fail, Advance, IndexerReads, IndexerWrites, IndexerStops, Prepare,
       SavePrepared, ConfirmJob, ExpireJob, Rebroadcast, SignJob, Broadcast, PublishEpoch,
       ListEpoch, ClosePlan, ControlStops, vars, memoryVars
  <2>7. step' \in {"published", "listed"} => plan'.state # "none"
    BY <2>1, <2>6
  <2>8. plan'.state = "finalized" \/ step' \in {"published", "listed"} => Complete
    BY <2>1, <2>2, <2>6 DEF PlansFit
  <2>9. plan'.state = "finalized" \/ step' \in {"published", "listed"} => Complete'
    BY <1>2, <2>8, FileStays
  <2>10. /\ plan'.state # "none" => plan'.epochId > 0 /\ Divides(plan)'
         /\ step' = "prepared" => Divides(draft)'
    BY <2>4, <2>5 DEF Divides, Total
  <2> QED
    BY <2>3, <2>5, <2>7, <2>9, <2>10 DEF PlansFit
<1> QED
  BY <1>1, <1>2

\* Every step keeps what the attempts do.
LEMMA AttemptsStep ==
  ASSUME IInv, PlansFit, AttemptsFit, [Next]_vars
  PROVE  AttemptsFit'
<1> DEFINE all == {t \in Signature : Signed(t)}
<1>1. ASSUME NEW j \in Job, NEW t \in Signature, SignJob(j, t)
      PROVE  /\ InPlan(j)
             /\ pay'[t].epochId = plan.epochId /\ pay'[t].job = j /\ pay'[t].amount = AmountOf(j)
             /\ all' = all \cup {t}
  <2>1. /\ InPlan(j)
        /\ pay'[t].epochId = plan.epochId /\ pay'[t].job = j /\ pay'[t].amount = AmountOf(j)
    BY <1>1 DEF SignJob, Current, IInv, TypeOK
  <2>2. Signed(t)' /\ \A s \in Signature \ {t} : Signed(s)' <=> Signed(s)
    BY <1>1, Signing DEF SignJob, IInv, TypeOK, Signed
  <2> QED
    BY <2>1, <2>2
<1>2. IsFiniteSet(all')
  <2>1. CASE \E j \in Job, t \in Signature : SignJob(j, t)
    <3>1. PICK t \in Signature : all' = all \cup {t}
      BY <1>1, <2>1
    <3>2. IsFiniteSet(all)
      BY DEF AttemptsFit
    <3> HIDE DEF all
    <3>3. IsFiniteSet(all \cup {t})
      BY <3>2, FS_AddElement
    <3> QED
      BY <3>1, <3>3
  <2>2. CASE ~ \E j \in Job, t \in Signature : SignJob(j, t)
    <3>1. all' \subseteq all
      BY <2>2, PayMoves
    <3>2. IsFiniteSet(all)
      BY DEF AttemptsFit
    <3> HIDE DEF all
    <3> QED
      BY <3>1, <3>2, FS_Subset
  <2> QED
    BY <2>1, <2>2
<1>3. ASSUME NEW t \in Signature, Signed(t)'
      PROVE  /\ pay'[t].job.kind = "ata" => pay'[t].amount = 0
             /\ pay'[t].epochId = plan'.epochId =>
                  pay'[t].job.batch \in DOMAIN plan'.rawTotals
                  /\ pay'[t].amount = IF pay'[t].job.kind = "transfer"
                                      THEN plan'.rawTotals[pay'[t].job.batch] ELSE 0
             /\ pay'[t].epochId < plan'.epochId /\ pay'[t].job.kind = "transfer" => (Dead(t) \/ Landed(t))'
  <2>1. CASE Signed(t)
    <3>1. pay'[t] = pay[t] /\ (Dead(t) => Dead(t)') /\ (Landed(t) => Landed(t)')
      BY <2>1, PayMoves
    <3>2. /\ pay[t].epochId <= plan.epochId /\ pay[t].epochId \in Nat /\ plan.epochId \in Nat
      BY <2>1 DEF IInv, EpochsFit, TypeOK, Payment, Plan
    <3>3. CASE SavePrepared
      <4>1. plan'.epochId = plan.epochId + 1 /\ plan.state # "active"
        BY <3>3 DEF SavePrepared, IInv, EpochsFit, PlansFit
      <4> QED
        BY <2>1, <3>1, <3>2, <4>1, Settled DEF AttemptsFit
    <3>4. CASE plan'.epochId = plan.epochId /\ plan'.rawTotals = plan.rawTotals
      BY <2>1, <3>1, <3>4 DEF AttemptsFit, InPlan, AmountOf
    <3> QED
      BY <3>3, <3>4, PlanMoves
  <2>2. CASE ~Signed(t)
    <3>1. PICK j \in Job : SignJob(j, t)
      BY <1>3, <2>2, PayMoves
    <3>2. plan' = plan /\ plan.epochId \in Nat
      BY <3>1 DEF SignJob, IInv, TypeOK, Plan
    <3>3. /\ j.batch \in DOMAIN plan.rawTotals
          /\ pay'[t].amount = IF j.kind = "transfer" THEN plan.rawTotals[j.batch] ELSE 0
          /\ pay'[t].job = j /\ pay'[t].epochId = plan.epochId
      BY <1>1, <3>1 DEF InPlan, AmountOf
    <3> QED
      BY <3>2, <3>3
  <2> QED
    BY <2>1, <2>2
<1> QED
  BY <1>2, <1>3 DEF AttemptsFit, InPlan, AmountOf

-----------------------------------------------------------------------------
(***************************************************************************)
(* The public files.                                                       *)
(***************************************************************************)

\* An epoch file is of an epoch that has a plan, the current one's is what the plan
\* says, and it has a place for every transfer ever signed for the epoch.
FilesFit ==
  \A f \in epochFiles :
    /\ f.epochId \in 1..plan.epochId
    /\ f.epochId = plan.epochId => f = EpochFile /\ Complete
    /\ \A t \in Signature :
         Signed(t) /\ pay[t].epochId = f.epochId /\ pay[t].job.kind = "transfer"
           => pay[t].job.batch \in DOMAIN f.signatures

\* What has landed for an epoch, and what it paid.
PaidFor(e) == {t \in Signature : Landed(t) /\ pay[t].epochId = e}
Amounts == [t \in Signature |-> pay[t].amount]

\* The file that is published names landed transactions that add up.
LEMMA PublishedIsTrue ==
  ASSUME IInv, PlansFit, AttemptsFit, PublishEpoch
  PROVE  /\ \A i \in DOMAIN plan.rawTotals :
              /\ jobs[Transfer(i)].signature \in Signature
              /\ PaidBy(jobs[Transfer(i)].signature, plan.epochId, i)
         /\ PaidRaw(plan.epochId) = plan.funded
<1> DEFINE S == DOMAIN plan.rawTotals
           g == [i \in S |-> jobs[Transfer(i)].signature]
           T == {g[i] : i \in S}
           P == PaidFor(plan.epochId)
<1>1. /\ IsFiniteSet(S) /\ \A i \in S : plan.rawTotals[i] \in Nat
  <2>1. plan.rawTotals \in Seq(Nat)
    BY DEF IInv, TypeOK, Plan
  <2>2. S = 1..Len(plan.rawTotals) /\ Len(plan.rawTotals) \in Nat
    BY <2>1
  <2>3. IsFiniteSet(1..Len(plan.rawTotals))
    BY <2>2, FS_Interval
  <2> QED
    BY <2>1, <2>2, <2>3, ElementsOf
<1>2. ASSUME NEW i \in S
      PROVE  /\ g[i] \in Signature /\ PaidBy(g[i], plan.epochId, i)
             /\ pay[g[i]].amount = plan.rawTotals[i] /\ pay[g[i]].job = Transfer(i)
             /\ g[i] \in P
  <2>1. Transfer(i) \in Job /\ jobs[Transfer(i)].state = "confirmed"
        /\ AmountOf(Transfer(i)) = plan.rawTotals[i]
    BY TransferJobs DEF PublishEpoch, Complete, IInv
  <2> QED
    BY <2>1 DEF IInv, JobsFit, Pays, PaidBy, PaidFor
<1>3. ASSUME NEW t \in P, t \notin T PROVE pay[t].amount = 0
  <2>1. /\ t \in Signature /\ Landed(t) /\ Signed(t) /\ ~Dead(t)
        /\ pay[t].epochId = plan.epochId /\ pay[t].job \in Job
    BY DEF PaidFor, Landed, Signed, Dead, IInv, TypeOK, Payment
  <2>2. InPlan(pay[t].job) /\ jobs[pay[t].job].signature = t
    BY <2>1 DEF AttemptsFit, IInv, CurrentAttempt
  <2>3. pay[t].job.kind # "transfer"
    <3>1. ASSUME pay[t].job.kind = "transfer" PROVE FALSE
      <4>1. pay[t].job = Transfer(pay[t].job.batch) /\ pay[t].job.batch \in S
        BY <2>1, <2>2, <3>1, TransferJobs DEF InPlan, IInv
      <4> QED
        BY <1>3, <2>2, <4>1
    <3> QED
      BY <3>1
  <2> QED
    BY <2>1, <2>3 DEF AttemptsFit, Job
<1>4. IsFiniteSet(P) /\ T \subseteq P
  <2>1. P \subseteq {t \in Signature : Signed(t)}
    BY DEF PaidFor, Signed, Landed
  <2>2. IsFiniteSet({t \in Signature : Signed(t)})
    BY DEF AttemptsFit
  <2>3. T \subseteq P
    BY <1>2
  <2> HIDE DEF P, T
  <2> QED
    BY <2>1, <2>2, <2>3, FS_Subset
<1>5. \A t \in P : Amounts[t] \in Int /\ Amounts[t] = pay[t].amount
  BY DEF PaidFor, Amounts, IInv, TypeOK, Payment
<1>6. \A i, k \in S : g[i] = g[k] => i = k
  BY <1>2 DEF Transfer
<1>7. \A i \in S : plan.rawTotals[i] \in Int /\ Amounts[g[i]] = plan.rawTotals[i]
  BY <1>1, <1>2, <1>5
<1> HIDE DEF S, g, P
<1>8. SumFunctionOnSet(Amounts, T) = SumFunctionOnSet(plan.rawTotals, S)
  BY <1>1, <1>6, <1>7, SumReindex
<1>9. SumFunctionOnSet(Amounts, P) = SumFunctionOnSet(Amounts, T)
  <2>1. \A t \in P : Amounts[t] \in Int
    BY <1>5
  <2>2. \A t \in P \ T : Amounts[t] = 0
    BY <1>3, <1>5
  <2> HIDE DEF T
  <2> QED
    BY <1>4, <2>1, <2>2, SumOutside
<1>10. SumFunctionOnSet(plan.rawTotals, S) = plan.funded
  BY DEF PublishEpoch, Total, SumFunction, S
<1>11. PaidRaw(plan.epochId) = SumFunctionOnSet(Amounts, P)
  BY DEF PaidRaw, P, PaidFor, Amounts
<1> QED
  BY <1>2, <1>8, <1>9, <1>10, <1>11 DEF S, g

\* Nothing more is paid for an epoch that has a public file.
LEMMA PaidStays ==
  ASSUME IInv, AttemptsFit, FilesFit, PublicFilesTrue, [Next]_vars, NEW f \in epochFiles
  PROVE  PaidRaw(f.epochId)' = PaidRaw(f.epochId)
<1> DEFINE e == f.epochId
           P == PaidFor(e)
<1>1. \A t \in P : t \in PaidFor(e)' /\ pay'[t] = pay[t]
  BY PayMoves DEF PaidFor, Signed, Landed
<1>2. ASSUME NEW t \in PaidFor(e)', t \notin P
      PROVE  pay'[t].amount = 0
  <2>1. t \in Signature /\ Landed(t)' /\ pay'[t].epochId = e /\ Signed(t)'
    BY DEF PaidFor, Signed, Landed
  <2>2. Signed(t)
    <3>1. ASSUME NEW j \in Job, SignJob(j, t) PROVE FALSE
      BY <2>1, <3>1, Signing DEF SignJob, IInv, TypeOK
    <3> QED
      BY <2>1, <3>1, PayMoves
  <2>3. pay'[t] = pay[t] /\ ~Landed(t) /\ ~Dead(t)
    <3>1. pay'[t] = pay[t]
      BY <2>1, <2>2, PayMoves
    <3>2. Dead(t) => Dead(t)'
      BY <2>1, <2>2, PayMoves
    <3> QED
      BY <1>2, <2>1, <3>1, <3>2 DEF PaidFor, Landed, Dead
  <2>4. pay[t].job.kind # "transfer"
    <3> SUFFICES ASSUME pay[t].job.kind = "transfer" PROVE FALSE
      OBVIOUS
    <3> DEFINE s == f.signatures[pay[t].job.batch]
    <3>1. pay[t].job.batch \in DOMAIN f.signatures
      BY <2>1, <2>2, <2>3 DEF FilesFit
    <3>2. s \in Signature /\ PaidBy(s, e, pay[t].job.batch)
      BY <3>1 DEF PublicFilesTrue
    <3>3. pay[t].job = Transfer(pay[t].job.batch)
      BY <2>1, TransferJobs DEF IInv, TypeOK, Payment
    <3> HIDE DEF s
    <3>4. pay[s].job = pay[t].job /\ pay[s].epochId = pay[t].epochId /\ Signed(s) /\ Landed(s)
      BY <2>1, <2>3, <3>2, <3>3 DEF PaidBy, Pays
    <3>5. s = t \/ Dead(s) \/ Dead(t)
      BY <2>1, <2>2, <3>2, <3>4 DEF IInv, SoleAttempt
    <3> QED
      BY <2>3, <3>4, <3>5 DEF Dead, Landed
  <2>5. pay[t].job.kind = "ata"
    BY <2>1, <2>4 DEF IInv, TypeOK, Payment, Job
  <2> QED
    BY <2>1, <2>2, <2>3, <2>5 DEF AttemptsFit
<1>3. PaidFor(e)' \subseteq {t \in Signature : Signed(t)}
  <2> SUFFICES ASSUME NEW t \in PaidFor(e)', ~Signed(t) PROVE FALSE
    BY DEF PaidFor
  <2>1. t \in Signature /\ Landed(t)' /\ Signed(t)'
    BY DEF PaidFor, Signed, Landed
  <2>2. PICK j \in Job : SignJob(j, t)
    BY <2>1, PayMoves
  <2> QED
    BY <2>1, <2>2, Signing DEF SignJob, IInv, TypeOK
<1>4. IsFiniteSet(PaidFor(e)') /\ P \subseteq PaidFor(e)'
  <2>1. IsFiniteSet({t \in Signature : Signed(t)})
    BY DEF AttemptsFit
  <2> QED
    BY <1>1, <1>3, <2>1, FS_Subset
<1>5. \A t \in PaidFor(e)' : Amounts'[t] \in Int /\ Amounts'[t] = pay'[t].amount
  <2>1. TypeOK'
    BY TypeKept
  <2> QED
    BY <2>1 DEF PaidFor, Amounts, TypeOK, Payment
<1>6. \A t \in P : Amounts[t] \in Int /\ Amounts'[t] = Amounts[t]
  BY <1>1 DEF PaidFor, Amounts, IInv, TypeOK, Payment
<1>7. \A t \in PaidFor(e)' \ P : Amounts'[t] = 0
  BY <1>2, <1>5
<1> HIDE DEF P
<1>8. SumFunctionOnSet(Amounts', PaidFor(e)') = SumFunctionOnSet(Amounts', P)
  <2> DEFINE Q == PaidFor(e)'
             a == Amounts'
  <2>1. IsFiniteSet(Q) /\ P \subseteq Q /\ (\A t \in Q : a[t] \in Int) /\ \A t \in Q \ P : a[t] = 0
    BY <1>4, <1>5, <1>7
  <2> HIDE DEF Q, a
  <2>2. SumFunctionOnSet(a, Q) = SumFunctionOnSet(a, P)
    BY <2>1, SumOutside
  <2> QED
    BY <2>2 DEF Q, a
<1>9. SumFunctionOnSet(Amounts', P) = SumFunctionOnSet(Amounts, P)
  <2> DEFINE a == Amounts'
  <2>1. IsFiniteSet(P)
    BY <1>4, FS_Subset
  <2>2. \A t \in P : Amounts[t] \in Int /\ a[t] = Amounts[t]
    BY <1>6
  <2> HIDE DEF a
  <2>3. SumFunctionOnSet(a, P) = SumFunctionOnSet(Amounts, P)
    BY <2>1, <2>2, SumEqual
  <2> QED
    BY <2>3 DEF a
<1>10. PaidRaw(e) = SumFunctionOnSet(Amounts, P)
  BY DEF PaidRaw, P, PaidFor, Amounts
<1>11. PaidRaw(e)' = SumFunctionOnSet(Amounts', PaidFor(e)')
  BY DEF PaidRaw, PaidFor, Amounts
<1> QED
  BY <1>8, <1>9, <1>10, <1>11

\* The files change only when the plan is published.
LEMMA FilesMove ==
  ASSUME [Next]_vars
  PROVE  /\ PublishEpoch \/ UNCHANGED epochFiles
         /\ ListEpoch \/ UNCHANGED history
BY DEF Next, World, Indexer, Control, Distribute, FinalizeEpoch, Tick, Fund, LandAta,
   LandTransfer, Fail, Advance, IndexerReads, IndexerWrites, IndexerStops, Prepare, SavePrepared,
   ConfirmJob, ExpireJob, Rebroadcast, SignJob, Broadcast, PublishEpoch, ListEpoch, ClosePlan,
   ControlStops, vars, fileVars

\* Every step keeps the public files as they should be.
LEMMA FilesStep ==
  ASSUME IInv, PlansFit, AttemptsFit, FilesFit, PublicFilesTrue, [Next]_vars
  PROVE  FilesFit' /\ PublicFilesTrue'
<1>0. plan.epochId \in Nat /\ plan'.epochId \in Nat /\ IInv
  BY TypeKept DEF IInv, TypeOK, Plan
<1>1. ASSUME NEW f \in epochFiles
      PROVE  /\ \A i \in DOMAIN f.signatures :
                  f.signatures[i] \in Signature /\ PaidBy(f.signatures[i], f.epochId, i)'
             /\ PaidRaw(f.epochId)' = f.funded
  <2>1. \A i \in DOMAIN f.signatures :
          f.signatures[i] \in Signature /\ PaidBy(f.signatures[i], f.epochId, i)
    BY DEF PublicFilesTrue
  <2>2. \A i \in DOMAIN f.signatures : PaidBy(f.signatures[i], f.epochId, i)'
    <3> SUFFICES ASSUME NEW i \in DOMAIN f.signatures, NEW s, s = f.signatures[i]
                 PROVE  PaidBy(s, f.epochId, i)'
      OBVIOUS
    <3>1. s \in Signature /\ PaidBy(s, f.epochId, i)
      BY <2>1
    <3> QED
      BY <3>1, PayMoves DEF PaidBy, Pays, Transfer
  <2>3. PaidRaw(f.epochId)' = f.funded
    BY PaidStays DEF PublicFilesTrue
  <2> QED
    BY <2>1, <2>2, <2>3
<1>2. ASSUME NEW f \in epochFiles
      PROVE  /\ f.epochId \in 1..plan'.epochId
             /\ f.epochId = plan'.epochId => f = EpochFile' /\ Complete'
             /\ \A t \in Signature :
                  Signed(t)' /\ pay'[t].epochId = f.epochId /\ pay'[t].job.kind = "transfer"
                    => pay'[t].job.batch \in DOMAIN f.signatures
  <2>1. /\ f.epochId \in 1..plan.epochId
        /\ f.epochId = plan.epochId => f = EpochFile /\ Complete
    BY DEF FilesFit
  <2>2. CASE SavePrepared
    <3>1. plan'.epochId = plan.epochId + 1 /\ UNCHANGED <<pay, txVars>>
      BY <2>2 DEF SavePrepared, IInv, EpochsFit, chainVars
    <3>2. \A t \in Signature : Signed(t)' => Signed(t)
      BY <3>1 DEF Signed, txVars
    <3> QED
      BY <1>0, <2>1, <3>1, <3>2 DEF FilesFit
  <2>3. CASE ~SavePrepared
    <3>1. plan'.epochId = plan.epochId /\ plan'.rawTotals = plan.rawTotals
      BY <2>3, PlanMoves
    <3>2. f.epochId = plan.epochId => f = EpochFile' /\ Complete'
      BY <2>1, <2>3, FileStays
    <3>3. ASSUME NEW t \in Signature, Signed(t)', pay'[t].epochId = f.epochId,
                 pay'[t].job.kind = "transfer"
          PROVE  pay'[t].job.batch \in DOMAIN f.signatures
      <4>1. CASE Signed(t)
        BY <3>3, <4>1, PayMoves DEF FilesFit
      <4>2. CASE ~Signed(t)
        <5>1. PICK j \in Job : SignJob(j, t)
          BY <3>3, <4>2, PayMoves
        <5>2. j.batch \in DOMAIN plan.rawTotals /\ pay'[t].job = j /\ pay'[t].epochId = plan.epochId
          BY <5>1 DEF SignJob, Current, InPlan, IInv, TypeOK
        <5>3. f = EpochFile
          BY <2>1, <3>3, <5>2
        <5>4. DOMAIN f.signatures = DOMAIN plan.rawTotals
          BY <5>3 DEF EpochFile
        <5> QED
          BY <5>2, <5>4
      <4> QED
        BY <4>1, <4>2
    <3> QED
      BY <2>1, <3>1, <3>2, <3>3
  <2> QED
    BY <2>2, <2>3
<1>3. CASE UNCHANGED epochFiles
  <2>1. PublicFilesTrue'
    BY <1>1, <1>3 DEF PublicFilesTrue
  <2>2. FilesFit'
    BY <1>2, <1>3 DEF FilesFit
  <2> QED
    BY <2>1, <2>2
<1>4. CASE PublishEpoch
  <2>1. /\ epochFiles' \subseteq epochFiles \cup {EpochFile}
        /\ plan' = plan /\ UNCHANGED <<pay, txVars, jobs>>
    BY <1>4 DEF PublishEpoch, chainVars
  <2>2. /\ EpochFile.epochId = plan.epochId /\ EpochFile.funded = plan.funded
        /\ DOMAIN EpochFile.signatures = DOMAIN plan.rawTotals
        /\ \A i \in DOMAIN plan.rawTotals : EpochFile.signatures[i] = jobs[Transfer(i)].signature
    BY DEF EpochFile
  <2>3. /\ \A i \in DOMAIN plan.rawTotals :
              /\ jobs[Transfer(i)].signature \in Signature
              /\ PaidBy(jobs[Transfer(i)].signature, plan.epochId, i)
        /\ PaidRaw(plan.epochId) = plan.funded
    BY <1>4, PublishedIsTrue
  <2>4. PaidRaw(plan.epochId)' = PaidRaw(plan.epochId)
    BY <2>1 DEF PaidRaw, Landed, txVars
  <2>5. ASSUME NEW i \in DOMAIN plan.rawTotals, NEW s, s = EpochFile.signatures[i]
        PROVE  s \in Signature /\ PaidBy(s, plan.epochId, i)'
    <3>1. s \in Signature /\ PaidBy(s, plan.epochId, i)
      BY <2>2, <2>3, <2>5
    <3> QED
      BY <2>1, <3>1 DEF PaidBy, Pays, Landed, Signed, Transfer, txVars
  <2>6. PublicFilesTrue'
    <3>1. ASSUME NEW f, f = EpochFile
          PROVE  /\ \A i \in DOMAIN f.signatures :
                      f.signatures[i] \in Signature /\ PaidBy(f.signatures[i], f.epochId, i)'
                 /\ PaidRaw(f.epochId)' = f.funded
      <4>1. /\ f.epochId = plan.epochId /\ f.funded = plan.funded
            /\ DOMAIN f.signatures = DOMAIN plan.rawTotals
        BY <2>2, <3>1
      <4>2. ASSUME NEW i \in DOMAIN f.signatures
            PROVE  f.signatures[i] \in Signature /\ PaidBy(f.signatures[i], f.epochId, i)'
        BY <2>1, <2>5, <3>1, <4>1, <4>2
      <4>3. PaidRaw(f.epochId)' = PaidRaw(plan.epochId)'
        BY <2>1, <4>1
      <4> QED
        BY <2>3, <2>4, <4>1, <4>2, <4>3
    <3> QED
      BY <1>1, <2>1, <3>1 DEF PublicFilesTrue
  <2>7. plan.epochId \in 1..plan.epochId
    <3>1. plan.epochId > 0
      BY <1>4 DEF PublishEpoch, PlansFit
    <3> QED
      BY <1>0, <3>1
  <2>8. EpochFile' = EpochFile /\ Complete'
    BY <1>4, <2>1 DEF PublishEpoch, EpochFile, Complete
  <2>9. \A t \in Signature :
          Signed(t)' /\ pay'[t].epochId = plan.epochId /\ pay'[t].job.kind = "transfer"
            => pay'[t].job.batch \in DOMAIN EpochFile.signatures
    BY <2>1, <2>2 DEF AttemptsFit, InPlan, Signed, txVars
  <2>10. FilesFit'
    BY <1>2, <2>1, <2>2, <2>7, <2>8, <2>9 DEF FilesFit
  <2> QED
    BY <2>6, <2>10
<1> QED
  BY <1>3, <1>4, FilesMove

-----------------------------------------------------------------------------
(***************************************************************************)
(* The public history.                                                     *)
(***************************************************************************)

\* A listed epoch has had a plan; the one being published has its file, and is
\* listed before the plan is closed.
HistoryFit ==
  /\ \E n \in Nat : DOMAIN history = 1..n
  /\ \A i \in DOMAIN history : history[i].epochId \in 1..plan.epochId
  /\ step = "published" => EpochFile \in epochFiles
  /\ step = "listed" => \E i \in DOMAIN history : history[i].epochId = plan.epochId

\* The smaller of two numbers.
LEMMA MinOfTwo ==
  ASSUME NEW a \in Int, NEW b \in Int
  PROVE  Min({a, b}) \in {a, b} /\ Min({a, b}) <= a /\ Min({a, b}) <= b
<1>1. \E m \in {a, b} : \A y \in {a, b} : m <= y
  <2>1. CASE a <= b
    BY <2>1
  <2>2. CASE b <= a
    BY <2>2
  <2> QED
    BY <2>1, <2>2
<1>2. Min({a, b}) \in {a, b} /\ \A y \in {a, b} : Min({a, b}) <= y
  BY <1>1 DEF Min
<1> QED
  BY <1>2

\* The new history begins with the plan's entry and goes on with entries of the old
\* one, in their order; an epoch within the limit is not dropped.
LEMMA NewHistoryLists ==
  ASSUME IInv, HistoryFit, HistoryFaithful
  PROVE  /\ \E n \in Nat \ {0} : DOMAIN NewHistory = 1..n
         /\ NewHistory[1] = HistoryEntry
         /\ \A i \in DOMAIN NewHistory : i # 1 =>
              \E k \in DOMAIN history :
                NewHistory[i] = history[k] /\ history[k].epochId # plan.epochId
         /\ \A i, k \in DOMAIN NewHistory :
              i < k => NewHistory[i].epochId > NewHistory[k].epochId
         /\ \A k \in DOMAIN history :
              history[k].epochId # plan.epochId /\ history[k].epochId > plan.epochId - HistoryLimit
                => \E i \in DOMAIN NewHistory : NewHistory[i] = history[k]
<1> DEFINE others == {i \in DOMAIN history : history[i].epochId # plan.epochId}
           m == Cardinality(others)
           place(i) == Cardinality({k \in others : k <= i})
           nth(n) == CHOOSE i \in others : place(i) = n
           last == Min({HistoryLimit, m + 1})
<1>1. plan.epochId \in Nat /\ HistoryLimit \in Nat \ {0}
  BY PipelineAssumption DEF IInv, TypeOK, Plan
<1>2. /\ others \subseteq DOMAIN history /\ DOMAIN history \subseteq Nat
      /\ IsFiniteSet(others)
  <2>1. PICK n \in Nat : DOMAIN history = 1..n
    BY DEF HistoryFit
  <2>2. IsFiniteSet(1..n)
    BY FS_Interval
  <2> QED
    BY <2>1, <2>2, FS_Subset
<1>3. m \in Nat
  BY <1>2, FS_CardinalityType
<1>4. \A k \in others : history[k].epochId \in Nat /\ history[k].epochId < plan.epochId
  BY <1>1, <1>2 DEF HistoryFit
<1>5. NewHistory = [n \in 1..last |-> IF n = 1 THEN HistoryEntry ELSE history[nth(n - 1)]]
  BY DEF NewHistory
<1> HIDE DEF others
<1>6. /\ \A n \in 1..m : \E e \in others : place(e) = n
      /\ \A e \in others : place(e) \in 1..m
      /\ \A d, e \in others : d < e => place(d) < place(e)
  <2>1. others \in SUBSET Int
    BY <1>2
  <2> QED
    BY <1>2, <2>1, Placed
<1>7. \A n \in 1..m : nth(n) \in others /\ place(nth(n)) = n
  <2> HIDE DEF place
  <2> QED
    BY <1>6
<1>8. last \in Nat \ {0} /\ last <= m + 1 /\ last <= HistoryLimit
      /\ last \in {HistoryLimit, m + 1}
  <2>1. HistoryLimit \in Int /\ m + 1 \in Int
    BY <1>1, <1>3
  <2> HIDE DEF m
  <2>2. /\ Min({HistoryLimit, m + 1}) \in {HistoryLimit, m + 1}
        /\ Min({HistoryLimit, m + 1}) <= HistoryLimit
        /\ Min({HistoryLimit, m + 1}) <= m + 1
    BY <2>1, MinOfTwo
  <2>3. last \in {HistoryLimit, m + 1} /\ last <= HistoryLimit /\ last <= m + 1
    BY <2>2
  <2> HIDE DEF last
  <2> QED
    BY <1>1, <1>3, <2>3
<1> HIDE DEF m, last, nth, place
<1>9. \A n \in 2..last : n - 1 \in 1..m /\ nth(n - 1) \in others /\ NewHistory[n] = history[nth(n - 1)]
  BY <1>3, <1>5, <1>7, <1>8
<1>10. DOMAIN NewHistory = 1..last /\ NewHistory[1] = HistoryEntry
  BY <1>5, <1>8
<1>11. \A d, e \in 1..m : d < e => nth(d) < nth(e)
  <2> SUFFICES ASSUME NEW d \in 1..m, NEW e \in 1..m, d < e, ~(nth(d) < nth(e)) PROVE FALSE
    OBVIOUS
  <2>1. /\ nth(d) \in others /\ place(nth(d)) = d
        /\ nth(e) \in others /\ place(nth(e)) = e
    BY <1>7
  <2>2. nth(d) \in Nat /\ nth(e) \in Nat
    BY <1>2, <2>1
  <2>3. nth(e) < nth(d) \/ nth(e) = nth(d)
    BY <2>2
  <2>4. place(nth(e)) < place(nth(d)) \/ e = d
    BY <1>6, <2>1, <2>3
  <2> QED
    BY <1>3, <2>1, <2>4
<1>12. ASSUME NEW i \in 1..last, NEW k \in 1..last, i < k
       PROVE  NewHistory[i].epochId > NewHistory[k].epochId
  <2>1. k \in 2..last
    BY <1>8, <1>12
  <2>2. NewHistory[k] = history[nth(k - 1)] /\ nth(k - 1) \in others /\ k - 1 \in 1..m
    BY <1>9, <2>1
  <2>3. CASE i = 1
    BY <1>1, <1>4, <1>10, <2>2, <2>3 DEF HistoryEntry
  <2>4. CASE i # 1
    <3>1. i \in 2..last
      BY <2>4
    <3>2. NewHistory[i] = history[nth(i - 1)] /\ nth(i - 1) \in others /\ i - 1 \in 1..m
      BY <1>9, <3>1
    <3>3. nth(i - 1) < nth(k - 1)
      BY <1>11, <1>12, <2>2, <3>2
    <3> QED
      BY <1>2, <2>2, <3>2, <3>3 DEF HistoryFaithful
  <2> QED
    BY <2>3, <2>4
<1>13. ASSUME NEW k \in others, history[k].epochId > plan.epochId - HistoryLimit
       PROVE  \E i \in 1..last : NewHistory[i] = history[k]
  <2> DEFINE upto == {i \in others : i <= k}
             size == plan.epochId - history[k].epochId
             f == [i \in upto |-> plan.epochId - history[i].epochId]
  <2>1. size \in Nat /\ size < HistoryLimit
    BY <1>1, <1>4, <1>13
  <2>2. \A i \in upto : history[i].epochId \in Nat /\ history[i].epochId < plan.epochId
                        /\ history[i].epochId >= history[k].epochId
    <3> SUFFICES ASSUME NEW i \in upto
                 PROVE  history[i].epochId >= history[k].epochId
      BY <1>4
    <3>1. i = k \/ i < k
      BY <1>2
    <3> QED
      BY <1>2, <1>4, <3>1 DEF HistoryFaithful
  <2>3. f \in [upto -> 1..size]
    <3>1. \A i \in upto : plan.epochId - history[i].epochId \in 1..size
      BY <1>1, <1>4, <2>2
    <3> QED
      BY <3>1
  <2>4. \A i, j \in upto : f[i] = f[j] => i = j
    <3> SUFFICES ASSUME NEW i \in upto, NEW j \in upto, f[i] = f[j], i # j PROVE FALSE
      OBVIOUS
    <3>1. history[i].epochId = history[j].epochId
      BY <1>1, <2>2
    <3>2. i < j \/ j < i
      BY <1>2
    <3> QED
      BY <1>2, <2>2, <3>1, <3>2 DEF HistoryFaithful
  <2>5. f \in Injection(upto, 1..size)
    <3> HIDE DEF f, upto
    <3> QED
      BY <2>3, <2>4 DEF Injection, IsInjective
  <2>6. IsFiniteSet(1..size) /\ Cardinality(1..size) = size
    BY <2>1, FS_Interval
  <2>7. place(k) <= size
    <3>1. Cardinality(upto) <= Cardinality(1..size)
      <4> HIDE DEF f, upto
      <4> QED
        BY <2>5, <2>6, FS_Injection
    <3> QED
      BY <2>6, <3>1 DEF place
  <2>8. place(k) \in 1..m
    BY <1>6
  <2>9. nth(place(k)) = k
    <3>1. nth(place(k)) \in others /\ place(nth(place(k))) = place(k)
      BY <1>7, <2>8
    <3>2. ~(nth(place(k)) < k) /\ ~(k < nth(place(k)))
      BY <1>3, <1>6, <2>8, <3>1
    <3> QED
      BY <1>2, <3>1, <3>2
  <2> DEFINE p == place(k) + 1
  <2>10. p \in 2..last /\ p - 1 = place(k)
    BY <1>1, <1>3, <1>8, <2>1, <2>7, <2>8
  <2> HIDE DEF p
  <2>11. NewHistory[p] = history[k] /\ p \in 1..last
    BY <1>8, <1>9, <2>9, <2>10
  <2> QED
    BY <2>11
<1>14. ASSUME NEW i \in 1..last, i # 1
       PROVE  \E k \in DOMAIN history :
                NewHistory[i] = history[k] /\ history[k].epochId # plan.epochId
  <2>1. i \in 2..last
    BY <1>14
  <2>2. NewHistory[i] = history[nth(i - 1)] /\ nth(i - 1) \in others
    BY <1>9, <2>1
  <2> QED
    BY <2>2 DEF others
<1>15. \A k \in DOMAIN history : history[k].epochId # plan.epochId => k \in others
  BY DEF others
<1> QED
  BY <1>8, <1>10, <1>12, <1>13, <1>14, <1>15

\* Every step keeps the history true.
LEMMA HistoryStep ==
  ASSUME IInv, PlansFit, AttemptsFit, FilesFit, HistoryFit, HistoryFaithful, [Next]_vars
  PROVE  HistoryFit' /\ HistoryFaithful'
<1> DEFINE Matches(entry, f) == /\ f.epochId = entry.epochId
                                /\ f.funded = entry.funded
                                /\ f.windowEnd = entry.windowEnd
<1>0. /\ plan.epochId \in Nat /\ plan'.epochId \in Nat /\ plan'.epochId >= plan.epochId
      /\ HistoryLimit \in Nat \ {0}
  <2>1. TypeOK /\ TypeOK'
    BY TypeKept DEF IInv
  <2>2. plan.epochId \in Nat /\ plan'.epochId \in Nat
    BY <2>1 DEF TypeOK, Plan
  <2>3. SavePrepared => plan'.epochId = plan.epochId + 1
    BY DEF SavePrepared, IInv, EpochsFit
  <2> QED
    BY <2>2, <2>3, PlanMoves, PipelineAssumption
\* What is over after the step was over before it, or is the plan being closed.
<1>1. ASSUME NEW e \in 1..plan'.epochId, IsOver(e)', e > plan'.epochId - HistoryLimit
      PROVE  /\ e \in 1..plan.epochId /\ e > plan.epochId - HistoryLimit
             /\ IsOver(e) \/ (ClosePlan /\ e = plan.epochId)
  <2>1. CASE SavePrepared
    <3>1. /\ plan'.epochId = plan.epochId + 1 /\ plan'.state = "active"
          /\ plan.state \in {"none", "finalized"}
      BY <2>1 DEF SavePrepared, IInv, EpochsFit, PlansFit, TypeOK, Plan
    <3>2. e < plan.epochId + 1
      BY <1>1, <3>1 DEF IsOver
    <3>3. plan.state = "none" => plan.epochId = 0
      BY DEF IInv, EpochsFit
    <3> QED
      BY <1>0, <1>1, <3>1, <3>2, <3>3 DEF IsOver
  <2>2. CASE plan'.epochId = plan.epochId /\ (plan'.state = plan.state \/ ClosePlan)
    BY <1>0, <1>1, <2>2 DEF IsOver
  <2> QED
    BY <2>1, <2>2, PlanMoves
<1>2. ASSUME NEW f \in epochFiles
      PROVE  \E g \in epochFiles' : /\ g.epochId = f.epochId /\ g.funded = f.funded
                                    /\ g.windowEnd = f.windowEnd
  <2>1. CASE UNCHANGED epochFiles
    BY <2>1
  <2>2. CASE PublishEpoch
    <3>1. epochFiles' = {g \in epochFiles : g.epochId # plan.epochId} \cup {EpochFile}
      BY <2>2 DEF PublishEpoch
    <3>2. f.epochId = plan.epochId => f = EpochFile
      BY DEF FilesFit
    <3> HIDE DEF EpochFile
    <3> QED
      BY <3>1, <3>2
  <2> QED
    BY <2>1, <2>2, FilesMove
<1>3. step' = "published" => EpochFile' \in epochFiles'
  <2>1. CASE PublishEpoch
    <3>1. EpochFile \in epochFiles' /\ UNCHANGED <<plan, jobs>>
      BY <2>1 DEF PublishEpoch
    <3> QED
      BY <3>1 DEF EpochFile
  <2>2. CASE ~PublishEpoch /\ step' = "published"
    <3>1. step = "published" /\ ~SavePrepared
      BY <2>2 DEF Next, World, Indexer, Control, Distribute, FinalizeEpoch, Tick, Fund, LandAta,
         LandTransfer, Fail, Advance, IndexerReads, IndexerWrites, IndexerStops, Prepare,
         SavePrepared, ConfirmJob, ExpireJob, Rebroadcast, SignJob, Broadcast, ListEpoch,
         ClosePlan, ControlStops, vars, memoryVars
    <3>2. Complete
      BY <3>1 DEF PlansFit
    <3>3. EpochFile' = EpochFile
      BY <3>1, <3>2, FileStays
    <3> QED
      BY <2>2, <3>1, <3>3, FilesMove DEF HistoryFit
  <2> QED
    BY <2>1, <2>2
<1>4. CASE ListEpoch
  <2>1. /\ history' = NewHistory /\ step = "published" /\ step' = "listed"
        /\ plan' = plan /\ UNCHANGED epochFiles
    BY <1>4 DEF ListEpoch
  <2>2. /\ \E n \in Nat \ {0} : DOMAIN history' = 1..n
        /\ history'[1] = HistoryEntry
        /\ \A i \in DOMAIN history' : i # 1 =>
             \E k \in DOMAIN history :
               history'[i] = history[k] /\ history[k].epochId # plan.epochId
        /\ \A i, k \in DOMAIN history' :
             i < k => history'[i].epochId > history'[k].epochId
        /\ \A k \in DOMAIN history :
             history[k].epochId # plan.epochId /\ history[k].epochId > plan.epochId - HistoryLimit
               => \E i \in DOMAIN history' : history'[i] = history[k]
    BY <2>1, NewHistoryLists
  <2>3. /\ HistoryEntry.epochId = plan.epochId /\ Matches(HistoryEntry, EpochFile)
        /\ EpochFile \in epochFiles
    BY <2>1 DEF HistoryFit, HistoryEntry, EpochFile
  <2>4. 1 \in DOMAIN history' /\ plan.epochId \in 1..plan.epochId
    <3>1. plan.epochId \in 1..plan.epochId
      BY <2>3 DEF FilesFit
    <3> QED
      BY <2>2, <3>1
  <2> HIDE DEF EpochFile, HistoryEntry
  <2>5. ASSUME NEW i \in DOMAIN history'
        PROVE  /\ history'[i].epochId \in 1..plan.epochId
               /\ \E f \in epochFiles : Matches(history'[i], f)
    <3>1. CASE i = 1
      BY <2>2, <2>3, <2>4, <3>1
    <3>2. CASE i # 1
      <4>1. PICK k \in DOMAIN history : history'[i] = history[k]
        BY <2>2, <3>2
      <4> QED
        BY <4>1 DEF HistoryFit, HistoryFaithful
    <3> QED
      BY <3>1, <3>2
  <2>6. ASSUME NEW e \in 1..plan'.epochId, IsOver(e)', e > plan'.epochId - HistoryLimit
        PROVE  \E i \in DOMAIN history' : history'[i].epochId = e
    <3>1. CASE e = plan.epochId
      BY <2>2, <2>3, <2>4, <3>1
    <3>2. CASE e # plan.epochId
      <4>1. e \in 1..plan.epochId /\ IsOver(e) /\ e > plan.epochId - HistoryLimit
        BY <1>1, <2>6, <3>2
      <4>2. PICK k \in DOMAIN history : history[k].epochId = e
        BY <4>1 DEF HistoryFaithful
      <4> QED
        BY <2>2, <3>2, <4>1, <4>2
    <3> QED
      BY <3>1, <3>2
  <2>7. HistoryFaithful'
    BY <2>1, <2>2, <2>5, <2>6 DEF HistoryFaithful
  <2>8. HistoryFit'
    BY <2>1, <2>2, <2>3, <2>4, <2>5 DEF HistoryFit
  <2> QED
    BY <2>7, <2>8
<1>5. CASE UNCHANGED history
  <2>1. \A i \in DOMAIN history : history[i].epochId \in 1..plan'.epochId
    BY <1>0 DEF HistoryFit
  <2>2. \A i \in DOMAIN history : \E f \in epochFiles' : Matches(history[i], f)
    BY <1>2 DEF HistoryFaithful
  <2>3. ASSUME step' = "listed", ~ListEpoch
        PROVE  step = "listed" /\ plan'.epochId = plan.epochId
    <3>1. step = "listed" /\ ~SavePrepared
      BY <2>3 DEF Next, World, Indexer, Control, Distribute, FinalizeEpoch, Tick, Fund, LandAta,
         LandTransfer, Fail, Advance, IndexerReads, IndexerWrites, IndexerStops, Prepare,
         SavePrepared, ConfirmJob, ExpireJob, Rebroadcast, SignJob, Broadcast, PublishEpoch,
         ClosePlan, ControlStops, vars, memoryVars
    <3> QED
      BY <3>1, PlanMoves
  <2>4. ASSUME NEW e \in 1..plan'.epochId, IsOver(e)', e > plan'.epochId - HistoryLimit
        PROVE  \E i \in DOMAIN history : history[i].epochId = e
    <3>1. e \in 1..plan.epochId /\ e > plan.epochId - HistoryLimit
      BY <1>1, <2>4
    <3>2. CASE IsOver(e)
      BY <3>1, <3>2 DEF HistoryFaithful
    <3>3. CASE ClosePlan /\ e = plan.epochId
      BY <3>3 DEF ClosePlan, HistoryFit
    <3> QED
      BY <1>1, <2>4, <3>2, <3>3
  <2>5. HistoryFaithful'
    BY <1>5, <2>2, <2>4 DEF HistoryFaithful
  <2>6. ~ListEpoch => HistoryFit'
    BY <1>3, <1>5, <2>1, <2>3 DEF HistoryFit
  <2> QED
    BY <1>4, <2>5, <2>6
<1> QED
  BY <1>4, <1>5, FilesMove

-----------------------------------------------------------------------------
(***************************************************************************)
(* The promise to holders.                                                 *)
(***************************************************************************)

\* Between plans every share has been paid.
LEMMA AllPaid ==
  ASSUME IInv, PlansFit, plan.state # "active"
  PROVE  Unpaid = {}
<1>1. CASE plan.state = "none"
  BY <1>1 DEF Unpaid, PlansFit
<1>2. CASE plan.state # "none"
  <2>1. Complete
    BY <1>2 DEF PlansFit, IInv, TypeOK, Plan
  <2>2. ASSUME NEW i \in DOMAIN plan.rawTotals
        PROVE  \E t \in Signature : PaidBy(t, plan.epochId, i)
    <3>1. Transfer(i) \in Job /\ jobs[Transfer(i)].state = "confirmed"
      BY <2>1, TransferJobs DEF Complete, IInv
    <3> QED
      BY <3>1 DEF IInv, JobsFit, PaidBy
  <2> QED
    BY <2>2 DEF Unpaid
<1> QED
  BY <1>1, <1>2

\* Saving a plan opens an epoch.
LEMMA SavingOpens ==
  ASSUME IInv, PlansFit, SavePrepared
  PROVE  Payout!Open
<1> DEFINE S == DOMAIN draft.rawTotals
           g == [i \in S |-> [id |-> <<draft.epochId, i>>, amount |-> draft.rawTotals[i]]]
           shares == {g[i] : i \in S}
           h == [share \in shares |-> share.amount]
<1>1. /\ plan' = draft /\ draft.epochId = plan.epochId + 1
      /\ plan.state # "active" /\ Divides(draft)
      /\ draft.windowStart = plan.windowEnd /\ draft.funded <= inventory
      /\ UNCHANGED <<pay, tx, inventory>> /\ plan.epochId \in Nat
      /\ draft.rawTotals \in Seq(Nat)
  BY DEF SavePrepared, PlansFit, IInv, EpochsFit, TypeOK, Plan, chainVars, txVars
<1>2. Unpaid = {}
  BY <1>1, AllPaid
<1>3. \A t \in Signature : Signed(t)' => pay'[t].epochId # plan'.epochId
  <2>1. \A t \in Signature : Signed(t) => pay[t].epochId <= plan.epochId /\ pay[t].epochId \in Nat
    BY DEF IInv, EpochsFit, TypeOK, Payment
  <2> QED
    BY <1>1, <2>1 DEF Signed, txVars
<1>4. Unpaid' = shares
  <2>1. Unpaid' = {[id |-> <<plan'.epochId, i>>, amount |-> plan'.rawTotals[i]] :
                     i \in DOMAIN plan'.rawTotals}
    BY <1>3 DEF Unpaid, PaidBy, Pays
  <2> QED
    BY <1>1, <2>1
<1>5. IsFiniteSet(S) /\ S # {} /\ \A i \in S : draft.rawTotals[i] \in Nat /\ draft.rawTotals[i] > 0
  <2>1. S = 1..Len(draft.rawTotals) /\ Len(draft.rawTotals) \in Nat
    BY <1>1
  <2>2. IsFiniteSet(1..Len(draft.rawTotals))
    BY <2>1, FS_Interval
  <2> QED
    BY <1>1, <2>1, <2>2, ElementsOf DEF Divides
<1>6. shares # {} /\ \A share \in shares : share.amount > 0
  <2>1. \A i \in S : g[i].amount > 0
    BY <1>5
  <2> HIDE DEF g
  <2> QED
    BY <1>5, <2>1
<1>7. SumFunction(h) = Total(draft.rawTotals)
  <2>1. \A i \in S : draft.rawTotals[i] \in Int /\ h[g[i]] = draft.rawTotals[i]
    <3>1. \A i \in S : draft.rawTotals[i] \in Int /\ g[i].amount = draft.rawTotals[i]
      BY <1>5
    <3> HIDE DEF g
    <3> QED
      BY <3>1
  <2>2. \A i, k \in S : g[i] = g[k] => i = k
    OBVIOUS
  <2>3. DOMAIN h = shares
    OBVIOUS
  <2> HIDE DEF S, g, h
  <2>4. SumFunctionOnSet(h, {g[i] : i \in S}) = SumFunctionOnSet(draft.rawTotals, S)
    BY <1>5, <2>1, <2>2, SumReindex
  <2>5. SumFunction(h) = SumFunctionOnSet(h, shares)
    BY <2>3 DEF SumFunction
  <2>6. Total(draft.rawTotals) = SumFunctionOnSet(draft.rawTotals, S)
    BY DEF Total, SumFunction, S
  <2> QED
    BY <2>4, <2>5, <2>6
<1>8. Payout!Owed(Unpaid') = SumFunction(h)
  BY <1>4 DEF Payout!Owed, Payout!SumFunction, SumFunction, Payout!SumFunctionOnSet,
     SumFunctionOnSet, Payout!FoldFunctionOnSet, FoldFunctionOnSet, Payout!FoldFunction,
     FoldFunction, Payout!MapThenFoldSet, MapThenFoldSet
<1>9. plan'.windowEnd > plan'.windowStart
  BY <1>1 DEF Divides
<1> HIDE DEF shares, h
<1>10. Payout!Owed(Unpaid') <= inventory
  BY <1>1, <1>7, <1>8 DEF Divides
<1> QED
  BY <1>1, <1>2, <1>4, <1>6, <1>9, <1>10 DEF Payout!Open

\* A transfer that lands pays one share of the plan.
LEMMA LandingPays ==
  ASSUME IInv, AttemptsFit, NEW t \in Signature, LandTransfer(t)
  PROVE  Payout!Pay
<1> DEFINE b == pay[t].job.batch
           share == [id |-> <<plan.epochId, b>>, amount |-> plan.rawTotals[b]]
<1>1. /\ Signed(t) /\ ~Dead(t) /\ ~Landed(t) /\ Landed(t)' /\ pay[t].job \in Job
      /\ pay[t].epochId \in Nat /\ plan.epochId \in Nat /\ pay[t].epochId <= plan.epochId
      /\ pay[t].job.kind = "transfer"
      /\ UNCHANGED <<plan, pay>> /\ inventory' = inventory - pay[t].amount
      /\ Signed(t)' /\ \A s \in Signature \ {t} : tx'[s] = tx[s]
  <2>1. tx[t].status = "sent" /\ tx[t].window = "open" /\ tx' = [tx EXCEPT ![t].status = "landed"]
    BY DEF LandTransfer, LandTx, Landable
  <2>2. tx'[t].status = "landed" /\ \A s \in Signature \ {t} : tx'[s] = tx[s]
    BY <2>1 DEF IInv, TypeOK, TxTypeOK, Transaction
  <2> QED
    BY <2>1, <2>2 DEF LandTransfer, Signed, Dead, Landed, IInv, TypeOK, Payment, Plan, EpochsFit,
       fileVars
<1>2. pay[t].epochId = plan.epochId /\ pay[t].job = Transfer(b)
      /\ b \in DOMAIN plan.rawTotals /\ pay[t].amount = plan.rawTotals[b]
  <2>1. pay[t].epochId = plan.epochId
    BY <1>1 DEF AttemptsFit
  <2>2. pay[t].job = Transfer(b)
    BY <1>1, TransferJobs DEF IInv
  <2> QED
    BY <1>1, <2>1, <2>2 DEF AttemptsFit, InPlan, AmountOf
<1>3. \A s \in Signature : ~PaidBy(s, plan.epochId, b)
  <2> SUFFICES ASSUME NEW s \in Signature, PaidBy(s, plan.epochId, b) PROVE FALSE
    OBVIOUS
  <2>1. Signed(s) /\ pay[s].epochId = pay[t].epochId /\ pay[s].job = pay[t].job /\ Landed(s)
    BY <1>2 DEF PaidBy, Pays
  <2>2. s = t \/ Dead(s) \/ Dead(t)
    BY <1>1, <2>1 DEF IInv, SoleAttempt
  <2> QED
    BY <1>1, <2>1, <2>2 DEF Dead, Landed
<1>4. \A s \in Signature, i \in DOMAIN plan.rawTotals :
        PaidBy(s, plan.epochId, i)' <=> PaidBy(s, plan.epochId, i) \/ (s = t /\ i = b)
  BY <1>1, <1>2 DEF PaidBy, Pays, Signed, Landed, Transfer
<1>5. share \in Unpaid
  BY <1>2, <1>3 DEF Unpaid
<1>6. Unpaid' = Unpaid \ {share}
  <2> DEFINE open == {i \in DOMAIN plan.rawTotals : \A s \in Signature : ~PaidBy(s, plan.epochId, i)}
             rest == {i \in DOMAIN plan.rawTotals : \A s \in Signature : ~PaidBy(s, plan.epochId, i)'}
             entry(i) == [id |-> <<plan.epochId, i>>, amount |-> plan.rawTotals[i]]
  <2>1. rest = open \ {b}
    BY <1>2, <1>3, <1>4
  <2>2. Unpaid' = {entry(i) : i \in rest} /\ Unpaid = {entry(i) : i \in open}
    BY <1>1 DEF Unpaid
  <2>3. \A i, k : entry(i) = entry(k) => i = k
    OBVIOUS
  <2>4. share = entry(b)
    OBVIOUS
  <2> HIDE DEF open, rest, entry, share
  <2> QED
    BY <2>1, <2>2, <2>3, <2>4
<1>7. inventory' = inventory - share.amount
  BY <1>1, <1>2
<1> HIDE DEF share
<1> QED
  BY <1>1, <1>5, <1>6, <1>7 DEF Payout!Pay

\* No other step lands a transfer.
LEMMA LandsByLanding ==
  ASSUME IInv, [Next]_vars, NEW t \in Signature, Landed(t)', ~Landed(t)
  PROVE  (LandAta(t) \/ LandTransfer(t)) /\ pay'[t] = pay[t]
<1>1. ASSUME NEW s \in Signature, Lives(s) PROVE LandTx(t)
  <2>1. s = t
    BY <1>1, Living DEF IInv, TypeOK, Landed
  <2> QED
    BY <1>1, <2>1 DEF Lives, SubmitTx, FailTx, Finalize, CloseWindow, PassMargin, Landed, IInv,
       TypeOK, TxTypeOK, Transaction
<1>2. ~ \E j \in Job, s \in Signature : SignJob(j, s)
  <2> SUFFICES ASSUME NEW j \in Job, NEW s \in Signature, SignJob(j, s) PROVE FALSE
    OBVIOUS
  <2>1. ~Landed(s)' /\ \A r \in Signature \ {s} : tx'[r] = tx[r]
    BY Signing DEF SignJob, IInv, TypeOK
  <2> QED
    BY <2>1 DEF Landed
<1>3. ASSUME NEW s \in Signature, SubmitTx(s) PROVE FALSE
  <2>1. s = t
    BY <1>3, Living DEF IInv, TypeOK, Landed, Lives
  <2> QED
    BY <1>3, <2>1 DEF SubmitTx, Landed, IInv, TypeOK, TxTypeOK, Transaction
<1>4. ~UNCHANGED tx
  BY DEF Landed
<1>5. ASSUME NEW j \in Job, Rebroadcast(j) PROVE FALSE
  BY <1>3, <1>5 DEF Rebroadcast, Submitted, IInv, JobsFit
<1>6. ~Broadcast
  BY <1>3 DEF Broadcast, IInv, SendingFits
<1>7. \E s \in Signature : LandAta(s) \/ LandTransfer(s) \/ Fail(s) \/ Advance(s)
  BY <1>2, <1>4, <1>5, <1>6 DEF Next, World, Indexer, Control, Distribute, FinalizeEpoch, Tick, Fund,
     IndexerReads, IndexerWrites, IndexerStops, Prepare, SavePrepared, ConfirmJob, ExpireJob,
     PublishEpoch, ListEpoch, ClosePlan, ControlStops, vars, chainVars, txVars
<1>8. PICK s \in Signature : LandAta(s) \/ LandTransfer(s) \/ Fail(s) \/ Advance(s)
  BY <1>7
<1>9. s = t
  BY <1>8, Living DEF LandAta, LandTransfer, Fail, Advance, Lives, IInv, TypeOK, Landed
<1> QED
  BY <1>8, <1>9 DEF LandAta, LandTransfer, Fail, Advance, FailTx, Finalize, CloseWindow, PassMargin,
     Landed, IInv, TypeOK, TxTypeOK, Transaction

\* Other steps leave the shares alone.
LEMMA OthersKeepShares ==
  ASSUME IInv, [Next]_vars, ~SavePrepared, \A t \in Signature : ~LandTransfer(t)
  PROVE  Unpaid' = Unpaid
<1>1. plan'.epochId = plan.epochId /\ plan'.rawTotals = plan.rawTotals
  BY PlanMoves
<1>2. \A t \in Signature, i \in DOMAIN plan.rawTotals :
        PaidBy(t, plan.epochId, i)' <=> PaidBy(t, plan.epochId, i)
  <2> SUFFICES ASSUME NEW t \in Signature, NEW i \in DOMAIN plan.rawTotals
               PROVE  PaidBy(t, plan.epochId, i)' <=> PaidBy(t, plan.epochId, i)
    OBVIOUS
  <2>1. CASE Landed(t)
    <3>1. Signed(t) /\ Signed(t)' /\ Landed(t)' /\ pay'[t] = pay[t]
      BY <2>1, PayMoves DEF Signed, Landed
    <3> QED
      BY <1>1, <2>1, <3>1 DEF PaidBy, Pays, Transfer
  <2>2. CASE ~Landed(t) /\ Landed(t)'
    <3>1. pay'[t].job.kind = "ata"
      BY <2>2, LandsByLanding DEF LandAta
    <3> QED
      BY <2>2, <3>1 DEF PaidBy, Pays, Transfer
  <2>3. CASE ~Landed(t) /\ ~Landed(t)'
    BY <2>3 DEF PaidBy
  <2> QED
    BY <2>1, <2>2, <2>3
<1> QED
  BY <1>1, <1>2 DEF Unpaid

\* Every step keeps the promise or stutters.
LEMMA PayoutStep ==
  ASSUME IInv, PlansFit, AttemptsFit, [Next]_vars
  PROVE  [Payout!Next]_(Payout!payoutVars)
<1>1. CASE SavePrepared
  BY <1>1, SavingOpens DEF Payout!Next
<1>2. ASSUME NEW t \in Signature, LandTransfer(t)
      PROVE  Payout!Next
  BY <1>2, LandingPays DEF Payout!Next
<1>3. CASE ~SavePrepared /\ \A t \in Signature : ~LandTransfer(t)
  <2>1. Unpaid' = Unpaid
    BY <1>3, OthersKeepShares
  <2>2. /\ plan'.epochId = plan.epochId /\ plan'.windowStart = plan.windowStart
        /\ plan'.windowEnd = plan.windowEnd
    BY <1>3, PlanMoves
  <2>3. UNCHANGED inventory \/ \E a \in Amount : Fund(a)
    BY <1>3 DEF Next, World, Indexer, Control, Distribute, FinalizeEpoch, Tick, LandAta,
       Fail, Advance, IndexerReads, IndexerWrites, IndexerStops, Prepare, SavePrepared,
       ConfirmJob, ExpireJob, Rebroadcast, SignJob, Broadcast, PublishEpoch, ListEpoch, ClosePlan,
       ControlStops, vars, chainVars
  <2>4. ASSUME NEW a \in Amount, Fund(a)
        PROVE  inventory' \in Nat /\ inventory' > inventory
    <3>1. a \in Nat \ {0} /\ inventory \in Nat
      BY PipelineAssumption DEF IInv, TypeOK
    <3> QED
      BY <2>4, <3>1 DEF Fund
  <2> QED
    BY <2>1, <2>2, <2>3, <2>4 DEF Payout!Next, Payout!Fund, Payout!payoutVars
<1> QED
  BY <1>1, <1>2, <1>3

-----------------------------------------------------------------------------
\* What every reachable state of the pipeline satisfies.
PipelineInv ==
  /\ IInv
  /\ PlansFit
  /\ AttemptsFit
  /\ FilesFit
  /\ PublicFilesTrue
  /\ HistoryFit
  /\ HistoryFaithful

\* The pipeline invariant holds in every reachable state.
THEOREM PipelineInvariance == Spec => []PipelineInv
<1>1. Init => PipelineInv
  <2> SUFFICES ASSUME Init PROVE PipelineInv
    OBVIOUS
  <2>1. \A t \in Signature : ~Signed(t)
    BY InitialTransactions DEF Init
  <2>2. IInv
    BY InvInit
  <2>3. PlansFit
    BY DEF Init, PlansFit, NoPlan, NoJournal
  <2>4. AttemptsFit
    <3>1. {t \in Signature : Signed(t)} = {}
      BY <2>1
    <3> QED
      BY <2>1, <3>1, FS_EmptySet DEF AttemptsFit
  <2>5. FilesFit /\ PublicFilesTrue
    BY DEF Init, FilesFit, PublicFilesTrue
  <2>6. DOMAIN history = 1..0 /\ plan.epochId = 0 /\ step = "idle"
    BY DEF Init, NoPlan
  <2>7. HistoryFit /\ HistoryFaithful
    BY <2>6 DEF HistoryFit, HistoryFaithful
  <2> QED
    BY <2>2, <2>3, <2>4, <2>5, <2>7 DEF PipelineInv
<1>2. PipelineInv /\ [Next]_vars => PipelineInv'
  BY InvStep, PlansStep, AttemptsStep, FilesStep, HistoryStep DEF PipelineInv
<1> QED
  BY <1>1, <1>2, PTL DEF Spec

\* Every public epoch file names transactions that landed, and they add up.
THEOREM PublicFilesTrueHolds == Spec => []PublicFilesTrue
<1>1. PipelineInv => PublicFilesTrue
  BY DEF PipelineInv
<1> QED
  BY <1>1, PipelineInvariance, PTL

\* The public history is in order, true to the files, and complete within its limit.
THEOREM HistoryFaithfulHolds == Spec => []HistoryFaithful
<1>1. PipelineInv => HistoryFaithful
  BY DEF PipelineInv
<1> QED
  BY <1>1, PipelineInvariance, PTL

\* The pipeline implements the promise to holders.
THEOREM KeepsPayoutHolds == Spec => KeepsPayout
<1>1. Init => Payout!Init
  BY DEF Init, Payout!Init, NoPlan, Unpaid
<1>2. PipelineInv /\ [Next]_vars => [Payout!Next]_(Payout!payoutVars)
  BY PayoutStep DEF PipelineInv
<1> QED
  BY <1>1, <1>2, PipelineInvariance, PTL DEF Spec, KeepsPayout, Payout!Spec

=============================================================================
