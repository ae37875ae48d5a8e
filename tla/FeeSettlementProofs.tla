------------------------ MODULE FeeSettlementProofs ------------------------
(***************************************************************************)
(* Proofs about FeeSettlement for every set of signatures and providers,   *)
(* with at least one honest provider.                                      *)
(*                                                                         *)
(* None of the properties is inductive alone.  What the steps preserve is  *)
(* that a transaction the ledger has let go of is Dead: its window is      *)
(* past, so it can no longer land.  A receipt then has at most one payout  *)
(* that is not Dead (SolePayout), and its state says which one that is.    *)
(* The money follows: a transfer that can still land pays out the one      *)
(* receipt that is held (PayoutIsHeld), so what is left of the creator     *)
(* account is the unrelated MSTRx (MoneyFit), and every step is one of     *)
(* FeeCustody, or none (MoneyStep).                                        *)
(***************************************************************************)
EXTENDS FeeSettlement, TLAPS

-----------------------------------------------------------------------------
(***************************************************************************)
(* Signed transactions: what the verdicts of the providers mean, and what a *)
(* transaction's life may change.                                          *)
(***************************************************************************)
\* t can no longer land.
Dead(t) == tx[t].window = "past" /\ tx[t].status \in {"signed", "sent"}

\* What happens to a transaction once it is signed.
Lives(t) ==
  \/ SubmitTx(t) \/ LandTx(t) \/ FailTx(t)
  \/ Finalize(t) \/ CloseWindow(t) \/ PassMargin(t)

\* A transaction two providers agree has expired, one of them honest, is dead:
\* pendingTransaction's verdict is final.
LEMMA ExpiryIsFinal ==
  ASSUME NEW t \in Signature, TxTypeOK, Signed(t), AgreedExpired(t)
  PROVE  Dead(t)
  BY TransactionsAssumption
     DEF TxTypeOK, Transaction, Signed, AgreedExpired, ReportsExpired, Dead

\* A transaction the providers agree is finalized has landed for good.
LEMMA FinalityIsLanding ==
  ASSUME NEW t \in Signature, TxTypeOK, AgreedFinalized(t)
  PROVE  Landed(t) /\ tx[t].commitment = "finalized"
  BY TransactionsAssumption DEF AgreedFinalized, ReturnsFinalized

LEMMA InitialTransactions ==
  ASSUME TxInit
  PROVE  TxTypeOK /\ \A s \in Signature : ~Signed(s) /\ ~Landed(s) /\ ~Dead(s)
  BY DEF TxInit, TxTypeOK, Transaction, Unsigned, Signed, Landed, Dead

\* Signing touches one new transaction, which has not landed and is not dead.
LEMMA Signing ==
  ASSUME NEW t \in Signature, TxTypeOK, SignTx(t)
  PROVE  /\ TxTypeOK'
         /\ ~Signed(t) /\ Signed(t)'
         /\ ~Landed(t) /\ ~Dead(t) /\ ~Landed(t)'
         /\ \A s \in Signature \ {t} : tx'[s] = tx[s]
<1>1. tx[t] \in Transaction
  BY DEF TxTypeOK
<1>2. [tx[t] EXCEPT !.status = "signed"] \in Transaction
  BY <1>1 DEF Transaction
<1>3. tx' = [tx EXCEPT ![t] = [tx[t] EXCEPT !.status = "signed"]]
  BY <1>1 DEF SignTx, TxTypeOK
<1>4. tx'[t].status = "signed"
  BY <1>1, <1>3 DEF TxTypeOK, Transaction
<1> QED BY <1>1, <1>2, <1>3, <1>4 DEF SignTx, TxTypeOK, Signed, Landed, Dead

\* A signed transaction's life keeps the types; it is signed for good, and what
\* is dead, landed, or another transaction stays as it was.
LEMMA Living ==
  ASSUME NEW t \in Signature, TxTypeOK, Lives(t)
  PROVE  /\ TxTypeOK'
         /\ \A s \in Signature \ {t} : tx'[s] = tx[s]
         /\ Signed(t)' <=> Signed(t)
         /\ Dead(t) => Dead(t)'
         /\ Landed(t) => Landed(t)'
<1> USE DEF TxTypeOK, Transaction, Signed, Dead, Landed
<1>1. CASE SubmitTx(t)
  BY <1>1 DEF SubmitTx
<1>2. CASE LandTx(t)
  BY <1>2 DEF LandTx, Landable
<1>3. CASE FailTx(t)
  BY <1>3 DEF FailTx, Landable
<1>4. CASE Finalize(t)
  BY <1>4 DEF Finalize
<1>5. CASE CloseWindow(t)
  BY <1>5 DEF CloseWindow
<1>6. CASE PassMargin(t)
  BY <1>6 DEF PassMargin
<1> QED BY <1>1, <1>2, <1>3, <1>4, <1>5, <1>6 DEF Lives

-----------------------------------------------------------------------------

Collected(r) == ledger[r].state \in {"collected", "routing", "routed", "recovered"}

\* The ledger lists exactly the signed collections, and what each transaction
\* pays out is a receipt that has been collected, in the collected amount.
TransactionsFit ==
  \A t \in Signature :
    /\ pay[t].kind = "collection" <=> ledger[t].state # "absent"
    /\ pay[t].kind = "none" <=> ~Signed(t)
    /\ pay[t].kind \in {"none", "collection"} => pay[t].receipts = {}
    /\ \A r \in pay[t].receipts : Collected(r) /\ pay[t].amount = ledger[r].collectedRaw
    /\ pay[t].kind \in {"route", "recovery"} => \E r \in Signature : pay[t].receipts = {r}

ReceiptsFit ==
  \A r \in Signature :
    /\ Collected(r) => Landed(r) /\ pay[r].amount = ledger[r].collectedRaw
    /\ ledger[r].state = "expired" => Dead(r)
    /\ ledger[r].state \in {"routing", "routed"} =>
         /\ ledger[r].route \in Signature
         /\ pay[ledger[r].route].kind = "route"
         /\ pay[ledger[r].route].receipts = {r}
    /\ ledger[r].state = "routed" => Landed(ledger[r].route)
    /\ ledger[r].state = "recovered" =>
         SameWallet \/ \E t \in Payouts(r) : pay[t].kind = "recovery" /\ Landed(t)

RecoveryFits ==
  RecoveryPending =>
    /\ recovery.transaction \in Signature
    /\ pay[recovery.transaction].kind = "recovery"
    /\ pay[recovery.transaction].receipts = recovery.receiptSignatures
    /\ \A r \in recovery.receiptSignatures : ledger[r].state = "collected"

SolePayout ==
  \A r \in Signature :
    /\ \A s, t \in Payouts(r) : s = t \/ Dead(s) \/ Dead(t)
    /\ ledger[r].state = "collected" =>
         \A t \in Payouts(r) : Dead(t) \/ (RecoveryPending /\ recovery.transaction = t)
    /\ ledger[r].state \in {"routing", "routed"} =>
         \A t \in Payouts(r) : Dead(t) \/ ledger[r].route = t
    /\ ledger[r].state = "recovered" =>
         \A t \in Payouts(r) : Dead(t) \/ pay[t].kind = "recovery"

IInv ==
  /\ TypeOK
  /\ OneOpenReceipt
  /\ TransactionsFit
  /\ ReceiptsFit
  /\ RecoveryFits
  /\ SolePayout

-----------------------------------------------------------------------------
\* The split of splitMstrx60_40 conserves the receipt, in whole raw units.
LEMMA SplitConserved ==
  ASSUME NEW raw \in Nat
  PROVE  /\ HolderRaw(raw) \in Nat
         /\ ReserveRaw(raw) \in Nat
         /\ HolderRaw(raw) + ReserveRaw(raw) = raw
  BY DEF HolderRaw, ReserveRaw, HOLDER_REWARD_BPS, BASIS_POINTS

\* What prepareSignedTransaction adds to the chain's state.
SignedWell ==
  /\ pay' \in [Signature -> Payment]
  /\ TxTypeOK'
  /\ UNCHANGED moneyVars

LEMMA SignType ==
  ASSUME TypeOK, NEW t \in Signature, NEW kind \in {"collection", "route", "recovery"},
         NEW receipts \in SUBSET Signature, NEW amount \in Nat,
         Sign(t, kind, receipts, amount)
  PROVE  SignedWell
<1> DEFINE new == [kind |-> kind, receipts |-> receipts, amount |-> amount]
<1>1. new \in Payment /\ pay' = [pay EXCEPT ![t] = new]
  BY DEF Sign, Payment
<1>2. TxTypeOK'
  BY Signing DEF Sign, TypeOK
<1> QED BY <1>1, <1>2 DEF Sign, SignedWell, TypeOK

-----------------------------------------------------------------------------
\* Every variable keeps its type.
THEOREM TypeCorrect == Spec => []TypeOK
<1>1. Init => TypeOK
  BY InitialTransactions
     DEF Init, TypeOK, Receipt, NoReceipt, Recovery, NoRecovery, Payment, NoPayment, Wallet
<1>2. TypeOK /\ [Next]_vars => TypeOK'
  <2> SUFFICES ASSUME TypeOK, [Next]_vars
               PROVE  TypeOK'
    OBVIOUS
  <2> USE ConstantsAssumption DEF TypeOK, moneyVars
  <2>0. UNCHANGED txVars => TxTypeOK'
    BY DEF TxTypeOK, txVars
  <2>1. ASSUME NEW a \in Amount, AccrueFees(a) \/ DepositForeign(a) \/ OwnerSpends(a)
        PROVE  TypeOK'
    BY <2>0, <2>1 DEF AccrueFees, DepositForeign, OwnerSpends, Wallet
  <2>2. CASE OutsiderCollects
    BY <2>0, <2>2 DEF OutsiderCollects, Wallet
  <2>3. ASSUME NEW t \in Signature, LandCollection(t)
        PROVE  TypeOK'
    <3>1. pay' \in [Signature -> Payment]
      BY <2>3 DEF LandCollection, Payment
    <3>2. balance' \in [Wallet -> Nat]
      BY <2>3 DEF LandCollection, Wallet
    <3>3. TxTypeOK'
      BY <2>3, Living DEF LandCollection, Lives
    <3> QED BY <2>3, <3>1, <3>2, <3>3 DEF LandCollection
  <2>4. ASSUME NEW t \in Signature, LandRoute(t)
        PROVE  TypeOK'
    <3>1. pay[t].amount \in Nat
      BY DEF Payment
    <3>2. HolderRaw(pay[t].amount) \in Nat /\ ReserveRaw(pay[t].amount) \in Nat
      BY <3>1, SplitConserved
    <3>3. TxTypeOK'
      BY <2>4, Living DEF LandRoute, Lives
    <3> QED BY <2>4, <3>1, <3>2, <3>3 DEF LandRoute, Wallet
  <2>5. ASSUME NEW t \in Signature, LandRecovery(t)
        PROVE  TypeOK'
    <3>1. pay[t].amount \in Nat
      BY DEF Payment
    <3>2. TxTypeOK'
      BY <2>5, Living DEF LandRecovery, Lives
    <3> QED BY <2>5, <3>1, <3>2 DEF LandRecovery, Wallet
  <2>6. ASSUME NEW t \in Signature, Fail(t) \/ Advance(t)
        PROVE  TypeOK'
    BY <2>6, Living DEF Fail, Advance, Lives
  <2>7. ASSUME NEW t \in Signature, Sweep(t)
        PROVE  TypeOK'
    <3>1. ledger' \in [Signature -> Receipt]
      BY <2>7 DEF Sweep, Receipt
    <3>2. SignedWell
      BY <2>7, SignType DEF Sweep
    <3> QED BY <2>7, <3>1, <3>2 DEF Sweep, SignedWell
  <2>8. ASSUME NEW r \in Signature, Settle(r)
        PROVE  TypeOK'
    <3>1. CASE CollectionFinalized(r)
      <4>1. pay[r].amount \in Nat
        BY DEF Payment
      <4>2. ledger' \in [Signature -> Receipt]
        BY <3>1, <4>1 DEF CollectionFinalized, Receipt
      <4> QED BY <2>0, <3>1, <4>2 DEF CollectionFinalized, chainVars
    <3>2. CASE CollectionExpired(r)
      BY <2>0, <3>2 DEF CollectionExpired, chainVars, Receipt
    <3>3. CASE RouteFinalized(r)
      BY <2>0, <3>3 DEF RouteFinalized, chainVars, Receipt
    <3>4. CASE RouteExpired(r)
      BY <2>0, <3>4 DEF RouteExpired, chainVars, Receipt
    <3> QED BY <2>8, <3>1, <3>2, <3>3, <3>4 DEF Settle
  <2>9. ASSUME NEW r \in Signature, NEW t \in Signature, RouteReceipt(r, t)
        PROVE  TypeOK'
    <3>1. ledger[r].collectedRaw \in Nat
      BY DEF Receipt
    <3>2. ledger' \in [Signature -> Receipt]
      BY <2>9 DEF RouteReceipt, Receipt
    <3>3. SignedWell
      BY <2>9, <3>1, SignType DEF RouteReceipt
    <3> QED BY <2>9, <3>2, <3>3 DEF RouteReceipt, SignedWell
  <2>10. ASSUME NEW r \in Signature, NEW t \in Signature, SubmitRecovery(r, t)
         PROVE  TypeOK'
    <3>1. RecoverableAmount(r) \in Nat /\ Recoverable \in SUBSET Signature
      BY DEF Receipt, RecoverableAmount, Recoverable, InState
    <3>2. recovery' \in Recovery
      BY <2>10, <3>1 DEF SubmitRecovery, Recovery
    <3>3. SignedWell
      BY <2>10, <3>1, SignType DEF SubmitRecovery
    <3> QED BY <2>10, <3>2, <3>3 DEF SubmitRecovery, SignedWell
  <2>11. ASSUME NEW r \in Signature, MarkSameWalletRecovered(r)
         PROVE  TypeOK'
    <3>1. RecoverableAmount(r) \in Nat
      BY DEF Receipt, RecoverableAmount
    <3>2. ledger' \in [Signature -> Receipt]
      BY <2>11 DEF MarkSameWalletRecovered, Receipt
    <3> QED BY <2>0, <2>11, <3>1, <3>2 DEF MarkSameWalletRecovered
  <2>12. CASE RecoveryFinalized
    BY <2>0, <2>12 DEF RecoveryFinalized, chainVars, Receipt, Recovery
  <2>13. CASE RecoveryExpired
    BY <2>0, <2>13 DEF RecoveryExpired, chainVars, NoRecovery, Recovery
  <2>14. CASE Broadcast
    <3>1. sending \in Signature
      BY <2>14 DEF Broadcast, Idle
    <3>2. TxTypeOK'
      BY <2>14, <3>1, Living DEF Broadcast, Submit, Lives
    <3> QED BY <2>14, <3>2 DEF Broadcast, Submit
  <2>15. CASE BroadcastLost
    BY <2>0, <2>15 DEF BroadcastLost, chainVars
  <2>16. ASSUME NEW t \in Signature, Rebroadcast(t)
         PROVE  TypeOK'
    BY <2>16, Living DEF Rebroadcast, Submit, Lives
  <2>17. CASE UNCHANGED vars
    BY <2>0, <2>17 DEF vars, chainVars, moneyVars, txVars
  <2> QED
    BY <2>1, <2>2, <2>3, <2>4, <2>5, <2>6, <2>7, <2>8, <2>9, <2>10, <2>11, <2>12, <2>13,
       <2>14, <2>15, <2>16, <2>17 DEF Next, Outside, Chain, Program, Recover
<1> QED BY <1>1, <1>2, PTL DEF Spec

-----------------------------------------------------------------------------
(***************************************************************************)
(* Steps that leave the file alone: whatever the chain does to a signed    *)
(* transaction, it is what was signed, and dead or landed it stays so.     *)
(***************************************************************************)
Monotone ==
  /\ UNCHANGED <<ledger, recovery>>
  /\ \A s \in Signature :
       /\ pay'[s].kind = pay[s].kind
       /\ pay'[s].receipts = pay[s].receipts
       /\ pay'[s].amount # pay[s].amount => pay[s].kind = "collection" /\ ~Landed(s)
       /\ Signed(s)' <=> Signed(s)
       /\ Dead(s) => Dead(s)'
       /\ Landed(s) => Landed(s)'

LEMMA MonotoneKeepsIInv ==
  ASSUME IInv, TypeOK', Monotone
  PROVE  IInv'
<1> USE DEF IInv
<1>1. OneOpenReceipt'
  BY DEF Monotone, OneOpenReceipt, InState
<1>2. TransactionsFit'
  BY DEF Monotone, TransactionsFit, Collected
<1>3. ReceiptsFit'
  <2>1. ASSUME NEW r \in Signature, Collected(r)
        PROVE  Landed(r)' /\ pay'[r].amount = ledger[r].collectedRaw
    BY <2>1 DEF Monotone, ReceiptsFit
  <2>2. ASSUME NEW r \in Signature
        PROVE  Payouts(r)' = Payouts(r)
    BY DEF Monotone, Payouts
  <2> QED BY <2>1, <2>2 DEF Monotone, ReceiptsFit, Collected, Payouts
<1>4. RecoveryFits'
  BY DEF Monotone, RecoveryFits, RecoveryPending
<1>5. SolePayout'
  <2>1. ASSUME NEW r \in Signature
        PROVE  Payouts(r)' = Payouts(r)
    BY DEF Monotone, Payouts
  <2> QED BY <2>1 DEF Monotone, SolePayout, RecoveryPending, Payouts
<1> QED BY <1>1, <1>2, <1>3, <1>4, <1>5

LEMMA OutsideIsMonotone ==
  ASSUME IInv, Outside
  PROVE  Monotone
  BY DEF Outside, AccrueFees, DepositForeign, OwnerSpends, OutsiderCollects, Monotone, txVars,
         Dead, Landed, Signed

LEMMA ChainIsMonotone ==
  ASSUME IInv, Chain
  PROVE  Monotone
<1> USE DEF IInv, TypeOK
<1>1. ASSUME NEW t \in Signature, Lives(t), UNCHANGED <<ledger, recovery, pay>>
      PROVE  Monotone
  BY <1>1, Living DEF Monotone, Signed, Dead, Landed
<1>2. ASSUME NEW t \in Signature, LandCollection(t)
      PROVE  Monotone
  <2>1. Lives(t) /\ ~Landed(t) /\ pay[t].kind = "collection"
    BY <1>2 DEF LandCollection, Lives, LandTx, Landable, Landed
  <2> QED BY <1>2, <2>1, Living DEF LandCollection, Monotone, Payment, Signed, Dead, Landed
<1> QED BY <1>1, <1>2 DEF Chain, LandRoute, LandRecovery, Fail, Advance, Lives

LEMMA BroadcastIsMonotone ==
  ASSUME IInv,
         Broadcast \/ BroadcastLost \/ (\E t \in Signature : Rebroadcast(t)) \/ UNCHANGED vars
  PROVE  Monotone
<1> USE DEF IInv, TypeOK
<1>1. ASSUME NEW t \in Signature, Submit(t)
      PROVE  Monotone
  <2>1. Lives(t)
    BY <1>1 DEF Submit, Lives
  <2> QED BY <1>1, <2>1, Living DEF Submit, Monotone, Signed, Dead, Landed
<1>2. CASE Broadcast
  BY <1>1, <1>2 DEF Broadcast, Idle
<1>3. CASE BroadcastLost \/ UNCHANGED vars
  BY <1>3 DEF BroadcastLost, vars, chainVars, txVars, Monotone, Signed, Dead, Landed
<1> QED BY <1>1, <1>2, <1>3 DEF Rebroadcast

-----------------------------------------------------------------------------
(***************************************************************************)
(* Steps that change the file without signing anything.                    *)
(***************************************************************************)
LEMMA SettleKeepsIInv ==
  ASSUME IInv, TypeOK', NEW r \in Signature, Settle(r)
  PROVE  IInv'
<1> USE DEF IInv
<1>1. UNCHANGED <<recovery, sending, pay, tx>>
  BY DEF Settle, CollectionFinalized, CollectionExpired, RouteFinalized, RouteExpired, chainVars, txVars
<1>2. \A s \in Signature : /\ Payouts(s)' = Payouts(s)
                          /\ Dead(s)' = Dead(s)
                          /\ Landed(s)' = Landed(s)
  BY <1>1 DEF Payouts, Dead, Landed
<1> USE <1>1, <1>2
<1>3. CASE CollectionFinalized(r)
  <2>1. /\ ledger[r].state = "collecting"
        /\ ledger' = [ledger EXCEPT ![r] = [@ EXCEPT !.state = "collected", !.collectedRaw = pay[r].amount]]
        /\ Landed(r)
    BY <1>3 DEF CollectionFinalized, AgreedFinalized, Landed, TypeOK
  <2>2. \A s \in Signature : r \notin pay[s].receipts
    BY <2>1 DEF TransactionsFit, Collected, Signed
  <2>3. OneOpenReceipt'
    BY <2>1 DEF OneOpenReceipt, InState, TypeOK, Receipt
  <2>4. TransactionsFit'
    BY <2>1, <2>2 DEF TransactionsFit, Collected, Signed, TypeOK, Receipt
  <2>5. ReceiptsFit'
    BY <2>1 DEF ReceiptsFit, Collected, Payouts, Landed, Dead, TypeOK, Receipt
  <2>6. RecoveryFits'
    BY <2>1 DEF RecoveryFits, RecoveryPending, TypeOK, Receipt
  <2>7. SolePayout'
    BY <2>1, <2>2 DEF SolePayout, RecoveryPending, Payouts, TypeOK, Receipt
  <2> QED BY <2>3, <2>4, <2>5, <2>6, <2>7
<1>4. CASE CollectionExpired(r)
  <2>1. /\ ledger[r].state = "collecting"
        /\ ledger' = [ledger EXCEPT ![r] = [@ EXCEPT !.state = "expired"]]
        /\ Dead(r)
    BY <1>4, ExpiryIsFinal DEF CollectionExpired, TransactionsFit, TypeOK
  <2>3. OneOpenReceipt'
    BY <2>1 DEF OneOpenReceipt, InState, TypeOK, Receipt
  <2>4. TransactionsFit'
    BY <2>1 DEF TransactionsFit, Collected, Signed, TypeOK, Receipt
  <2>5. ReceiptsFit'
    BY <2>1 DEF ReceiptsFit, Collected, Payouts, Landed, Dead, TypeOK, Receipt
  <2>6. RecoveryFits'
    BY <2>1 DEF RecoveryFits, RecoveryPending, TypeOK, Receipt
  <2>7. SolePayout'
    BY <2>1 DEF SolePayout, RecoveryPending, Payouts, TypeOK, Receipt
  <2> QED BY <2>3, <2>4, <2>5, <2>6, <2>7
<1>5. CASE RouteFinalized(r)
  <2>1. /\ ledger[r].state = "routing"
        /\ ledger' = [ledger EXCEPT ![r] = [@ EXCEPT !.state = "routed"]]
        /\ Landed(ledger[r].route)
    BY <1>5 DEF RouteFinalized, AgreedFinalized, Landed, TypeOK
  <2>3. OneOpenReceipt'
    BY <2>1 DEF OneOpenReceipt, InState, TypeOK, Receipt
  <2>4. TransactionsFit'
    BY <2>1 DEF TransactionsFit, Collected, Signed, TypeOK, Receipt
  <2>5. ReceiptsFit'
    BY <2>1 DEF ReceiptsFit, Collected, Payouts, Landed, Dead, TypeOK, Receipt
  <2>6. RecoveryFits'
    BY <2>1 DEF RecoveryFits, RecoveryPending, TypeOK, Receipt
  <2>7. SolePayout'
    BY <2>1 DEF SolePayout, RecoveryPending, Payouts, TypeOK, Receipt
  <2> QED BY <2>3, <2>4, <2>5, <2>6, <2>7
<1>6. CASE RouteExpired(r)
  <2>1. /\ ledger[r].state = "routing"
        /\ ledger' = [ledger EXCEPT ![r] = [@ EXCEPT !.state = "collected", !.route = NoSignature]]
        /\ Dead(ledger[r].route)
    BY <1>6, ExpiryIsFinal DEF RouteExpired, ReceiptsFit, TransactionsFit, TypeOK
  <2>3. OneOpenReceipt'
    BY <2>1 DEF OneOpenReceipt, InState, TypeOK, Receipt
  <2>4. TransactionsFit'
    BY <2>1 DEF TransactionsFit, Collected, Signed, TypeOK, Receipt
  <2>5. ReceiptsFit'
    BY <2>1 DEF ReceiptsFit, Collected, Payouts, Landed, Dead, TypeOK, Receipt
  <2>6. RecoveryFits'
    BY <2>1 DEF RecoveryFits, RecoveryPending, TypeOK, Receipt
  <2>7. SolePayout'
    BY <2>1 DEF SolePayout, RecoveryPending, Payouts, TypeOK, Receipt
  <2> QED BY <2>3, <2>4, <2>5, <2>6, <2>7
<1> QED BY <1>3, <1>4, <1>5, <1>6 DEF Settle

LEMMA RecoverySettlesKeepIInv ==
  ASSUME IInv, TypeOK',
         (\E r \in Signature : MarkSameWalletRecovered(r)) \/ RecoveryFinalized \/ RecoveryExpired
  PROVE  IInv'
<1> USE DEF IInv
<1>1. UNCHANGED <<sending, pay, tx>>
  BY DEF MarkSameWalletRecovered, RecoveryFinalized, RecoveryExpired, chainVars, txVars
<1>2. \A s \in Signature : /\ Payouts(s)' = Payouts(s)
                          /\ Dead(s)' = Dead(s)
                          /\ Landed(s)' = Landed(s)
  BY <1>1 DEF Payouts, Dead, Landed
<1> USE <1>1, <1>2
<1>3. ASSUME NEW r \in Signature, MarkSameWalletRecovered(r)
      PROVE  IInv'
  <2>1. /\ ledger[r].state = "collected"
        /\ ledger' = [ledger EXCEPT ![r] = [@ EXCEPT !.state = "recovered"]]
        /\ recovery' = recovery
        /\ ~RecoveryPending
        /\ SameWallet
    BY <1>3 DEF MarkSameWalletRecovered, Recoverable, InState, TypeOK
  <2>3. OneOpenReceipt'
    BY <2>1 DEF OneOpenReceipt, InState, TypeOK, Receipt
  <2>4. TransactionsFit'
    BY <2>1 DEF TransactionsFit, Collected, Signed, TypeOK, Receipt
  <2>5. ReceiptsFit'
    BY <2>1 DEF ReceiptsFit, Collected, Payouts, Landed, Dead, TypeOK, Receipt
  <2>6. RecoveryFits'
    BY <2>1 DEF RecoveryFits, RecoveryPending
  <2>7. SolePayout'
    BY <2>1 DEF SolePayout, RecoveryPending, Payouts, TypeOK, Receipt
  <2> QED BY <2>3, <2>4, <2>5, <2>6, <2>7
<1>4. CASE RecoveryFinalized
  <2>1. /\ RecoveryPending
        /\ recovery.transaction \in Signature
        /\ Landed(recovery.transaction)
        /\ pay[recovery.transaction].kind = "recovery"
        /\ pay[recovery.transaction].receipts = recovery.receiptSignatures
        /\ \A r \in recovery.receiptSignatures : ledger[r].state = "collected"
    BY <1>4 DEF RecoveryFinalized, AgreedFinalized, Landed, RecoveryFits
  <2>2. /\ ledger' = [r \in Signature |-> IF r \in recovery.receiptSignatures
                                        THEN [ledger[r] EXCEPT !.state = "recovered"]
                                        ELSE ledger[r]]
        /\ ~RecoveryPending'
    BY <1>4 DEF RecoveryFinalized, RecoveryPending, TypeOK, Recovery
  <2>8. \A s \in Signature :
          /\ ledger'[s].collectedRaw = ledger[s].collectedRaw
          /\ ledger'[s].state = IF s \in recovery.receiptSignatures THEN "recovered"
                                ELSE ledger[s].state
    BY <2>2 DEF TypeOK, Receipt
  <2>3. OneOpenReceipt'
    BY <2>1, <2>2 DEF OneOpenReceipt, InState, TypeOK, Receipt
  <2>4. TransactionsFit'
    <3>1. \A t \in Signature : pay[t].receipts \subseteq Signature
      BY DEF TypeOK, Payment
    <3>2. \A s \in Signature : /\ Collected(s) => Collected(s)'
                              /\ ledger[s].state = "absent" <=> ledger'[s].state = "absent"
      BY <2>1, <2>8 DEF Collected
    <3> QED BY <1>1, <2>8, <3>1, <3>2 DEF TransactionsFit, Collected, Signed
  <2>5. ReceiptsFit'
    BY <1>1, <2>1, <2>2 DEF ReceiptsFit, Collected, Payouts, TypeOK, Receipt
  <2>6. RecoveryFits'
    BY <2>2 DEF RecoveryFits
  <2>7. SolePayout'
    BY <2>1, <2>2 DEF SolePayout, Payouts, TypeOK, Receipt
  <2> QED BY <2>3, <2>4, <2>5, <2>6, <2>7
<1>5. CASE RecoveryExpired
  <2>1. /\ Dead(recovery.transaction)
        /\ ledger' = ledger
        /\ ~RecoveryPending'
    BY <1>5, ExpiryIsFinal DEF RecoveryExpired, NoRecovery, RecoveryPending, RecoveryFits,
        TransactionsFit, TypeOK
  <2>3. OneOpenReceipt' /\ TransactionsFit' /\ ReceiptsFit'
    BY <2>1 DEF OneOpenReceipt, InState, TransactionsFit, Collected, Signed, ReceiptsFit,
                Payouts, Landed, Dead
  <2>6. RecoveryFits'
    BY <2>1 DEF RecoveryFits
  <2>7. SolePayout'
    BY <2>1 DEF SolePayout, Payouts
  <2> QED BY <2>3, <2>6, <2>7
<1> QED BY <1>3, <1>4, <1>5

-----------------------------------------------------------------------------
(***************************************************************************)
(* Steps that sign a transaction: it is new to the ledger and the chain.   *)
(***************************************************************************)
LEMMA SignFacts ==
  ASSUME IInv, NEW t \in Signature, NEW kind \in {"collection", "route", "recovery"},
         NEW receipts \in SUBSET Signature, NEW amount \in Nat,
         Sign(t, kind, receipts, amount)
  PROVE  /\ ledger[t].state = "absent"
         /\ pay[t].kind = "none"
         /\ pay[t].receipts = {}
         /\ pay'[t].kind = kind /\ pay'[t].receipts = receipts /\ pay'[t].amount = amount
         /\ Signed(t)'
         /\ \A s \in Signature \ {t} : pay'[s] = pay[s] /\ tx'[s] = tx[s]
         /\ \A s \in Signature : Dead(s) => Dead(s)'
         /\ \A s \in Signature : Landed(s) => Landed(s)'
         /\ \A s \in Signature : Landed(s) => s # t
<1>1. pay' = [pay EXCEPT ![t] = [kind |-> kind, receipts |-> receipts, amount |-> amount]]
  BY DEF Sign
<1>2. /\ ~Signed(t) /\ Signed(t)' /\ ~Landed(t) /\ ~Dead(t)
      /\ \A s \in Signature \ {t} : tx'[s] = tx[s]
  BY Signing DEF Sign, IInv, TypeOK
<1>3. /\ pay[t].kind = "none" /\ ledger[t].state = "absent" /\ pay[t].receipts = {}
  BY <1>2 DEF IInv, TransactionsFit
<1> QED BY <1>1, <1>2, <1>3 DEF IInv, TypeOK, Dead, Landed

LEMMA SweepKeepsIInv ==
  ASSUME IInv, TypeOK', NEW t \in Signature, Sweep(t)
  PROVE  IInv'
<1> USE DEF IInv
<1>1. /\ Pending = {}
      /\ ledger' = [ledger EXCEPT ![t] = [@ EXCEPT !.state = "collecting"]]
      /\ recovery' = recovery
      /\ sending' = t
      /\ ~RecoveryPending
  BY DEF Sweep, TypeOK
<1>2. /\ ledger[t].state = "absent" /\ pay[t].kind = "none" /\ pay[t].receipts = {}
      /\ pay'[t].kind = "collection" /\ pay'[t].receipts = {}
      /\ Signed(t)'
      /\ \A s \in Signature \ {t} : pay'[s] = pay[s] /\ tx'[s] = tx[s]
      /\ \A s \in Signature : Dead(s) => Dead(s)'
      /\ \A s \in Signature : Landed(s) => Landed(s)'
      /\ \A s \in Signature : Landed(s) => s # t
  BY SignFacts DEF Sweep
<1>3. \A s \in Signature : Payouts(s)' = Payouts(s)
  BY <1>2 DEF Payouts
<1>4. OneOpenReceipt'
  BY <1>1, <1>2 DEF Pending, OneOpenReceipt, InState, TypeOK, Receipt
<1>5. /\ \A s \in Signature \ {t} : ledger'[s] = ledger[s]
      /\ ledger'[t].state = "collecting"
  BY <1>1 DEF TypeOK, Receipt
<1>6. TransactionsFit'
  <2>1. \A s \in Signature : pay[s].receipts \subseteq Signature
    BY DEF TypeOK, Payment
  <2>2. \A s \in Signature : Collected(s) => s # t
    BY <1>2 DEF Collected
  <2>3. ASSUME NEW s \in Signature, s # t
        PROVE  /\ pay'[s] = pay[s] /\ tx'[s] = tx[s] /\ ledger'[s] = ledger[s]
               /\ \A r \in pay[s].receipts : Collected(r) /\ r # t /\ ledger'[r] = ledger[r]
    BY <2>3, <1>2, <1>5, <2>1, <2>2 DEF TransactionsFit
  <2> QED BY <1>2, <1>5, <2>3 DEF TransactionsFit, Collected, Signed
<1>7. ReceiptsFit'
  <2>1. ASSUME NEW s \in Signature, s # t
        PROVE  ledger'[s] = ledger[s] /\ pay'[s] = pay[s] /\ tx'[s] = tx[s]
    BY <2>1, <1>2, <1>5
  <2>2. ASSUME NEW s \in Signature, ledger[s].state \in {"routing", "routed"}
        PROVE  ledger[s].route # t
    BY <2>2, <1>2 DEF ReceiptsFit
  <2>3. \A s \in Signature : \A u \in Payouts(s) : u # t
    BY <1>2 DEF Payouts
  <2> SUFFICES ASSUME NEW s \in Signature
               PROVE  ReceiptsFit!(s)'
    BY DEF ReceiptsFit
  <2>4. CASE s = t
    BY <2>4, <1>5 DEF Collected
  <2>5. CASE s # t
    <3>1. /\ ledger'[s] = ledger[s] /\ pay'[s] = pay[s] /\ tx'[s] = tx[s]
          /\ ReceiptsFit!(s)
      BY <2>5, <2>1 DEF ReceiptsFit
    <3>2. ledger[s].state \in {"routing", "routed"} =>
            pay'[ledger[s].route] = pay[ledger[s].route] /\ tx'[ledger[s].route] = tx[ledger[s].route]
      BY <3>1, <2>2, <1>2
    <3>3. \A u \in Payouts(s) : pay'[u] = pay[u] /\ (Landed(u) => Landed(u)')
      BY <2>3, <1>2 DEF Payouts
    <3>4. /\ Collected(s)' => Landed(s)' /\ pay'[s].amount = ledger'[s].collectedRaw
          /\ ledger'[s].state = "expired" => Dead(s)'
      BY <3>1, <1>2 DEF Collected, Landed
    <3>5. ledger'[s].state = "routed" => Landed(ledger[s].route)'
      BY <3>1, <1>2
    <3>6. ledger'[s].state = "recovered" =>
            SameWallet \/ \E u \in Payouts(s)' : pay'[u].kind = "recovery" /\ Landed(u)'
      BY <3>1, <3>3, <1>3
    <3> QED BY <3>1, <3>2, <3>4, <3>5, <3>6
  <2> QED BY <2>4, <2>5
<1>8. RecoveryFits'
  BY <1>1 DEF RecoveryFits, RecoveryPending
<1>9. SolePayout'
  BY <1>1, <1>2, <1>3, <1>5 DEF SolePayout, Payouts, RecoveryPending
<1> QED BY <1>1, <1>2, <1>4, <1>6, <1>7, <1>8, <1>9

\* What RouteReceipt and SubmitRecovery share: t is signed to pay out r alone.
LEMMA PayoutSigned ==
  ASSUME IInv, NEW r \in Signature, NEW t \in Signature,
         ~RecoveryPending, ledger[r].state = "collected", ledger[t].state = "absent",
         pay[t].receipts = {}, pay'[t].receipts = {r},
         \A s \in Signature \ {t} : pay'[s] = pay[s] /\ tx'[s] = tx[s],
         \A s \in Signature : Dead(s) => Dead(s)'
  PROVE  /\ r # t
         /\ Payouts(r)' = Payouts(r) \cup {t}
         /\ \A s \in Signature \ {r} : Payouts(s)' = Payouts(s)
         /\ \A s \in Payouts(r) : Dead(s)'
         /\ \A s \in Signature : t \notin Payouts(s)
<1>1. \A s \in Payouts(r) : Dead(s)
  BY DEF IInv, SolePayout
<1> QED BY <1>1 DEF Payouts

LEMMA RouteKeepsIInv ==
  ASSUME IInv, TypeOK', NEW r \in Signature, NEW t \in Signature, RouteReceipt(r, t)
  PROVE  IInv'
<1> USE DEF IInv
<1>1. /\ ledger[r].state = "collected"
      /\ ledger' = [ledger EXCEPT ![r] = [@ EXCEPT !.state = "routing", !.route = t]]
      /\ recovery' = recovery
      /\ sending' = t
      /\ ~RecoveryPending
      /\ ledger[r].collectedRaw \in Nat
      /\ Sign(t, "route", {r}, ledger[r].collectedRaw)
  BY DEF RouteReceipt, TypeOK, Receipt
<1>2. /\ ledger[t].state = "absent" /\ pay[t].kind = "none"
      /\ pay[t].receipts = {}
      /\ pay'[t].kind = "route" /\ pay'[t].receipts = {r}
      /\ pay'[t].amount = ledger[r].collectedRaw
      /\ Signed(t)'
      /\ \A s \in Signature \ {t} : pay'[s] = pay[s] /\ tx'[s] = tx[s]
      /\ \A s \in Signature : Dead(s) => Dead(s)'
      /\ \A s \in Signature : Landed(s) => Landed(s)'
      /\ \A s \in Signature : Landed(s) => s # t
  BY <1>1, {r} \in SUBSET Signature, SignFacts
<1>3. /\ r # t
      /\ Payouts(r)' = Payouts(r) \cup {t}
      /\ \A s \in Signature \ {r} : Payouts(s)' = Payouts(s)
      /\ \A s \in Payouts(r) : Dead(s)'
      /\ \A s \in Signature : t \notin Payouts(s)
  BY <1>1, <1>2, PayoutSigned
<1>4. OneOpenReceipt'
  BY <1>1 DEF OneOpenReceipt, InState, TypeOK, Receipt
<1>5. /\ \A s \in Signature \ {r} : ledger'[s] = ledger[s]
      /\ ledger'[r].state = "routing" /\ ledger'[r].route = t
      /\ ledger'[r].collectedRaw = ledger[r].collectedRaw
  BY <1>1 DEF TypeOK, Receipt
<1>6. TransactionsFit'
  <2>1. \A s \in Signature : pay[s].receipts \subseteq Signature
    BY DEF TypeOK, Payment
  <2> QED BY <1>1, <1>2, <1>3, <1>5, <2>1 DEF TransactionsFit, Collected, Signed
<1>7. ReceiptsFit'
  <2>1. ASSUME NEW s \in Signature, s # r
        PROVE  \A u \in Payouts(s) : u # t /\ pay'[u] = pay[u] /\ tx'[u] = tx[u]
    BY <1>2, <1>3 DEF Payouts
  <2>2. ASSUME NEW s \in Signature, s # r, ledger[s].state \in {"routing", "routed"}
        PROVE  /\ ledger[s].route # t
               /\ ledger[s].route \in Signature
               /\ tx'[ledger[s].route] = tx[ledger[s].route]
    BY <2>2, <1>2 DEF ReceiptsFit
  <2>3. Collected(r) /\ Landed(r) /\ pay'[r].amount = ledger[r].collectedRaw
    BY <1>1, <1>2, <1>3 DEF ReceiptsFit, Collected
  <2>4. ASSUME NEW s \in Signature
        PROVE  s # r => ledger'[s] = ledger[s]
    BY <1>5
  <2>5. ASSUME NEW s \in Signature, ledger'[s].state = "recovered"
        PROVE  SameWallet \/ \E u \in Payouts(s)' : pay'[u].kind = "recovery" /\ Landed(u)'
    BY <1>2, <1>3, <1>5, <2>1, <2>4, <2>5 DEF ReceiptsFit, Payouts
  <2>6. ASSUME NEW s \in Signature, s # r
        PROVE  /\ ledger'[s] = ledger[s]
               /\ Collected(s) => pay'[s] = pay[s] /\ tx'[s] = tx[s]
    BY <1>2, <1>5, <2>6 DEF Collected
  <2>7. ASSUME NEW s \in Signature, Collected(s)'
        PROVE  Landed(s)' /\ pay'[s].amount = ledger'[s].collectedRaw
    BY <1>2, <1>5, <2>3, <2>6, <2>7 DEF ReceiptsFit, Collected
  <2>8. ASSUME NEW s \in Signature, ledger'[s].state = "expired"
        PROVE  Dead(s)'
    BY <1>2, <1>5, <2>6, <2>8 DEF ReceiptsFit
  <2>9. ASSUME NEW s \in Signature, ledger'[s].state \in {"routing", "routed"}
        PROVE  /\ ledger'[s].route \in Signature
               /\ pay'[ledger'[s].route].kind = "route"
               /\ pay'[ledger'[s].route].receipts = {s}
               /\ ledger'[s].state = "routed" => tx'[ledger'[s].route].status = "landed"
    BY <1>2, <1>5, <2>2, <2>6, <2>9 DEF ReceiptsFit, Landed
  <2> QED BY <2>5, <2>7, <2>8, <2>9 DEF ReceiptsFit, Collected, Landed
<1>8. RecoveryFits'
  BY <1>1 DEF RecoveryFits, RecoveryPending
<1>9. SolePayout'
  <2>1. ASSUME NEW s \in Signature, s # r
        PROVE  \A u \in Payouts(s) : u # t /\ pay'[u] = pay[u] /\ tx'[u] = tx[u]
    BY <1>2, <1>3 DEF Payouts
  <2>2. \A u \in Payouts(r) \cup {t} : u = t \/ Dead(u)'
    BY <1>3
  <2>3. ~RecoveryPending'
    BY <1>1 DEF RecoveryPending
  <2>4. ASSUME NEW s \in Signature, s # r
        PROVE  /\ \A u, v \in Payouts(s) : u = v \/ Dead(u)' \/ Dead(v)'
               /\ ledger[s].state = "collected" => \A u \in Payouts(s) : Dead(u)'
    BY <2>4, <1>1, <1>2 DEF SolePayout, Payouts
  <2> QED BY <1>2, <1>3, <1>5, <2>1, <2>2, <2>3, <2>4 DEF SolePayout, Payouts
<1> QED BY <1>1, <1>2, <1>4, <1>6, <1>7, <1>8, <1>9

LEMMA SubmitRecoveryKeepsIInv ==
  ASSUME IInv, TypeOK', NEW r \in Signature, NEW t \in Signature, SubmitRecovery(r, t)
  PROVE  IInv'
<1>1. /\ ledger[r].state = "collected"
      /\ ledger' = ledger
      /\ recovery'.state = "submitted"
      /\ recovery'.transaction = t
      /\ recovery'.receiptSignatures = {r}
      /\ sending' = t
      /\ ~RecoveryPending
      /\ ledger[r].collectedRaw \in Nat
      /\ Sign(t, "recovery", {r}, ledger[r].collectedRaw)
  BY DEF IInv, SubmitRecovery, Recoverable, RecoverableAmount, InState, TypeOK, Receipt
<1>2. /\ ledger[t].state = "absent" /\ pay[t].kind = "none"
      /\ pay[t].receipts = {}
      /\ pay'[t].kind = "recovery" /\ pay'[t].receipts = {r}
      /\ pay'[t].amount = ledger[r].collectedRaw
      /\ Signed(t)'
      /\ \A s \in Signature \ {t} : pay'[s] = pay[s] /\ tx'[s] = tx[s]
      /\ \A s \in Signature : Dead(s) => Dead(s)'
      /\ \A s \in Signature : Landed(s) => Landed(s)'
      /\ \A s \in Signature : Landed(s) => s # t
  <2>1. {r} \in SUBSET Signature /\ "recovery" \in {"collection", "route", "recovery"}
    OBVIOUS
  <2> DEFINE amount == ledger[r].collectedRaw
  <2>2. amount \in Nat /\ Sign(t, "recovery", {r}, amount)
    BY <1>1
  <2> HIDE DEF amount
  <2>3. pay'[t].amount = amount
    BY <2>1, <2>2, SignFacts
  <2> QED BY <2>1, <2>2, <2>3, SignFacts DEF amount
<1> USE DEF IInv
<1>3. /\ r # t
      /\ Payouts(r)' = Payouts(r) \cup {t}
      /\ \A s \in Signature \ {r} : Payouts(s)' = Payouts(s)
      /\ \A s \in Payouts(r) : Dead(s)'
      /\ \A s \in Signature : t \notin Payouts(s)
  BY <1>1, <1>2, PayoutSigned
<1>4. OneOpenReceipt'
  BY <1>1 DEF OneOpenReceipt, InState
<1>6. TransactionsFit'
  <2>1. \A s \in Signature : pay[s].receipts \subseteq Signature
    BY DEF TypeOK, Payment
  <2> QED BY <1>1, <1>2, <1>3, <2>1 DEF TransactionsFit, Collected, Signed
<1>7. ReceiptsFit'
  <2>1. ASSUME NEW s \in Signature, s # r
        PROVE  \A u \in Payouts(s) : u # t /\ pay'[u] = pay[u] /\ tx'[u] = tx[u]
    BY <1>2, <1>3 DEF Payouts
  <2>2. ASSUME NEW s \in Signature, ledger[s].state \in {"routing", "routed"}
        PROVE  ledger[s].route # t
    BY <2>2, <1>2 DEF ReceiptsFit
  <2>3. ASSUME NEW s \in Signature
        PROVE  Collected(s) => pay'[s] = pay[s] /\ tx'[s] = tx[s]
    BY <1>2 DEF Collected
  <2>4. ASSUME NEW s \in Signature, ledger[s].state = "recovered"
        PROVE  SameWallet \/ \E u \in Payouts(s)' : pay'[u].kind = "recovery" /\ Landed(u)'
    BY <2>4, <1>1, <1>2, <1>3, <2>1 DEF ReceiptsFit, Payouts
  <2>5. ASSUME NEW s \in Signature, ledger[s].state \in {"routing", "routed"}
        PROVE  /\ ledger[s].route \in Signature
               /\ pay'[ledger[s].route] = pay[ledger[s].route]
               /\ tx'[ledger[s].route] = tx[ledger[s].route]
    BY <2>2, <2>5, <1>2 DEF ReceiptsFit
  <2> SUFFICES ASSUME NEW s \in Signature
               PROVE  ReceiptsFit!(s)'
    BY DEF ReceiptsFit
  <2>6. Collected(s)' => Landed(s)' /\ pay'[s].amount = ledger'[s].collectedRaw
    BY <1>1, <1>2, <2>3 DEF ReceiptsFit, Collected, Landed
  <2>7. ledger'[s].state = "expired" => Dead(s)'
    BY <1>1, <1>2 DEF ReceiptsFit
  <2>8. ledger'[s].state \in {"routing", "routed"} =>
          /\ ledger'[s].route \in Signature
          /\ pay'[ledger'[s].route].kind = "route"
          /\ pay'[ledger'[s].route].receipts = {s}
    BY <1>1, <2>5 DEF ReceiptsFit
  <2>9. ledger'[s].state = "routed" => Landed(ledger[s].route)'
    BY <1>1, <2>5 DEF ReceiptsFit, Landed
  <2> QED BY <1>1, <2>4, <2>6, <2>7, <2>8, <2>9
<1>8. RecoveryFits'
  BY <1>1, <1>2 DEF RecoveryFits, RecoveryPending
<1>9. SolePayout'
  <2>1. \A u \in Payouts(r) \cup {t} : u = t \/ Dead(u)'
    BY <1>3
  <2>2. recovery'.transaction = t /\ RecoveryPending'
    BY <1>1 DEF RecoveryPending
  <2>3. ASSUME NEW s \in Signature, s # r
        PROVE  /\ \A u \in Payouts(s) : u # t /\ pay'[u] = pay[u] /\ tx'[u] = tx[u]
               /\ \A u, v \in Payouts(s) : u = v \/ Dead(u)' \/ Dead(v)'
               /\ ledger[s].state = "collected" => \A u \in Payouts(s) : Dead(u)'
    BY <2>3, <1>1, <1>2, <1>3 DEF SolePayout, Payouts
  <2> QED BY <1>1, <1>2, <1>3, <2>1, <2>2, <2>3 DEF SolePayout, Payouts
<1> QED BY <1>1, <1>2, <1>4, <1>6, <1>7, <1>8, <1>9

-----------------------------------------------------------------------------
\* The inductive invariant holds in every reachable state.
THEOREM Invariance == Spec => []IInv
<1>1. Init => IInv
  BY InitialTransactions, TransactionsAssumption
     DEF Init, IInv, TypeOK, Receipt, NoReceipt, Recovery, NoRecovery, Payment, NoPayment,
         Wallet, OneOpenReceipt, InState, TransactionsFit, ReceiptsFit, Collected,
         RecoveryFits, RecoveryPending, SolePayout, Payouts
<1>2. IInv /\ TypeOK' /\ [Next]_vars => IInv'
  <2> SUFFICES ASSUME IInv, TypeOK', [Next]_vars
               PROVE  IInv'
    OBVIOUS
  <2>1. CASE Outside
    BY <2>1, OutsideIsMonotone, MonotoneKeepsIInv
  <2>2. CASE Chain
    BY <2>2, ChainIsMonotone, MonotoneKeepsIInv
  <2>3. CASE \/ Broadcast \/ BroadcastLost
             \/ (\E t \in Signature : Rebroadcast(t)) \/ UNCHANGED vars
    BY <2>3, BroadcastIsMonotone, MonotoneKeepsIInv
  <2>4. CASE \E t \in Signature : Sweep(t)
    BY <2>4, SweepKeepsIInv
  <2>5. CASE \E r \in Signature : Settle(r)
    BY <2>5, SettleKeepsIInv
  <2>6. CASE \E r, t \in Signature : RouteReceipt(r, t)
    BY <2>6, RouteKeepsIInv
  <2>7. CASE Recover
    BY <2>7, SubmitRecoveryKeepsIInv, RecoverySettlesKeepIInv DEF Recover
  <2> QED BY <2>1, <2>2, <2>3, <2>4, <2>5, <2>6, <2>7 DEF Next, Program
<1> QED BY <1>1, <1>2, TypeCorrect, PTL DEF Spec

\* No receipt is paid out twice.
THEOREM PaidOutOnceHolds == Spec => []PaidOutOnce
<1>1. IInv => PaidOutOnce
  BY DEF IInv, SolePayout, PaidOutOnce, Landed, Dead
<1> QED BY <1>1, Invariance, PTL

\* What the ledger gave up on never lands.
THEOREM AbandonedNeverLandsHolds == Spec => []AbandonedNeverLands
<1>1. IInv => AbandonedNeverLands
  <2> SUFFICES ASSUME IInv, NEW t \in Signature
               PROVE  /\ ledger[t].state = "expired" => ~Landed(t)
                      /\ Landed(t) /\ pay[t].kind = "route" =>
                           \E r \in pay[t].receipts : ledger[r].route = t
                      /\ Landed(t) /\ pay[t].kind = "recovery" =>
                           \/ recovery.transaction = t
                           \/ \A r \in pay[t].receipts : ledger[r].state = "recovered"
    BY DEF AbandonedNeverLands
  <2>1. ledger[t].state = "expired" => ~Landed(t)
    BY DEF IInv, ReceiptsFit, Landed, Dead
  <2>2. ASSUME Landed(t), pay[t].kind \in {"route", "recovery"}
        PROVE  \E r \in Signature : /\ pay[t].receipts = {r} /\ Collected(r)
                                   /\ t \in Payouts(r) /\ ~Dead(t)
    BY <2>2 DEF IInv, TransactionsFit, Payouts, Landed, Dead
  <2>3. ASSUME Landed(t), pay[t].kind = "route"
        PROVE  \E r \in pay[t].receipts : ledger[r].route = t
    BY <2>2, <2>3 DEF IInv, SolePayout, RecoveryFits, Collected
  <2>4. ASSUME Landed(t), pay[t].kind = "recovery"
        PROVE  recovery.transaction = t \/ \A r \in pay[t].receipts : ledger[r].state = "recovered"
    BY <2>2, <2>4 DEF IInv, SolePayout, ReceiptsFit, Collected
  <2> QED BY <2>1, <2>3, <2>4
<1> QED BY <1>1, Invariance, PTL

\* What the file says of a receipt is what happened on chain.
THEOREM LedgerTruthHolds == Spec => []LedgerTruth
<1>1. IInv => LedgerTruth
  BY DEF IInv, LedgerTruth, ReceiptsFit, SolePayout, Collected, Payouts, Landed, Dead
<1> QED BY <1>1, Invariance, PTL

\* Every payout moves what its receipt's collection brought.
THEOREM PayoutIsReceiptHolds == Spec => []PayoutIsReceipt
<1>1. IInv => PayoutIsReceipt
  BY DEF IInv, TypeOK, Payment, PayoutIsReceipt, TransactionsFit, ReceiptsFit
<1> QED BY <1>1, Invariance, PTL

-----------------------------------------------------------------------------
(***************************************************************************)
(* The creator account.                                                    *)
(***************************************************************************)
\* What the account holds beside the unrelated MSTRx is the held receipt, and in
\* single-wallet mode no recovery is ever sent.
MoneyFit ==
  /\ balance["creator"] = foreign + HeldRaw
  /\ SameWallet => \A t \in Signature : pay[t].kind # "recovery"

\* What is held is the open receipt.
LEMMA HeldIsOpen ==
  ASSUME IInv
  PROVE  /\ \A r \in Held : ledger[r].state \in {"collecting", "collected", "routing"}
         /\ \A r, s \in Held : r = s
<1>1. ASSUME NEW r \in Held
      PROVE  ledger[r].state \in {"collecting", "collected", "routing"}
  <2>1. r \in Signature /\ pay[r].kind = "collection" /\ Landed(r) /\ ~PaidOut(r) /\ ~Dead(r)
    BY DEF Held, Landed, Dead
  <2>2. ledger[r].state \in {"absent", "collecting", "expired", "collected", "routing", "routed",
                             "recovered"}
    BY <2>1 DEF IInv, TypeOK, Receipt
  <2>3. ledger[r].state # "absent" /\ ledger[r].state # "expired"
    BY <2>1 DEF IInv, TransactionsFit, ReceiptsFit
  <2>4. ledger[r].state # "routed"
    <3> SUFFICES ASSUME ledger[r].state = "routed" PROVE FALSE
      OBVIOUS
    <3>1. /\ ledger[r].route \in Signature /\ pay[ledger[r].route].receipts = {r}
          /\ Landed(ledger[r].route)
      BY <2>1 DEF IInv, ReceiptsFit
    <3> QED
      BY <2>1, <3>1 DEF PaidOut, Payouts
  <2>5. ledger[r].state # "recovered"
    BY <2>1 DEF IInv, ReceiptsFit, PaidOut
  <2> QED
    BY <2>2, <2>3, <2>4, <2>5
<1>2. Held \subseteq InState({"collecting", "collected", "routing"})
  BY <1>1 DEF Held, InState
<1> QED
  BY <1>1, <1>2 DEF IInv, OneOpenReceipt

\* The held amount.
LEMMA HeldAmount ==
  ASSUME NEW r
  PROVE  /\ Held = {r} => HeldRaw = pay[r].amount
         /\ (Held = {r} => HeldRaw = pay[r].amount)'
<1>1. (CHOOSE s \in {r} : TRUE) = r
  OBVIOUS
<1> QED
  BY <1>1 DEF HeldRaw

\* A transfer that can still land pays out the receipt that is held.
LEMMA PayoutIsHeld ==
  ASSUME IInv, MoneyFit, NEW t \in Signature, Landable(t), pay[t].kind \in {"route", "recovery"}
  PROVE  \E r \in Signature : /\ Held = {r} /\ pay[t].receipts = {r}
                              /\ pay[t].amount = pay[r].amount /\ HeldRaw = pay[t].amount
<1>1. ~Landed(t) /\ ~Dead(t)
  BY DEF Landable, Landed, Dead
<1>2. PICK r \in Signature : pay[t].receipts = {r}
  BY DEF IInv, TransactionsFit
<1>3. Collected(r) /\ pay[t].amount = ledger[r].collectedRaw
  BY <1>2 DEF IInv, TransactionsFit
<1>4. Landed(r) /\ pay[r].amount = pay[t].amount
  BY <1>3 DEF IInv, ReceiptsFit
<1>5. pay[r].kind = "collection"
  BY <1>3 DEF Collected, IInv, TransactionsFit
<1>6. \A s \in Payouts(r) : ~Landed(s)
  <2>1. t \in Payouts(r)
    BY <1>2 DEF Payouts
  <2>2. \A s \in Payouts(r) : s = t \/ Dead(s)
    BY <1>1, <2>1 DEF IInv, SolePayout
  <2> QED
    BY <1>1, <2>2 DEF Dead, Landed
<1>7. ~(SameWallet /\ ledger[r].state = "recovered")
  <2>1. t \in Payouts(r)
    BY <1>2 DEF Payouts
  <2> QED
    BY <1>1, <2>1 DEF IInv, SolePayout, MoneyFit
<1>8. r \in Held
  BY <1>4, <1>5, <1>6, <1>7 DEF Held, PaidOut
<1>9. Held = {r}
  BY <1>8, HeldIsOpen
<1> QED
  BY <1>2, <1>4, <1>9, HeldAmount

\* A collection that can still land finds nothing held.
LEMMA NothingHeldYet ==
  ASSUME IInv, NEW t \in Signature, Landable(t), pay[t].kind = "collection"
  PROVE  /\ Held = {} /\ ledger[t].state = "collecting"
         /\ Payouts(t) = {}
<1>1. ~Landed(t) /\ ~Dead(t)
  BY DEF Landable, Landed, Dead
<1>2. ledger[t].state = "collecting"
  <2>1. ledger[t].state \in {"absent", "collecting", "expired", "collected", "routing", "routed",
                             "recovered"}
    BY DEF IInv, TypeOK, Receipt
  <2> QED
    BY <1>1, <2>1 DEF IInv, TransactionsFit, ReceiptsFit, Collected
<1>3. \A r \in Held : FALSE
  <2> SUFFICES ASSUME NEW r \in Held PROVE FALSE
    OBVIOUS
  <2>1. r \in Signature /\ Landed(r)
    BY DEF Held
  <2>2. r = t
    BY <1>2, <2>1, HeldIsOpen DEF IInv, OneOpenReceipt, InState
  <2> QED
    BY <1>1, <2>1, <2>2
<1>4. Payouts(t) = {}
  BY <1>2 DEF Payouts, IInv, TransactionsFit, Collected
<1> QED
  BY <1>2, <1>3, <1>4

\* A landed transaction.
LEMMA LandingMoves ==
  ASSUME IInv, NEW t \in Signature, LandTx(t)
  PROVE  /\ Landable(t) /\ ~Landed(t)
         /\ \A s \in Signature : Landed(s)' <=> Landed(s) \/ s = t
  BY DEF IInv, TypeOK, TxTypeOK, Transaction, LandTx, Landable, Landed

\* A step that lands nothing and recovers nothing leaves what is held.
LEMMA HeldStays ==
  ASSUME IInv,
         \A s \in Signature : Landed(s)' <=> Landed(s),
         \A s \in Signature : Landed(s) => pay'[s] = pay[s],
         SameWallet => \A r \in Signature :
                         ledger'[r].state = "recovered" <=> ledger[r].state = "recovered"
  PROVE  Held' = Held /\ HeldRaw' = HeldRaw
<1>1. \A r \in Signature : PaidOut(r)' <=> PaidOut(r)
  <2> SUFFICES ASSUME NEW r \in Signature PROVE PaidOut(r)' <=> PaidOut(r)
    OBVIOUS
  <2>1. (\E t \in Payouts(r) : Landed(t))' <=> \E t \in Payouts(r) : Landed(t)
    BY DEF Payouts
  <2> QED
    BY <2>1 DEF PaidOut
<1>2. Held' = Held
  BY <1>1 DEF Held
<1>3. HeldRaw' = HeldRaw
  <2>1. CASE Held = {}
    BY <1>2, <2>1 DEF HeldRaw
  <2>2. CASE Held # {}
    <3>1. PICK r \in Held : Held = {r}
      BY <2>2, HeldIsOpen
    <3>2. pay'[r] = pay[r]
      BY DEF Held
    <3> QED
      BY <1>2, <3>1, <3>2, HeldAmount
  <2> QED
    BY <2>1, <2>2
<1> QED
  BY <1>2, <1>3

\* A payout that lands empties the account of what was held.
LEMMA PayoutEmpties ==
  ASSUME IInv, MoneyFit, NEW t \in Signature, LandTx(t), pay[t].kind \in {"route", "recovery"},
         UNCHANGED <<ledger, pay>>
  PROVE  HeldRaw = pay[t].amount /\ HeldRaw' = 0
<1>1. /\ Landable(t) /\ ~Landed(t)
      /\ \A s \in Signature : Landed(s)' <=> Landed(s) \/ s = t
  BY LandingMoves
<1>2. PICK r \in Signature : /\ Held = {r} /\ pay[t].receipts = {r} /\ HeldRaw = pay[t].amount
  BY <1>1, PayoutIsHeld
<1>3. \A s \in Signature : PaidOut(s) => PaidOut(s)'
  BY <1>1 DEF PaidOut, Payouts
<1>4. PaidOut(r)'
  <2>1. t \in Payouts(r)' /\ Landed(t)'
    BY <1>1, <1>2 DEF Payouts
  <2> QED
    BY <2>1 DEF PaidOut
<1>5. Held' = {}
  <2> SUFFICES ASSUME NEW s \in Held' PROVE FALSE
    OBVIOUS
  <2>1. s \in Signature /\ pay[s].kind = "collection" /\ Landed(s)' /\ ~PaidOut(s)'
    BY DEF Held
  <2>2. s # t
    BY <2>1
  <2>3. s \in Held
    BY <1>1, <1>3, <2>1, <2>2 DEF Held
  <2> QED
    BY <1>2, <1>4, <2>1, <2>3
<1> QED
  BY <1>2, <1>5 DEF HeldRaw

\* A collection that lands is held, whole.
LEMMA CollectionFills ==
  ASSUME IInv, NEW t \in Signature, LandCollection(t)
  PROVE  HeldRaw = 0 /\ HeldRaw' = vault
<1>1. /\ Landable(t) /\ ~Landed(t)
      /\ \A s \in Signature : Landed(s)' <=> Landed(s) \/ s = t
  BY LandingMoves DEF LandCollection
<1>2. Held = {} /\ ledger[t].state = "collecting" /\ Payouts(t) = {}
  BY <1>1, NothingHeldYet DEF LandCollection
<1>3. /\ pay'[t].amount = vault /\ ledger' = ledger
      /\ \A s \in Signature : pay'[s].receipts = pay[s].receipts /\ pay'[s].kind = pay[s].kind
  BY DEF LandCollection, IInv, TypeOK, Payment
<1>4. \A s \in Signature : Payouts(s)' = Payouts(s)
  BY <1>3 DEF Payouts
<1>5. \A s \in Signature : PaidOut(s) => PaidOut(s)'
  <2> SUFFICES ASSUME NEW s \in Signature, PaidOut(s) PROVE PaidOut(s)'
    OBVIOUS
  <2>1. CASE \E u \in Payouts(s) : Landed(u)
    <3>1. PICK u \in Signature : u \in Payouts(s) /\ Landed(u)
      BY <2>1 DEF Payouts
    <3>2. u \in Payouts(s)' /\ Landed(u)'
      BY <1>1, <1>4, <3>1
    <3> QED
      BY <3>2 DEF PaidOut
  <2>2. CASE SameWallet /\ ledger[s].state = "recovered"
    BY <1>3, <2>2 DEF PaidOut
  <2> QED
    BY <2>1, <2>2 DEF PaidOut
<1>6. ~PaidOut(t)'
  BY <1>2, <1>3, <1>4 DEF PaidOut
<1>7. Held' = {t}
  <2>1. t \in Held'
    BY <1>1, <1>3, <1>6 DEF Held, LandCollection
  <2>2. ASSUME NEW s \in Held', s # t PROVE s \in Held
    BY <1>1, <1>3, <1>5, <2>2 DEF Held
  <2> QED
    BY <1>2, <2>1, <2>2
<1> QED
  BY <1>2, <1>3, <1>7, HeldAmount DEF HeldRaw

\* In single-wallet mode, marking a receipt recovered hands it over.
LEMMA MarkEmpties ==
  ASSUME IInv, NEW r \in Signature, MarkSameWalletRecovered(r)
  PROVE  HeldRaw = RecoverableAmount(r) /\ HeldRaw' = 0
<1>1. /\ ledger[r].state = "collected" /\ ~RecoveryPending /\ SameWallet
      /\ ledger' = [ledger EXCEPT ![r].state = "recovered"] /\ pay' = pay /\ tx' = tx
  BY DEF MarkSameWalletRecovered, Recoverable, InState, txVars
<1>2. ledger'[r].state = "recovered" /\ \A s \in Signature \ {r} : ledger'[s] = ledger[s]
  BY <1>1 DEF IInv, TypeOK, Receipt
<1>3. Landed(r) /\ pay[r].amount = RecoverableAmount(r) /\ pay[r].kind = "collection"
  BY <1>1 DEF IInv, ReceiptsFit, TransactionsFit, Collected, RecoverableAmount
<1>4. \A s \in Payouts(r) : ~Landed(s)
  BY <1>1 DEF IInv, SolePayout, Dead, Landed
<1>5. Held = {r}
  <2>1. r \in Held
    BY <1>1, <1>3, <1>4 DEF Held, PaidOut
  <2> QED
    BY <2>1, HeldIsOpen
<1>6. Held' = {}
  <2> SUFFICES ASSUME NEW s \in Held' PROVE FALSE
    OBVIOUS
  <2>1. s \in Signature /\ pay[s].kind = "collection" /\ Landed(s) /\ ~PaidOut(s)'
    BY <1>1 DEF Held, Landed
  <2>2. s # r
    BY <1>1, <1>2, <2>1 DEF PaidOut
  <2>3. ~PaidOut(s)
    BY <1>1, <1>2, <2>1, <2>2 DEF PaidOut, Payouts, Landed
  <2> QED
    BY <1>5, <2>1, <2>2, <2>3 DEF Held
<1> QED
  BY <1>3, <1>5, <1>6, HeldAmount DEF HeldRaw

\* A step that signs, settles or waits lands nothing.
LEMMA QuietLands ==
  ASSUME IInv, [Next]_vars,
         ~ \E t \in Signature : LandCollection(t) \/ LandRoute(t) \/ LandRecovery(t)
  PROVE  /\ \A s \in Signature : Landed(s)' <=> Landed(s)
         /\ \A s \in Signature : Landed(s) => pay'[s] = pay[s]
<1>1. CASE UNCHANGED <<pay, txVars>>
  BY <1>1 DEF Landed, txVars
<1>2. ASSUME NEW t \in Signature, Fail(t) \/ Advance(t) \/ Submit(t)
      PROVE  /\ pay' = pay
             /\ \A s \in Signature : Landed(s)' <=> Landed(s)
  BY <1>2 DEF Fail, Advance, Submit, FailTx, Finalize, CloseWindow, PassMargin, SubmitTx,
     Landable, Landed, IInv, TypeOK, TxTypeOK, Transaction
<1>3. ASSUME NEW t \in Signature, NEW kind, NEW receipts, NEW amount,
             Sign(t, kind, receipts, amount)
      PROVE  /\ \A s \in Signature : Landed(s)' <=> Landed(s)
             /\ \A s \in Signature : Landed(s) => pay'[s] = pay[s]
  <2>1. /\ ~Landed(t) /\ ~Landed(t)' /\ \A s \in Signature \ {t} : tx'[s] = tx[s]
    BY <1>3 DEF Sign, SignTx, Signed, Landed, IInv, TypeOK, TxTypeOK, Transaction
  <2>2. \A s \in Signature \ {t} : pay'[s] = pay[s]
    BY <1>3 DEF Sign, IInv, TypeOK
  <2> QED
    BY <2>1, <2>2 DEF Landed
<1>4. CASE Outside
  BY <1>1, <1>4 DEF Outside, AccrueFees, DepositForeign, OwnerSpends, OutsiderCollects
<1>5. CASE Chain
  BY <1>2, <1>5 DEF Chain
<1>6. CASE \/ \E t \in Signature : Sweep(t)
           \/ \E r, t \in Signature : RouteReceipt(r, t)
           \/ \E r, t \in Signature : SubmitRecovery(r, t)
  BY <1>3, <1>6 DEF Sweep, RouteReceipt, SubmitRecovery
<1>7. CASE \E r \in Signature : Settle(r) \/ MarkSameWalletRecovered(r)
  BY <1>1, <1>7 DEF Settle, CollectionFinalized, CollectionExpired, RouteFinalized, RouteExpired,
     MarkSameWalletRecovered, chainVars
<1>8. CASE RecoveryFinalized \/ RecoveryExpired \/ BroadcastLost \/ UNCHANGED vars
  BY <1>1, <1>8 DEF RecoveryFinalized, RecoveryExpired, BroadcastLost, vars, chainVars
<1>9. CASE Broadcast \/ \E t \in Signature : Rebroadcast(t)
  <2>1. ASSUME Broadcast PROVE sending \in Signature
    BY <2>1 DEF Broadcast, Idle, IInv, TypeOK
  <2> QED
    BY <1>2, <1>9, <2>1 DEF Broadcast, Rebroadcast
<1> QED
  BY <1>4, <1>5, <1>6, <1>7, <1>8, <1>9 DEF Next, Program, Recover

\* Only the owner's recovery sends one, and not in single-wallet mode.
LEMMA RecoveriesStay ==
  ASSUME IInv, MoneyFit, [Next]_vars
  PROVE  SameWallet => \A t \in Signature : pay'[t].kind # "recovery"
<1> SUFFICES ASSUME SameWallet PROVE \A t \in Signature : pay'[t].kind # "recovery"
  OBVIOUS
<1>1. ASSUME NEW t \in Signature, NEW kind \in {"collection", "route"}, NEW receipts, NEW amount,
             Sign(t, kind, receipts, amount)
      PROVE  \A s \in Signature : pay'[s].kind # "recovery"
  BY <1>1 DEF Sign, IInv, TypeOK, Payment, MoneyFit
<1>2. CASE \E t \in Signature : LandCollection(t)
  BY <1>2 DEF LandCollection, IInv, TypeOK, Payment, MoneyFit
<1>3. CASE \E t \in Signature : Sweep(t)
  BY <1>1, <1>3 DEF Sweep
<1>4. CASE \E r, t \in Signature : RouteReceipt(r, t)
  BY <1>1, <1>4 DEF RouteReceipt
<1>5. CASE UNCHANGED pay
  BY <1>5 DEF MoneyFit
<1>6. \/ \E t \in Signature : LandCollection(t)
      \/ \E t \in Signature : Sweep(t)
      \/ \E r, t \in Signature : RouteReceipt(r, t)
      \/ UNCHANGED pay
  BY DEF Next, Outside, AccrueFees, DepositForeign, OwnerSpends, OutsiderCollects, Chain,
     LandRoute, LandRecovery, Fail, Advance, Program, Settle, CollectionFinalized,
     CollectionExpired, RouteFinalized, RouteExpired, Recover, SubmitRecovery,
     MarkSameWalletRecovered, RecoveryFinalized, RecoveryExpired, Broadcast, BroadcastLost,
     Rebroadcast, Submit, vars, chainVars
<1> QED
  BY <1>2, <1>3, <1>4, <1>5, <1>6

\* Only these steps change what is held.
LEMMA OthersHold ==
  ASSUME IInv, MoneyFit, [Next]_vars,
         ~ \E t \in Signature : LandCollection(t) \/ LandRoute(t) \/ LandRecovery(t),
         ~ \E r \in Signature : MarkSameWalletRecovered(r)
  PROVE  /\ HeldRaw' = HeldRaw
         /\ balance'["creator"] - foreign' = balance["creator"] - foreign
         /\ UNCHANGED <<balance["holder"], balance["reserve"], balance["recovery"]>>
<1>1. SameWallet => \A r \in Signature :
                      ledger'[r].state = "recovered" <=> ledger[r].state = "recovered"
  <2> SUFFICES ASSUME SameWallet
               PROVE  \A r \in Signature :
                        ledger'[r].state = "recovered" <=> ledger[r].state = "recovered"
    OBVIOUS
  <2>1. CASE UNCHANGED ledger
    BY <2>1
  <2>2. CASE RecoveryFinalized
    BY <2>2 DEF RecoveryFinalized, IInv, RecoveryFits, MoneyFit
  <2>3. ASSUME NEW t \in Signature, Sweep(t)
        PROVE  \A r \in Signature :
                 ledger'[r].state = "recovered" <=> ledger[r].state = "recovered"
    <3>1. ~Signed(t)
      BY <2>3, Signing DEF Sweep, Sign, IInv, TypeOK
    <3>2. ledger[t].state = "absent"
      BY <3>1 DEF IInv, TransactionsFit
    <3> QED
      BY <2>3, <3>2 DEF Sweep, IInv, TypeOK, Receipt
  <2>4. ASSUME NEW r \in Signature, Settle(r) \/ \E t \in Signature : RouteReceipt(r, t)
        PROVE  \A s \in Signature :
                 ledger'[s].state = "recovered" <=> ledger[s].state = "recovered"
    BY <2>4 DEF Settle, CollectionFinalized, CollectionExpired, RouteFinalized, RouteExpired,
       RouteReceipt, IInv, TypeOK, Receipt
  <2> QED
    BY <2>1, <2>2, <2>3, <2>4 DEF Next, Outside, AccrueFees, DepositForeign, OwnerSpends,
       OutsiderCollects, Chain, Fail, Advance, Program, Recover, SubmitRecovery,
       RecoveryExpired, Broadcast, BroadcastLost, Rebroadcast, Submit, vars
<1>2. HeldRaw' = HeldRaw
  BY <1>1, QuietLands, HeldStays
<1>3. CASE Outside
  <2>1. Amount \subseteq Nat
    BY ConstantsAssumption
  <2> QED
    BY <1>2, <1>3, <2>1 DEF Outside, AccrueFees, DepositForeign, OwnerSpends, OutsiderCollects,
       IInv, TypeOK, Wallet
<1>4. CASE ~Outside
  <2>1. UNCHANGED <<balance, foreign>>
    BY <1>4 DEF Next, Chain, Fail, Advance, Program, Sweep, Sign, Settle, CollectionFinalized,
       CollectionExpired, RouteFinalized, RouteExpired, RouteReceipt, Recover, SubmitRecovery,
       RecoveryFinalized, RecoveryExpired, Broadcast, BroadcastLost, Rebroadcast, Submit, vars,
       chainVars, moneyVars
  <2> QED
    BY <1>2, <2>1
<1> QED
  BY <1>3, <1>4

\* The held amount is one.
LEMMA HeldType ==
  ASSUME IInv
  PROVE  HeldRaw \in Nat
<1>1. CASE Held = {}
  BY <1>1 DEF HeldRaw
<1>2. CASE Held # {}
  <2>1. PICK r \in Held : Held = {r}
    BY <1>2, HeldIsOpen
  <2> QED
    BY <2>1, HeldAmount DEF Held, IInv, TypeOK, Payment
<1> QED
  BY <1>1, <1>2

\* Every step keeps the account in order and the promise of custody.
LEMMA MoneyStep ==
  ASSUME IInv, TypeOK', MoneyFit, [Next]_vars
  PROVE  MoneyFit' /\ [Custody!Next]_(Custody!custodyVars)
<1>1. SameWallet => \A t \in Signature : pay'[t].kind # "recovery"
  BY RecoveriesStay
<1>2. /\ balance \in [Wallet -> Nat] /\ foreign \in Int /\ vault \in Nat
      /\ balance["creator"] \in Nat /\ balance["creator"] = foreign + HeldRaw
      /\ HeldRaw \in Nat
  BY HeldType DEF IInv, TypeOK, Wallet, MoneyFit
<1>3. ASSUME NEW t \in Signature, LandCollection(t)
      PROVE  balance'["creator"] = foreign' + HeldRaw' /\ [Custody!Next]_(Custody!custodyVars)
  <2>1. HeldRaw = 0 /\ HeldRaw' = vault
    BY <1>3, CollectionFills
  <2>2. /\ balance' = [balance EXCEPT !["creator"] = balance["creator"] + vault]
        /\ foreign' = foreign
    BY <1>3 DEF LandCollection
  <2>3. /\ balance'["creator"] = balance["creator"] + vault
        /\ balance'["holder"] = balance["holder"] /\ balance'["reserve"] = balance["reserve"]
        /\ balance'["recovery"] = balance["recovery"]
    BY <1>2, <2>2 DEF Wallet
  <2> QED
    BY <1>2, <2>1, <2>2, <2>3 DEF Custody!Next, Custody!Collect, Custody!custodyVars
<1>4. ASSUME NEW t \in Signature, LandRoute(t)
      PROVE  balance'["creator"] = foreign' + HeldRaw' /\ [Custody!Next]_(Custody!custodyVars)
  <2>1. HeldRaw = pay[t].amount /\ HeldRaw' = 0
    BY <1>4, PayoutEmpties DEF LandRoute
  <2>2. /\ balance'["creator"] = balance["creator"] - pay[t].amount
        /\ balance'["holder"] = balance["holder"] + HolderRaw(pay[t].amount)
        /\ balance'["reserve"] = balance["reserve"] + ReserveRaw(pay[t].amount)
        /\ balance'["recovery"] = balance["recovery"]
        /\ foreign' = foreign
    BY <1>2, <1>4 DEF LandRoute, Wallet
  <2>3. /\ HolderRaw(pay[t].amount) = Custody!HolderRaw(HeldRaw)
        /\ ReserveRaw(pay[t].amount) = Custody!ReserveRaw(HeldRaw)
    BY <2>1 DEF HolderRaw, ReserveRaw, Custody!HolderRaw, Custody!ReserveRaw, BASIS_POINTS,
       HOLDER_REWARD_BPS, Custody!BASIS_POINTS, Custody!HOLDER_REWARD_BPS
  <2>4. Custody!Route
    BY <2>1, <2>2, <2>3 DEF Custody!Route
  <2>5. balance'["creator"] = foreign' + HeldRaw'
    BY <1>2, <2>1, <2>2
  <2> QED
    BY <2>4, <2>5 DEF Custody!Next
<1>5. ASSUME NEW t \in Signature, LandRecovery(t)
      PROVE  balance'["creator"] = foreign' + HeldRaw' /\ [Custody!Next]_(Custody!custodyVars)
  <2>1. HeldRaw = pay[t].amount /\ HeldRaw' = 0 /\ ~SameWallet
    BY <1>5, PayoutEmpties DEF LandRecovery, MoneyFit
  <2>2. /\ balance'["creator"] = balance["creator"] - pay[t].amount
        /\ balance'["recovery"] = balance["recovery"] + pay[t].amount
        /\ balance'["holder"] = balance["holder"] /\ balance'["reserve"] = balance["reserve"]
        /\ foreign' = foreign
    BY <1>2, <1>5 DEF LandRecovery, Wallet
  <2>3. balance'["creator"] = foreign' + HeldRaw'
    BY <1>2, <2>1, <2>2
  <2>4. Custody!Recover
    BY <2>1, <2>2 DEF Custody!Recover
  <2> QED
    BY <2>3, <2>4 DEF Custody!Next
<1>6. ASSUME NEW r \in Signature, MarkSameWalletRecovered(r)
      PROVE  balance'["creator"] = foreign' + HeldRaw' /\ [Custody!Next]_(Custody!custodyVars)
  <2>1. HeldRaw = RecoverableAmount(r) /\ HeldRaw' = 0 /\ SameWallet
    BY <1>6, MarkEmpties DEF MarkSameWalletRecovered
  <2>2. balance' = balance /\ foreign' = foreign + RecoverableAmount(r)
    BY <1>6 DEF MarkSameWalletRecovered
  <2> QED
    BY <1>2, <2>1, <2>2 DEF Custody!Next, Custody!Recover
<1>7. ASSUME ~ \E t \in Signature : LandCollection(t) \/ LandRoute(t) \/ LandRecovery(t),
             ~ \E r \in Signature : MarkSameWalletRecovered(r)
      PROVE  balance'["creator"] = foreign' + HeldRaw' /\ [Custody!Next]_(Custody!custodyVars)
  <2>1. /\ HeldRaw' = HeldRaw
        /\ balance'["creator"] - foreign' = balance["creator"] - foreign
        /\ UNCHANGED <<balance["holder"], balance["reserve"], balance["recovery"]>>
    BY <1>7, OthersHold
  <2>2. foreign' \in Int /\ balance'["creator"] \in Nat
    BY DEF TypeOK, Wallet
  <2>3. balance'["creator"] = foreign' + HeldRaw'
    BY <1>2, <2>1, <2>2
  <2>4. Custody!OwnMoves
    BY <2>1, <2>2 DEF Custody!OwnMoves
  <2> QED
    BY <2>3, <2>4 DEF Custody!Next
<1>8. balance'["creator"] = foreign' + HeldRaw' /\ [Custody!Next]_(Custody!custodyVars)
  BY <1>3, <1>4, <1>5, <1>6, <1>7
<1> QED
  BY <1>1, <1>8 DEF MoneyFit

\* The account is in order in every reachable state.
THEOREM MoneyInvariance == Spec => []MoneyFit
<1>1. Init => MoneyFit
  <2> SUFFICES ASSUME Init PROVE MoneyFit
    OBVIOUS
  <2>1. Held = {}
    BY DEF Init, Held, NoPayment
  <2> QED
    BY <2>1 DEF Init, MoneyFit, HeldRaw, Wallet, NoPayment
<1>2. IInv /\ TypeOK' /\ MoneyFit /\ [Next]_vars => MoneyFit'
  BY MoneyStep
<1> QED
  BY <1>1, <1>2, Invariance, TypeCorrect, PTL DEF Spec

\* No transfer ever took from MSTRx that was in the account for another reason.
THEOREM UnrelatedUntouchedHolds == Spec => []UnrelatedUntouched
<1>1. IInv /\ MoneyFit => UnrelatedUntouched
  BY HeldIsOpen DEF MoneyFit, UnrelatedUntouched
<1> QED
  BY <1>1, Invariance, MoneyInvariance, PTL

\* Settlement keeps the custody promise: what is collected leaves once and whole.
THEOREM KeepsCustodyHolds == Spec => KeepsCustody
<1>1. Init => Custody!Init
  <2> SUFFICES ASSUME Init PROVE Custody!Init
    OBVIOUS
  <2>1. Held = {}
    BY DEF Init, Held, NoPayment
  <2> QED
    BY <2>1 DEF Init, Custody!Init, HeldRaw, Wallet
<1>2. IInv /\ TypeOK' /\ MoneyFit /\ [Next]_vars => [Custody!Next]_(Custody!custodyVars)
  BY MoneyStep
<1> QED
  BY <1>1, <1>2, Invariance, TypeCorrect, MoneyInvariance, PTL DEF Spec, KeepsCustody, Custody!Spec

=============================================================================
