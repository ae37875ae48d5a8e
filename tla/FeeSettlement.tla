---------------------------- MODULE FeeSettlement ----------------------------
(***************************************************************************)
(* The creator-fee settlement ledger (services/solana/feeSettlement.ts)    *)
(* against the Solana chain it drives.                                     *)
(*                                                                         *)
(* A receipt is born when a collection transaction is signed, is measured  *)
(* when that transaction is finalized, and is settled by one route         *)
(* (60% holder inventory, 40% reserve) or by one recovery transfer to the  *)
(* owner.  Every transaction is signed and saved in fee-settlement.json    *)
(* before it is broadcast, so the process may stop anywhere.               *)
(*                                                                         *)
(* Rules of the abstraction:                                               *)
(*  - an action of the program runs from loading the file to the next      *)
(*    save; nothing of a call survives in memory between two saves except  *)
(*    the transaction it is about to broadcast (`sending').  A call that   *)
(*    falls through two saves is two actions, since stopping between them  *)
(*    leaves exactly the state the second one starts from;                 *)
(*  - a transaction's life on chain is SolanaTransactions; `pay` is what it *)
(*    does there;                                                          *)
(*  - the curve and PumpSwap fee sources are one vault.                    *)
(***************************************************************************)
EXTENDS FeeSplit, SolanaTransactions

CONSTANTS
  SameWallet,    \* the recovery wallet is the creator wallet
  MinimumSweep,  \* minimumSweepRaw
  Amount,        \* bound: amounts by which the outside world moves MSTRx
  MaxVault,      \* bound: uncollected fees
  MaxForeign,    \* bound: unrelated MSTRx in the creator account
  MaxReceipts,   \* bound: receipts
  Meddling       \* others also spend from the creator account and sweep the vault

ASSUME ConstantsAssumption ==
  /\ SameWallet \in BOOLEAN
  /\ Meddling \in BOOLEAN
  /\ MinimumSweep \in Nat \ {0}
  /\ Amount \subseteq Nat \ {0}
  /\ MaxVault \in Nat
  /\ MaxForeign \in Nat
  /\ MaxReceipts \in Nat

VARIABLES
  ledger,    \* fee-settlement.json: the receipts, named by collection signature
  recovery,  \* fee-settlement.json: the recovery transfer
  sending,   \* memory: the saved transaction about to be broadcast
  pay,       \* chain: what each transaction does
  vault,     \* chain: uncollected creator fees
  balance,   \* chain: finalized MSTRx of the four wallets
  foreign    \* history: the creator account's MSTRx that no collection brought

moneyVars == <<vault, balance, foreign>>
chainVars == <<pay, moneyVars, txVars>>
vars == <<ledger, recovery, sending, chainVars>>

Wallet == {"creator", "holder", "reserve", "recovery"}

Receipt ==
  [state: {"absent", "collecting", "expired", "collected", "routing", "routed",
           "recovered"},
   collectedRaw: Nat,
   route: Signature \cup {NoSignature}]

Recovery ==
  [state: {"none", "submitted", "confirmed"},
   transaction: Signature \cup {NoSignature},
   amount: Nat,
   receiptSignatures: SUBSET Signature]

Payment ==
  [kind: {"none", "collection", "route", "recovery"},
   receipts: SUBSET Signature,  \* the receipts a route or a recovery pays out
   amount: Nat]                 \* what it moves; a collection learns it on landing

NoReceipt == [state |-> "absent", collectedRaw |-> 0, route |-> NoSignature]
NoRecovery == [state |-> "none", transaction |-> NoSignature, amount |-> 0,
               receiptSignatures |-> {}]
NoPayment == [kind |-> "none", receipts |-> {}, amount |-> 0]

Init ==
  /\ ledger = [s \in Signature |-> NoReceipt]
  /\ recovery = NoRecovery
  /\ sending = NoSignature
  /\ pay = [s \in Signature |-> NoPayment]
  /\ TxInit
  /\ vault = 0
  /\ balance = [w \in Wallet |-> 0]
  /\ foreign = 0

-----------------------------------------------------------------------------
(***************************************************************************)
(* The chain and the outside world.                                        *)
(***************************************************************************)
AccrueFees(a) ==
  /\ vault + a <= MaxVault
  /\ vault' = vault + a
  /\ UNCHANGED <<ledger, recovery, sending, pay, balance, foreign, txVars>>

DepositForeign(a) ==
  /\ foreign + a <= MaxForeign
  /\ foreign' = foreign + a
  /\ balance' = [balance EXCEPT !["creator"] = @ + a]
  /\ UNCHANGED <<ledger, recovery, sending, pay, vault, txVars>>

\* The owner holds the creator key too and may move MSTRx out of the account.
OwnerSpends(a) ==
  /\ Meddling
  /\ balance["creator"] >= a
  /\ foreign - a >= -MaxForeign
  /\ foreign' = foreign - a
  /\ balance' = [balance EXCEPT !["creator"] = @ - a]
  /\ UNCHANGED <<ledger, recovery, sending, pay, vault, txVars>>

\* A collection needs no creator signature, so anyone may send one.
OutsiderCollects ==
  /\ Meddling
  /\ vault > 0
  /\ foreign + vault <= MaxForeign
  /\ vault' = 0
  /\ foreign' = foreign + vault
  /\ balance' = [balance EXCEPT !["creator"] = @ + vault]
  /\ UNCHANGED <<ledger, recovery, sending, pay, txVars>>

LandCollection(t) ==
  /\ LandTx(t)
  /\ pay[t].kind = "collection"
  /\ pay' = [pay EXCEPT ![t].amount = vault]
  /\ vault' = 0
  /\ balance' = [balance EXCEPT !["creator"] = @ + vault]
  /\ UNCHANGED <<ledger, recovery, sending, foreign>>

LandRoute(t) ==
  /\ LandTx(t)
  /\ pay[t].kind = "route"
  /\ balance["creator"] >= pay[t].amount
  /\ balance' = [balance EXCEPT !["creator"] = @ - pay[t].amount,
                                !["holder"] = @ + HolderRaw(pay[t].amount),
                                !["reserve"] = @ + ReserveRaw(pay[t].amount)]
  /\ UNCHANGED <<ledger, recovery, sending, pay, vault, foreign>>

LandRecovery(t) ==
  /\ LandTx(t)
  /\ pay[t].kind = "recovery"
  /\ balance["creator"] >= pay[t].amount
  /\ balance' = [balance EXCEPT !["creator"] = @ - pay[t].amount,
                                !["recovery"] = @ + pay[t].amount]
  /\ UNCHANGED <<ledger, recovery, sending, pay, vault, foreign>>

\* A transfer whose balance has gone by the time it executes fails on chain.
Fail(t) ==
  /\ FailTx(t)
  /\ pay[t].kind \in {"route", "recovery"}
  /\ balance["creator"] < pay[t].amount
  /\ UNCHANGED <<ledger, recovery, sending, pay, moneyVars>>

\* Blocks go by.
Advance(t) ==
  /\ Finalize(t) \/ CloseWindow(t) \/ PassMargin(t)
  /\ UNCHANGED <<ledger, recovery, sending, pay, moneyVars>>

-----------------------------------------------------------------------------
(***************************************************************************)
(* The program.                                                            *)
(***************************************************************************)
Idle == sending = NoSignature

Sign(t, kind, receipts, amount) ==
  /\ SignTx(t)
  /\ pay' = [pay EXCEPT ![t] = [kind |-> kind, receipts |-> receipts, amount |-> amount]]
  /\ UNCHANGED moneyVars

InState(states) == {r \in Signature : ledger[r].state \in states}

\* sweepCreatorFees looks for a receipt in one of these states before collecting.
Pending == InState({"collecting", "collected", "routing"})

RecoveryPending == recovery.state = "submitted"

Sweep(t) ==
  /\ Idle
  /\ ~RecoveryPending
  /\ Pending = {}
  /\ vault >= MinimumSweep
  /\ Cardinality(Signature \ InState({"absent"})) < MaxReceipts
  /\ Sign(t, "collection", {}, 0)
  /\ ledger' = [ledger EXCEPT ![t].state = "collecting"]
  /\ sending' = t
  /\ UNCHANGED recovery

\* Mutant: the balance is taken for the delta.
CollectionFinalizedBalance(r) ==
  /\ Idle
  /\ ledger[r].state = "collecting"
  /\ AgreedFinalized(r)
  /\ ledger' = [ledger EXCEPT ![r].state = "collected", ![r].collectedRaw = balance["creator"]]
  /\ UNCHANGED <<recovery, sending, chainVars>>

\* reconcileReceipt on a collecting receipt.  A zero increase throws.
CollectionFinalized(r) ==
  /\ Idle
  /\ ledger[r].state = "collecting"
  /\ AgreedFinalized(r)
  /\ pay[r].amount > 0
  /\ ledger' = [ledger EXCEPT ![r].state = "collected", ![r].collectedRaw = pay[r].amount]
  /\ UNCHANGED <<recovery, sending, chainVars>>

CollectionExpired(r) ==
  /\ Idle
  /\ ledger[r].state = "collecting"
  /\ AgreedExpired(r)
  /\ ledger' = [ledger EXCEPT ![r].state = "expired"]
  /\ UNCHANGED <<recovery, sending, chainVars>>

RouteReceipt(r, t) ==
  /\ Idle
  /\ ~RecoveryPending
  /\ ledger[r].state = "collected"
  /\ ledger[r].collectedRaw > 0
  /\ ledger[r].collectedRaw <= balance["creator"]
  /\ Sign(t, "route", {r}, ledger[r].collectedRaw)
  /\ ledger' = [ledger EXCEPT ![r].state = "routing", ![r].route = t]
  /\ sending' = t
  /\ UNCHANGED recovery

\* reconcileReceipt on a routing receipt: the deltas must be the receipt's.
RouteFinalized(r) ==
  /\ Idle
  /\ ledger[r].state = "routing"
  /\ AgreedFinalized(ledger[r].route)
  /\ pay[ledger[r].route].kind = "route"
  /\ pay[ledger[r].route].amount = ledger[r].collectedRaw
  /\ ledger' = [ledger EXCEPT ![r].state = "routed"]
  /\ UNCHANGED <<recovery, sending, chainVars>>

\* Mutants: a closed window is taken for expiry; expiry is not written down.
RouteExpiredEarly(r) ==
  /\ Idle
  /\ ledger[r].state = "routing"
  /\ tx[ledger[r].route].window # "open"
  /\ ledger' = [ledger EXCEPT ![r].state = "collected", ![r].route = NoSignature]
  /\ UNCHANGED <<recovery, sending, chainVars>>
RouteExpiredKeepsState(r) ==
  /\ Idle
  /\ ledger[r].state = "routing"
  /\ AgreedExpired(ledger[r].route)
  /\ UNCHANGED <<ledger, recovery, sending, chainVars>>

RouteExpired(r) ==
  /\ Idle
  /\ ledger[r].state = "routing"
  /\ AgreedExpired(ledger[r].route)
  /\ ledger' = [ledger EXCEPT ![r].state = "collected", ![r].route = NoSignature]
  /\ UNCHANGED <<recovery, sending, chainVars>>

\* recoverableFeeAmount throws while a receipt's transaction is unresolved.
Unresolved == InState({"collecting", "routing"})
Recoverable == InState({"collected"})
\* Mutant: everything in the creator account is recoverable.
RecoverableAmountBalance(r) == balance["creator"]
RecoverableAmount(r) == ledger[r].collectedRaw

\* recoverUncommittedCreatorFees with no recovery in flight.  It sums the
\* collected receipts, of which a ledger never holds two (OneOpenReceipt).
SubmitRecovery(r, t) ==
  /\ Idle
  /\ ~RecoveryPending
  /\ ~SameWallet
  /\ Unresolved = {}
  /\ Recoverable = {r}
  /\ RecoverableAmount(r) > 0
  /\ RecoverableAmount(r) <= balance["creator"]
  /\ Sign(t, "recovery", Recoverable, RecoverableAmount(r))
  /\ recovery' = [state |-> "submitted", transaction |-> t,
                  amount |-> RecoverableAmount(r), receiptSignatures |-> Recoverable]
  /\ sending' = t
  /\ UNCHANGED ledger

\* Single-wallet mode: the fees already are where they would go.
MarkSameWalletRecovered(r) ==
  /\ Idle
  /\ ~RecoveryPending
  /\ SameWallet
  /\ Unresolved = {}
  /\ Recoverable = {r}
  /\ RecoverableAmount(r) > 0
  /\ RecoverableAmount(r) <= balance["creator"]
  /\ ledger' = [ledger EXCEPT ![r].state = "recovered"]
  /\ foreign' = foreign + RecoverableAmount(r)
  /\ UNCHANGED <<recovery, sending, pay, vault, balance, txVars>>

RecoveryFinalized ==
  /\ Idle
  /\ RecoveryPending
  /\ AgreedFinalized(recovery.transaction)
  /\ pay[recovery.transaction].amount = recovery.amount
  /\ ledger' = [r \in Signature |-> IF r \in recovery.receiptSignatures
                                    THEN [ledger[r] EXCEPT !.state = "recovered"]
                                    ELSE ledger[r]]
  /\ recovery' = [recovery EXCEPT !.state = "confirmed"]
  /\ UNCHANGED <<sending, chainVars>>

RecoveryExpired ==
  /\ Idle
  /\ RecoveryPending
  /\ AgreedExpired(recovery.transaction)
  /\ recovery' = NoRecovery
  /\ UNCHANGED <<ledger, sending, chainVars>>

\* The saved transactions whose outcome the ledger still waits for.
Awaited(t) ==
  \/ ledger[t].state = "collecting"
  \/ \E r \in Signature : ledger[r].state = "routing" /\ ledger[r].route = t
  \/ RecoveryPending /\ recovery.transaction = t

Submit(t) ==
  /\ SubmitTx(t)
  /\ UNCHANGED <<ledger, recovery, pay, moneyVars>>

\* The broadcast that follows the save of a freshly signed transaction.
Broadcast ==
  /\ ~Idle
  /\ Submit(sending)
  /\ sending' = NoSignature

\* The process stops, or the provider refuses, before the transaction is out.
BroadcastLost ==
  /\ ~Idle
  /\ sending' = NoSignature
  /\ UNCHANGED <<ledger, recovery, chainVars>>

\* pendingTransaction sends the saved bytes again while a provider's height is
\* not past lastValidBlockHeight.
Rebroadcast(t) ==
  /\ Idle
  /\ Awaited(t)
  /\ tx[t].window = "open"
  /\ Submit(t)
  /\ UNCHANGED sending

-----------------------------------------------------------------------------
Outside ==
  \/ \E a \in Amount : AccrueFees(a) \/ DepositForeign(a) \/ OwnerSpends(a)
  \/ OutsiderCollects

Chain ==
  \E t \in Signature :
    \/ LandCollection(t) \/ LandRoute(t) \/ LandRecovery(t) \/ Fail(t)
    \/ Advance(t)

Settle(r) ==
  \/ CollectionFinalized(r) \/ CollectionExpired(r)
  \/ RouteFinalized(r) \/ RouteExpired(r)

Recover ==
  \/ \E r, t \in Signature : SubmitRecovery(r, t)
  \/ \E r \in Signature : MarkSameWalletRecovered(r)
  \/ RecoveryFinalized
  \/ RecoveryExpired

Program ==
  \/ \E t \in Signature : Sweep(t) \/ Rebroadcast(t)
  \/ \E r \in Signature : Settle(r)
  \/ \E r, t \in Signature : RouteReceipt(r, t)
  \/ Recover
  \/ Broadcast
  \/ BroadcastLost

Next == Outside \/ Chain \/ Program

Spec == Init /\ [][Next]_vars

(***************************************************************************)
(* Fairness.  The control loop runs a fee tick every interval for ever and *)
(* the owner follows a recovery up, so each program step that stays        *)
(* possible is taken; the network lands a transaction it keeps receiving,  *)
(* and its height grows.  Nothing is assumed of Sweep (fees need not       *)
(* accrue), of the outside world, or of BroadcastLost.                     *)
(***************************************************************************)
Fairness ==
  /\ TxFairness
  /\ WF_vars(Broadcast)
  /\ \A t \in Signature :
       /\ WF_vars(Rebroadcast(t))
       /\ WF_vars(LandCollection(t) \/ LandRoute(t) \/ LandRecovery(t))
  /\ \A r \in Signature : WF_vars(Settle(r))
  /\ \A r \in Signature : WF_vars(\E t \in Signature : RouteReceipt(r, t))
  /\ WF_vars(RecoveryFinalized)
  /\ WF_vars(RecoveryExpired)

FairSpec == Spec /\ Fairness

-----------------------------------------------------------------------------
(***************************************************************************)
(* Properties.                                                             *)
(***************************************************************************)
\* Every variable has its type.
TypeOK ==
  /\ ledger \in [Signature -> Receipt]
  /\ recovery \in Recovery
  /\ sending \in Signature \cup {NoSignature}
  /\ pay \in [Signature -> Payment]
  /\ TxTypeOK
  /\ vault \in Nat
  /\ balance \in [Wallet -> Nat]
  /\ foreign \in Int

\* The transactions that pay receipt r out.
Payouts(r) == {t \in Signature : r \in pay[t].receipts}

\* A receipt is paid out by at most one transaction that lands, however often
\* its route expired, was signed again, or gave way to a recovery
\* (reconcileReceipt and recoverUncommittedCreatorFees).
PaidOutOnce ==
  \A r \in Signature : \A s, t \in Payouts(r) : Landed(s) /\ Landed(t) => s = t

\* A transaction the ledger has let go of, a collection marked expired or a
\* route or recovery replaced, never lands (pendingTransaction's "expired").
AbandonedNeverLands ==
  \A t \in Signature :
    /\ ledger[t].state = "expired" => ~Landed(t)
    /\ Landed(t) /\ pay[t].kind = "route" =>
         \E r \in pay[t].receipts : ledger[r].route = t
    /\ Landed(t) /\ pay[t].kind = "recovery" =>
         \/ recovery.transaction = t
         \/ \A r \in pay[t].receipts : ledger[r].state = "recovered"

\* At most one receipt is open, so routing one never takes another's MSTRx
\* (the pending check of sweepCreatorFees).
OneOpenReceipt == \A r, s \in InState({"collecting", "collected", "routing"}) : r = s

\* What the file says of a receipt is so on chain: a routed one was paid out,
\* a recovered one too, and a collected one has been collected and not paid out
\* (or only by the recovery in flight).
LedgerTruth ==
  \A r \in Signature :
    /\ ledger[r].state = "routed" => \E t \in Payouts(r) : pay[t].kind = "route" /\ Landed(t)
    /\ ledger[r].state = "recovered" =>
         SameWallet \/ \E t \in Payouts(r) : pay[t].kind = "recovery" /\ Landed(t)
    /\ ledger[r].state = "collected" =>
         /\ Landed(r)
         /\ ledger[r].collectedRaw = pay[r].amount
         /\ ~RecoveryPending => \A t \in Payouts(r) : ~Landed(t)

\* Every payout that lands moves exactly what its receipt's collection brought.
PayoutIsReceipt ==
  \A t \in Signature : Landed(t) =>
    \A r \in pay[t].receipts : Landed(r) /\ pay[t].amount = pay[r].amount

\* Receipts whose collection landed and whose MSTRx is still in the creator
\* account on their behalf.
PaidOut(r) ==
  \/ \E t \in Payouts(r) : Landed(t)
  \/ SameWallet /\ ledger[r].state = "recovered"
Held == {r \in Signature : pay[r].kind = "collection" /\ Landed(r) /\ ~PaidOut(r)}
HeldRaw == IF Held = {} THEN 0 ELSE pay[CHOOSE r \in Held : TRUE].amount

\* The creator account is exactly the unrelated MSTRx and the held receipt: no
\* transfer ever took from MSTRx that was in the account for another reason
\* (docs/operations.md:83, "Never sweep unrelated MSTRx").
UnrelatedUntouched ==
  /\ \A r, s \in Held : r = s
  /\ balance["creator"] = foreign + HeldRaw

\* Settlement keeps the custody promise of FeeCustody.
Custody == INSTANCE FeeCustody WITH
  held <- HeldRaw, own <- foreign, holder <- balance["holder"],
  reserve <- balance["reserve"], recovered <- balance["recovery"]
KeepsCustody == Custody!Spec

\* Every collection that is signed ends expired, routed or recovered.
EverySweepEnds ==
  \A r \in Signature :
    ledger[r].state = "collecting" ~> ledger[r].state \in {"expired", "routed", "recovered"}

=============================================================================
