------------------------- MODULE SolanaTransactions -------------------------
(***************************************************************************)
(* The life of a signed Solana transaction, and what two RPC providers may *)
(* say of it.  Shared by every component that signs, saves, broadcasts and *)
(* later reconciles a transaction.                                         *)
(*                                                                         *)
(* Block heights appear as the window of each transaction: "open" up to    *)
(* its lastValidBlockHeight, "closing" for the next 32 blocks, then        *)
(* "past".  A provider's height may lag the chain's, and its signature     *)
(* status may lag its height by up to those 32 blocks.                     *)
(***************************************************************************)
EXTENDS Integers, FiniteSets

CONSTANTS
  Signature,     \* transaction signatures
  NoSignature,   \* no transaction
  Rpc,           \* the RPC providers, two in production
  Faulty,        \* providers whose answers about a transaction are arbitrary
  MaxDrops       \* bound: transactions the network lets expire

ASSUME TransactionsAssumption ==
  /\ NoSignature \notin Signature
  /\ Faulty \subseteq Rpc
  /\ Rpc \ Faulty # {}
  /\ MaxDrops \in Nat

VARIABLES
  tx,     \* every signature's transaction
  drops   \* history: transactions that expired before landing

txVars == <<tx, drops>>

Transaction ==
  [window: {"open", "closing", "past"},
   status: {"unsigned", "signed", "sent", "landed", "failed"},
   commitment: {"confirmed", "finalized"}]

Unsigned == [window |-> "open", status |-> "unsigned", commitment |-> "confirmed"]

TxTypeOK == tx \in [Signature -> Transaction] /\ drops \in Nat

TxInit == tx = [s \in Signature |-> Unsigned] /\ drops = 0

Signed(t) == tx[t].status # "unsigned"
Landed(t) == tx[t].status = "landed"

-----------------------------------------------------------------------------
\* prepareSignedTransaction: a fresh signature over a fresh blockhash.
SignTx(t) ==
  /\ ~Signed(t)
  /\ tx' = [tx EXCEPT ![t].status = "signed"]
  /\ UNCHANGED drops

\* sendRawTransaction: sending the same bytes again changes nothing.
SubmitTx(t) ==
  /\ tx' = [tx EXCEPT ![t].status = IF @ = "signed" THEN "sent" ELSE @]
  /\ UNCHANGED drops

Landable(t) == tx[t].status = "sent" /\ tx[t].window = "open"

LandTx(t) ==
  /\ Landable(t)
  /\ tx' = [tx EXCEPT ![t].status = "landed"]
  /\ UNCHANGED drops

FailTx(t) ==
  /\ Landable(t)
  /\ tx' = [tx EXCEPT ![t].status = "failed"]
  /\ UNCHANGED drops

Finalize(t) ==
  /\ tx[t].status \in {"landed", "failed"}
  /\ tx[t].commitment = "confirmed"
  /\ tx' = [tx EXCEPT ![t].commitment = "finalized"]
  /\ UNCHANGED drops

\* The chain moves past lastValidBlockHeight.  The height tells nothing more of
\* a transaction that is finalized.
CloseWindow(t) ==
  /\ Signed(t)
  /\ tx[t].window = "open"
  /\ tx[t].commitment = "confirmed"
  /\ tx[t].status \in {"signed", "sent"} => drops < MaxDrops
  /\ drops' = IF tx[t].status \in {"signed", "sent"} THEN drops + 1 ELSE drops
  /\ tx' = [tx EXCEPT ![t].window = "closing"]

\* And 32 blocks further: what has landed is finalized before that.
PassMargin(t) ==
  /\ tx[t].window = "closing"
  /\ tx[t].status \in {"signed", "sent"}
  /\ tx' = [tx EXCEPT ![t].window = "past"]
  /\ UNCHANGED drops

-----------------------------------------------------------------------------
\* A provider returns t at finalized commitment.
ReturnsFinalized(rpc, t) == rpc \in Faulty \/ tx[t].commitment = "finalized"

\* Mutant: one provider is enough.
AgreedFinalizedAny(t) == \E rpc \in Rpc : ReturnsFinalized(rpc, t)

\* readAgreedFinalizedTransaction returns t only if every provider does, and
\* throws unless they return the same; a transaction with an error throws.
AgreedFinalized(t) ==
  /\ \A rpc \in Rpc : ReturnsFinalized(rpc, t)
  /\ Landed(t)

\* Mutant: no 32-block margin, so the status may lag the height.
ReportsExpiredNoMargin(rpc, t) ==
  rpc \in Faulty \/ (tx[t].window # "open" /\ tx[t].commitment # "finalized")

\* A provider answers that t has no status and its height is 32 blocks past the
\* last valid one.  By then an honest provider knows every block t could be in.
ReportsExpired(rpc, t) ==
  \/ rpc \in Faulty
  \/ /\ tx[t].window = "past"
     /\ tx[t].status \notin {"landed", "failed"}

\* Mutant: one provider is enough.
AgreedExpiredAny(t) == \E rpc \in Rpc : ReportsExpired(rpc, t)

AgreedExpired(t) == \A rpc \in Rpc : ReportsExpired(rpc, t)

-----------------------------------------------------------------------------
\* The network lands a transaction it keeps receiving is stated where the
\* effects are; finality and height go on by themselves.
TxFairness ==
  \A t \in Signature : WF_txVars(Finalize(t)) /\ WF_txVars(PassMargin(t))

=============================================================================
