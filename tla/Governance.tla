----------------------------- MODULE Governance -----------------------------
(***************************************************************************)
(* GovernanceController, RestrictedExecutor and the two vaults they move,  *)
(* with the keeper that executes proposals and releases locks.  A call is  *)
(* one transaction: what reverts changes nothing, so it is no action.      *)
(*                                                                         *)
(* The role holders act as deployed: one proposer, the controller as the   *)
(* executor's only caller, the executor as the vaults' only caller.        *)
(* Amounts and weights stay far below the uint128 and uint64 limits.       *)
(***************************************************************************)
EXTENDS ReserveVault, TokenLockVault

CONSTANTS
  Holders,
  Ballots,              \* [root, total]: weight per listed holder, published total
  Menus,                \* option lists the team may propose
  VotingDurations,      \* between MIN_ and MAX_VOTING_DURATION
  ExecutionDelay,       \* EXECUTION_DELAY
  QuorumBps, BPS,       \* QUORUM_BPS of BPS
  SwapOutput,           \* tokens a purchase may deliver
  MaxProposals,         \* bound: proposals, and the ids calls name
  StrayCalls            \* may execute be called with an id not yet proposed?

VARIABLES
  proposalCount,
  activeProposalId,
  proposals,          \* with _options and optionVotes of the proposal
  hasVoted,
  proposalExecuted,   \* RestrictedExecutor: the ids it has run
  optionsExecuted     \* the OptionExecuted events

govVars == <<proposalCount, activeProposalId, proposals, hasVoted>>
execVars == <<proposalExecuted, optionsExecuted>>
vars == <<now, reserveVars, lockVars, govVars, execVars>>

Ids == 1..MaxProposals
Swaps == {"BUYBACK_HOLD", "BUYBACK_BURN", "BUYBACK_LOCK", "MARKETING_SALE"}
ActionType == Swaps \union {"ACCUMULATE", "LOCK_MSTR"}
Recipient == {"nobody", "marketingWallet"}

Option == [action : ActionType, bps : Nat, amount : Nat, duration : Nat, recipient : Recipient]
NoOption == [action |-> "ACCUMULATE", bps |-> 0, amount |-> 0, duration |-> 0,
             recipient |-> "nobody"]

Proposal == [startsAt : Nat, endsAt : Nat, executableAt : Nat,
             weightRoot : {ballot.root : ballot \in Ballots} \union {<<>>},
             total : Nat, cast : Nat, options : Seq(Option), votes : Seq(Nat),
             executed : BOOLEAN, passed : BOOLEAN, winner : Nat]

ASSUME GovernanceAssumption ==
  /\ \A ballot \in Ballots :
       ballot.total \in Nat /\ \E listed \in SUBSET Holders : ballot.root \in [listed -> Nat]
  /\ Menus \subseteq Seq(Option)
  /\ VotingDurations \subseteq Nat \ {0}
  /\ {ExecutionDelay, QuorumBps, BPS, MaxProposals} \subseteq Nat
  /\ BPS > 0
  /\ SwapOutput \subseteq Nat \ {0}
  /\ StrayCalls \in BOOLEAN

\* What the mapping holds for an id never proposed: zero everywhere.
NoProposal ==
  [startsAt |-> 0, endsAt |-> 0, executableAt |-> 0, weightRoot |-> <<>>,
   total |-> 0, cast |-> 0, options |-> <<>>, votes |-> <<>>,
   executed |-> FALSE, passed |-> FALSE, winner |-> 0]

-----------------------------------------------------------------------------
(* RestrictedExecutor                                                      *)

\* Mutant: a share of the whole balance, locked tranches included.
PreviewReserveAmountGross(bps) == (AvailableBalanceGross * bps) \div BPS
PreviewReserveAmount(bps) == (AvailableBalance * bps) \div BPS

\* The adapter turns MSTR it was sent into tokens for the named vault, or ETH
\* for the marketing wallet; it delivers something or reverts.
Swap(option) ==
  /\ option.action \in Swaps
  /\ ReleaseMstr(option.amount)
  /\ \E output \in SwapOutput :
       \/ /\ option.action = "BUYBACK_HOLD"
          /\ held' = held + output
          /\ UNCHANGED <<tokens, accounted, tokenLocks, gifts>>
       \/ /\ option.action \in {"BUYBACK_BURN", "MARKETING_SALE"}
          /\ UNCHANGED lockVars
       \/ /\ option.action = "BUYBACK_LOCK"
          /\ tokens' = tokens + output
          /\ RegisterLock(output, option.duration)
          /\ UNCHANGED <<held, gifts>>

ExecuteOption(id, option) ==
  /\ id \notin proposalExecuted
  /\ proposalExecuted' = proposalExecuted \union {id}
  /\ optionsExecuted' = optionsExecuted \union
                          {[id |-> id, action |-> option.action, amount |-> option.amount]}
  /\ \/ option = NoOption /\ UNCHANGED <<reserveVars, lockVars>>
     \/ /\ option.action # "ACCUMULATE"
        /\ option.bps \in 1..BPS
        /\ option.amount \in 1..AvailableBalance
        /\ \/ /\ option.action = "LOCK_MSTR"
              /\ LockMstr(option.amount, option.duration)
              /\ UNCHANGED lockVars
           \/ Swap(option)

-----------------------------------------------------------------------------
(* GovernanceController                                                    *)

ValidOption(option) ==
  /\ option.bps <= BPS
  /\ (option.action = "ACCUMULATE") = (option.bps = 0)
  /\ IF option.action \in {"BUYBACK_LOCK", "LOCK_MSTR"}
     THEN AllowedDuration(option.duration) ELSE option.duration = 0
  /\ (option.action = "MARKETING_SALE") = (option.recipient = "marketingWallet")

\* The amount is fixed now; the caller's own must be zero.
Frozen(option) == [option EXCEPT !.amount = PreviewReserveAmount(option.bps)]

CreateProposal(ballot, duration, menu) ==
  LET id == proposalCount + 1
      endsAt == now + duration IN
  /\ activeProposalId = 0
  /\ id \in Ids /\ endsAt + ExecutionDelay <= MaxTime
  /\ Len(menu) \in 2..6 /\ ballot.total # 0
  /\ \A i, j \in DOMAIN menu : menu[i].action = menu[j].action => i = j
  /\ \A i \in DOMAIN menu : ValidOption(menu[i]) /\ menu[i].amount = 0
  /\ proposalCount' = id
  /\ activeProposalId' = id
  /\ proposals' = [proposals EXCEPT ![id] =
       [NoProposal EXCEPT !.startsAt = now, !.endsAt = endsAt,
                          !.executableAt = endsAt + ExecutionDelay,
                          !.weightRoot = ballot.root, !.total = ballot.total,
                          !.options = [i \in DOMAIN menu |-> Frozen(menu[i])],
                          !.votes = [i \in DOMAIN menu |-> 0]]]
  /\ UNCHANGED <<now, hasVoted, reserveVars, lockVars, execVars>>

\* Mutant: having voted does not stop a vote.
VoteUnmarked(holder, id, choice) ==
  LET p == proposals[id]
      weight == p.weightRoot[holder] IN
  /\ now >= p.startsAt /\ now < p.endsAt
  /\ choice \in DOMAIN p.options
  /\ holder \in DOMAIN p.weightRoot
  /\ p.cast + weight <= p.total
  /\ hasVoted' = [hasVoted EXCEPT ![id] = @ \union {holder}]
  /\ proposals' = [proposals EXCEPT ![id].cast = @ + weight, ![id].votes[choice] = @ + weight]
  /\ UNCHANGED <<now, proposalCount, activeProposalId, reserveVars, lockVars, execVars>>

\* The Merkle proof shows that the root lists the holder with this weight.
Vote(holder, id, choice) ==
  LET p == proposals[id]
      weight == p.weightRoot[holder] IN
  /\ now >= p.startsAt /\ now < p.endsAt
  /\ choice \in DOMAIN p.options
  /\ holder \in DOMAIN p.weightRoot \ hasVoted[id]
  /\ p.cast + weight <= p.total
  /\ hasVoted' = [hasVoted EXCEPT ![id] = @ \union {holder}]
  /\ proposals' = [proposals EXCEPT ![id].cast = @ + weight, ![id].votes[choice] = @ + weight]
  /\ UNCHANGED <<now, proposalCount, activeProposalId, reserveVars, lockVars, execVars>>

\* Mutant: an equal count is not noticed.
CountNoTie(result, votes, choice) ==
  IF votes > result.weight THEN [winner |-> choice, weight |-> votes, tied |-> FALSE]
                           ELSE result

\* One round of the loop of _winner: a higher count leads alone, an equal one ties.
Count(result, votes, choice) ==
  CASE votes > result.weight -> [winner |-> choice, weight |-> votes, tied |-> FALSE]
    [] votes = result.weight -> [result EXCEPT !.tied = TRUE]
    [] OTHER                 -> result

Winner(votes) ==
  LET upTo[i \in 0..Len(votes)] ==
        IF i = 0 THEN [winner |-> 0, weight |-> 0, tied |-> FALSE]
                 ELSE Count(upTo[i - 1], votes[i], i)
  IN  upTo[Len(votes)]

QuorumReached(p) == p.cast * BPS >= p.total * QuorumBps

Rejected(p) == ~QuorumReached(p) \/ Winner(p.votes).tied

\* _options of an option that does not exist is zero: ACCUMULATE of nothing.
Chosen(p, choice) == IF choice \in DOMAIN p.options THEN p.options[choice] ELSE NoOption

Execute(id) ==
  LET p == proposals[id]
      winner == Winner(p.votes).winner IN
  /\ ~p.executed /\ now >= p.executableAt
  /\ activeProposalId' = 0
  /\ proposals' = [proposals EXCEPT ![id].executed = TRUE,
                                    ![id].passed = ~Rejected(p),
                                    ![id].winner = IF Rejected(p) THEN 0 ELSE winner]
  /\ IF Rejected(p) THEN UNCHANGED <<reserveVars, lockVars, execVars>>
                    ELSE ExecuteOption(id, Chosen(p, winner))
  /\ UNCHANGED <<now, proposalCount, hasVoted>>

-----------------------------------------------------------------------------
(* The keeper calls what anyone may call.                                  *)

ExecuteDueProposals == activeProposalId # 0 /\ Execute(activeProposalId)

\* Mutant: the last tranche is never scanned.
ReleaseMaturedButLast(lockId) ==
  /\ lockId \in 1..(Len(tokenLocks) - 1)
  /\ Release(lockId)
  /\ UNCHANGED <<now, reserveVars, govVars, execVars>>

ReleaseMatured(lockId) ==
  /\ lockId \in DOMAIN tokenLocks
  /\ Release(lockId)
  /\ UNCHANGED <<now, reserveVars, govVars, execVars>>

Keeper == ExecuteDueProposals \/ \E lockId \in Ids : ReleaseMatured(lockId)

Anyone ==
  \/ \E id \in Ids : (id <= proposalCount \/ StrayCalls) /\ Execute(id)
  \/ \E holder \in Holders, id \in Ids : \E choice \in DOMAIN proposals[id].options :
       Vote(holder, id, choice)
  \/ Gift /\ UNCHANGED <<now, reserveVars, govVars, execVars>>
  \/ \E amount \in Deposits : Deposit(amount) /\ UNCHANGED <<now, lockVars, govVars, execVars>>

Proposer ==
  \E ballot \in Ballots, duration \in VotingDurations, menu \in Menus :
    CreateProposal(ballot, duration, menu)

TimePasses == Tick /\ UNCHANGED <<reserveVars, lockVars, govVars, execVars>>

Init ==
  /\ now = 1
  /\ ReserveInit /\ LockInit
  /\ proposalCount = 0 /\ activeProposalId = 0
  /\ proposals = [id \in Ids |-> NoProposal]
  /\ hasVoted = [id \in Ids |-> {}]
  /\ proposalExecuted = {} /\ optionsExecuted = {}

Next == Keeper \/ Anyone \/ Proposer \/ TimePasses

Spec == Init /\ [][Next]_vars

\* The keeper loops for ever, and a call of it does not revert for ever for
\* reasons outside the contracts (price, slippage, migration); blocks follow.
Fairness ==
  /\ WF_vars(TimePasses)
  /\ WF_vars(ExecuteDueProposals)
  /\ \A lockId \in Ids : WF_vars(ReleaseMatured(lockId))

FairSpec == Spec /\ Fairness

-----------------------------------------------------------------------------
(* Properties                                                              *)

(***************************************************************************)
(* Types.  Nat for balances says that no checked subtraction underflows,   *)
(* and the last conjunct that the active id always names a proposal.       *)
(***************************************************************************)
TypeOK ==
  /\ now \in 1..MaxTime
  /\ ReserveTypeOK /\ LockTypeOK
  /\ proposals \in [Ids -> Proposal]
  /\ hasVoted \in [Ids -> SUBSET Holders]
  /\ proposalExecuted \subseteq Ids
  /\ optionsExecuted \subseteq [id : Ids, action : ActionType, amount : Nat]
  /\ proposalCount \in 0..MaxProposals
  /\ activeProposalId \in 0..proposalCount

(***************************************************************************)
(* Both vaults keep what votes locked: a tranche of MSTR until it expires, *)
(* a tranche of project tokens until its release.                          *)
(***************************************************************************)
VaultsKeep == LockedStays /\ LocksBacked

(***************************************************************************)
(* The tally is the sum of the snapshot weights of those who voted, each   *)
(* counted once and for one option, and never exceeds the published total, *)
(* even when the published total is less than the snapshot's.              *)
(***************************************************************************)
TallyIsVoters ==
  \A id \in Ids :
    LET p == proposals[id] IN
    /\ p.cast = SumFunctionOnSet(p.weightRoot, hasVoted[id])
    /\ p.cast = SumFunction(p.votes)
    /\ p.cast <= p.total

(***************************************************************************)
(* Whatever touches the reserve was an option of a proposal that reached   *)
(* the quorum and drew more weight than each of the others: the loop of    *)
(* _winner and the votes that are still stored agree.                      *)
(***************************************************************************)
DecisionIsMajority ==
  \A e \in {d \in optionsExecuted : d.action # "ACCUMULATE"} :
    LET p == proposals[e.id] IN
    /\ p.cast * BPS >= p.total * QuorumBps
    /\ \E i \in DOMAIN p.options :
         /\ p.options[i].action = e.action
         /\ p.options[i].amount = e.amount
         /\ \A j \in DOMAIN p.options \ {i} : p.votes[j] < p.votes[i]

\* An id was executed before it was proposed (execute does not ask
\* whether the proposal exists, and clears activeProposalId for any id).
StrayExecuted == \E id \in proposalExecuted : id > proposalCount \/ ~proposals[id].passed

(***************************************************************************)
(* The amounts frozen when voting started stay available until the vote    *)
(* is executed, although tranches expire and MSTR arrives in between:      *)
(* ReserveBalanceChanged is never raised for a proposal not yet executed,  *)
(* so long as no proposal was displaced by the execution of an id never    *)
(* proposed, which lets a second vote spend what a first one counts on.    *)
(***************************************************************************)
FrozenAmountsCovered ==
  ~StrayExecuted =>
    \A id \in 1..proposalCount : ~proposals[id].executed =>
      \A i \in DOMAIN proposals[id].options : proposals[id].options[i].amount <= AvailableBalance

Due(id) == id <= proposalCount /\ now >= proposals[id].executableAt

(***************************************************************************)
(* "Called automatically by keeper bots after the five-minute delay": a    *)
(* due proposal is executed in the end.  Refuted: a share of the reserve   *)
(* that rounds to zero is accepted and frozen as zero when proposed, and   *)
(* the executor refuses zero for ever.                                     *)
(***************************************************************************)
EveryProposalDecided == \A id \in Ids : Due(id) ~> proposals[id].executed

(***************************************************************************)
(* With amounts that do not round to zero, the keeper decides every        *)
(* proposal: no tie, missed quorum, expired lock or earlier vote leaves    *)
(* one that reverts for ever and blocks those after it.                    *)
(***************************************************************************)
KeeperDecides ==
  \A id \in Ids :
    Due(id) /\ (\A i \in DOMAIN proposals[id].options :
                  proposals[id].options[i].bps # 0 => proposals[id].options[i].amount # 0)
      ~> proposals[id].executed \/ StrayExecuted

(***************************************************************************)
(* Tokens locked by vote reach permanent custody once they mature.         *)
(***************************************************************************)
LocksReleased ==
  \A lockId \in Ids :
    (lockId \in DOMAIN tokenLocks /\ now >= tokenLocks[lockId].unlockAt)
      ~> (lockId \in DOMAIN tokenLocks /\ tokenLocks[lockId].released)

=============================================================================
