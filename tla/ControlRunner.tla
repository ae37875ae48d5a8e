--------------------------- MODULE ControlRunner ---------------------------
(***************************************************************************)
(* The control runner's loop (services/solana/controlRunner.ts): owner     *)
(* actions and the launch, fee and reward ticks, one at a time, around one *)
(* status file.  A call works on a copy of the status (held) and saves it  *)
(* once its effects are done, so a stop in between leaves effects that the *)
(* status does not know of.                                                *)
(*                                                                         *)
(* Owner actions take effect at most once, in any order (ControlRequests); *)
(* one that is refused or throws before it did anything leaves no trace    *)
(* here.  The fee ledger is the state of the one open receipt (the inner   *)
(* workings are in FeeSettlement), the reward plan how far it is           *)
(* (RewardPipeline).  automationState is "running" exactly when activated. *)
(***************************************************************************)
EXTENDS Naturals, FiniteSets

CONSTANTS
  Mint,     \* coins that may be launched on Pump by the creator's account, or name it
  Facts,    \* of each coin, what its launch event and bonding curve say
  NoMint,
  Never,    \* the time of a launch that has not been
  MaxSecond,   \* bound: time, in seconds
  MaxLaunches  \* bound: launches

PumpLaunchFacts ==
  [ownCreator: BOOLEAN, mstrxQuoted: BOOLEAN, token2022: BOOLEAN,
   holderReward: BOOLEAN, creatorFeeBps: Nat]

ASSUME RunnerAssumption ==
  Facts \in [Mint -> PumpLaunchFacts] /\ NoMint \notin Mint /\ Never \notin Nat

\* assertFixedMstrxPumpLaunch
FixedMstrxPumpLaunch(facts) ==
  /\ facts.ownCreator
  /\ facts.mstrxQuoted
  /\ facts.token2022
  /\ ~facts.holderReward
  /\ facts.creatorFeeBps = 200

\* The coins verifyFixedMstrxPumpLaunch accepts, once its providers agree.
Approved == {m \in Mint : FixedMstrxPumpLaunch(Facts[m])}

VARIABLES
  status,     \* solana-status.json
  config,     \* config.json: the mint the site and the indexer work with
  fees,       \* fee-settlement.json: the open receipt, or "none"
  plan,       \* reward-epochs/current.json
  newJournal, \* the holder journal is ahead of the plan
  second,     \* the second it is, on the chain and at the runner
  launchedAt, \* chain: the block time of each launch
  seenBy,     \* at how many of the two providers it is final
  step,       \* memory: where in a call the runner is
  held,       \* memory: the call's copy of the status
  ownerPaused \* history: what the owner asked for last

chainVars == <<second, launchedAt, seenBy>>
memoryVars == <<step, held>>
vars == <<status, config, fees, plan, newJournal, chainVars, memoryVars, ownerPaused>>

Status ==
  [configured: BOOLEAN, armed: BOOLEAN,
   armedAt: Nat,           \* in milliseconds there; only their second is used
   activated: BOOLEAN, mint: Mint \cup {NoMint},
   paused: BOOLEAN,        \* conversionsPaused
   ownsPause: BOOLEAN]     \* rewardEpochOwnsPause

NewStatus ==
  [configured |-> FALSE, armed |-> FALSE, armedAt |-> 0, activated |-> FALSE,
   mint |-> NoMint, paused |-> FALSE, ownsPause |-> FALSE]

Init ==
  /\ status = NewStatus
  /\ config = NoMint
  /\ fees = "none"
  /\ plan = "none"
  /\ newJournal = FALSE
  /\ second = 0 /\ launchedAt = [m \in Mint |-> Never] /\ seenBy = [m \in Mint |-> 0]
  /\ step = "idle"
  /\ held = NewStatus
  /\ ownerPaused = FALSE

Idle == step = "idle"

\* The call goes on to what follows, and needs its copy of the status no more.
Proceed(next) ==
  /\ step' = next
  /\ held' = NewStatus

\* A whole call that only changes the status and saves it.
Saves(new) ==
  /\ Idle
  /\ status' = new
  /\ UNCHANGED <<config, fees, plan, newJournal, chainVars, memoryVars>>

-----------------------------------------------------------------------------
(***************************************************************************)
(* The outside world.  The creator launches nothing more once the site is  *)
(* live (docs/launch-panel.md:63).                                         *)
(***************************************************************************)
Launched == {m \in Mint : launchedAt[m] # Never}

Launch(m) ==
  /\ m \notin Launched
  /\ Cardinality(Launched) < MaxLaunches
  /\ ~status.activated
  /\ launchedAt' = [launchedAt EXCEPT ![m] = second]
  /\ UNCHANGED <<second, seenBy, status, config, fees, plan, newJournal, memoryVars, ownerPaused>>

\* A launch becomes final at another provider.  Blocks are final in their order, so that
\* one of the providers shows all that the other does.
Finalizes(m) ==
  /\ m \in Launched
  /\ seenBy[m] < 2
  /\ \A n \in Launched : launchedAt[n] < launchedAt[m] => seenBy[n] > seenBy[m]
  /\ seenBy' = [seenBy EXCEPT ![m] = @ + 1]
  /\ UNCHANGED <<second, launchedAt, status, config, fees, plan, newJournal, memoryVars, ownerPaused>>

Clock ==
  /\ second < MaxSecond
  /\ second' = second + 1
  /\ UNCHANGED <<launchedAt, seenBy, status, config, fees, plan, newJournal, memoryVars,
                 ownerPaused>>

IndexerPublishes ==
  /\ config # NoMint
  /\ plan \in {"none", "finalized"}
  /\ newJournal' = TRUE
  /\ UNCHANGED <<status, config, fees, plan, chainVars, memoryVars, ownerPaused>>

-----------------------------------------------------------------------------
(***************************************************************************)
(* Launch.                                                                 *)
(***************************************************************************)
VerifyLaunchConfig ==
  Saves([status EXCEPT !.configured = TRUE]) /\ UNCHANGED ownerPaused

Arm ==
  /\ status.configured
  /\ Saves([status EXCEPT !.armed = TRUE, !.armedAt = second])
  /\ UNCHANGED ownerPaused

\* Once the site is live, the owner does not arm again in the very second of a launch.
OwnerArms == Arm /\ (status.activated => \A m \in Launched : launchedAt[m] < second)

Disarm ==
  Saves([status EXCEPT !.armed = FALSE, !.armedAt = 0]) /\ UNCHANGED ownerPaused

Own == {m \in Launched : Facts[m].ownCreator}

\* Mutant: a launch in the second of arming does not count.
CountsLater(m) == launchedAt[m] > status.armedAt
\* A launch counts from the beginning of the second of arming.
Counts(m) == launchedAt[m] >= status.armedAt

\* selectArmedLaunchCandidate, of what is final at so many providers.
Candidates(providers) == {m \in Own : seenBy[m] >= providers /\ Counts(m)}

\* detectAgreedCreatorPumpLaunch: both providers show it, and neither another; a second
\* candidate throws.
Detected(m) == Candidates(1) = {m} /\ Candidates(2) = {m}

\* publishRuntimeConfig: config.json names the launch before the status does.
PublishRuntimeConfig(m) == config' = m

\* Mutant: the status is saved before the runtime configuration is published.
ActivateFirst(m) ==
  /\ Idle
  /\ status.armed
  /\ Detected(m)
  /\ m \in Approved
  /\ status' = [status EXCEPT !.mint = m, !.armed = FALSE, !.activated = TRUE]
  /\ held' = status'
  /\ step' = "published"
  /\ UNCHANGED <<config, fees, plan, newJournal, chainVars, ownerPaused>>

\* Mutant: a configuration published by an attempt that was stopped is in the way.
ActivateOnce(m) ==
  /\ Idle
  /\ config = NoMint
  /\ status.armed
  /\ Detected(m)
  /\ m \in Approved
  /\ config' = m
  /\ held' = [status EXCEPT !.mint = m, !.armed = FALSE, !.activated = TRUE]
  /\ step' = "published"
  /\ UNCHANGED <<status, fees, plan, newJournal, chainVars, ownerPaused>>

\* automaticLaunchTick, or activate_postlaunch, up to publishRuntimeConfig.
Activate(m) ==
  /\ Idle
  /\ status.armed
  /\ Detected(m)
  /\ m \in Approved
  /\ PublishRuntimeConfig(m)
  /\ held' = [status EXCEPT !.mint = m, !.armed = FALSE, !.activated = TRUE]
  /\ step' = "published"
  /\ UNCHANGED <<status, fees, plan, newJournal, chainVars, ownerPaused>>

SaveActivation ==
  /\ step = "published"
  /\ status' = held
  /\ Proceed("idle")
  /\ UNCHANGED <<config, fees, plan, newJournal, chainVars, ownerPaused>>

-----------------------------------------------------------------------------
(***************************************************************************)
(* Creator fees.                                                           *)
(***************************************************************************)
\* What one call may do to the open receipt.
Settled(state) ==
  CASE state = "collecting" -> {"collected", "none"}
    [] state = "routing" -> {"none", "collected"}
    [] OTHER -> {}

\* sweepCreatorFees; a pending recovery throws.
Swept(state) ==
  CASE state = "none" -> {"collecting"}
    [] state = "collected" -> {"routing"}
    [] OTHER -> Settled(state)

\* recoverUncommittedCreatorFees, of one wallet ("none" at once) or of two.
Recovered(state) ==
  CASE state = "collected" -> {"none", "recovering"}
    [] state = "recovering" -> {"none", "collected"}
    [] OTHER -> {}

FeesBecome(new) ==
  /\ Idle
  /\ fees' \in new
  /\ UNCHANGED <<status, config, plan, newJournal, chainVars, memoryVars, ownerPaused>>

\* automaticFeeTick, sweep_curve_fees and sweep_pumpswap_fees.
SweepFees == status.activated /\ ~status.paused /\ FeesBecome(Swept(fees))

\* reconcile_fee_receipts
ReconcileFees == status.paused /\ FeesBecome(Settled(fees))

\* recover_uncommitted
RecoverFees == status.paused /\ FeesBecome(Recovered(fees))

\* pause_conversions
Pause == Saves([status EXCEPT !.paused = TRUE]) /\ ownerPaused' = TRUE

\* resume_conversions
Resume ==
  /\ status.configured
  /\ Saves([status EXCEPT !.paused = FALSE])
  /\ ownerPaused' = FALSE

-----------------------------------------------------------------------------
(***************************************************************************)
(* Reward epochs.                                                          *)
(***************************************************************************)
\* Mutant: the epoch takes over a pause that is there already.
PausedForEpochAlways == [status EXCEPT !.paused = TRUE, !.ownsPause = TRUE]
PausedForEpoch ==
  IF status.paused THEN status ELSE [status EXCEPT !.paused = TRUE, !.ownsPause = TRUE]

\* Mutants: the ownership is given up, the pause is not; any pause is lifted.
ReleasedHalf(s) == [s EXCEPT !.ownsPause = FALSE]
ReleasedAlways(s) == [s EXCEPT !.paused = FALSE, !.ownsPause = FALSE]
Released(s) ==
  IF s.ownsPause THEN [s EXCEPT !.paused = FALSE, !.ownsPause = FALSE] ELSE s

\* Mutant: a plan that was finalized just before a stop keeps its pause.
ReleaseNever == FALSE /\ UNCHANGED vars

\* The reward tick finds the plan finalized and the pause still owned.
Release ==
  /\ plan = "finalized"
  /\ status.activated /\ status.ownsPause
  /\ Saves(Released(status))
  /\ UNCHANGED ownerPaused

\* prepareRewardEpoch, from the reward tick ("planned") or by the owner
\* ("prepared"): the plan is on disk, the pause not yet.  Should it throw, the
\* pause is dropped again and nothing has changed.
Prepare(next) ==
  /\ Idle
  /\ status.activated
  /\ newJournal
  /\ plan \in {"none", "finalized"}
  /\ next = "planned" => ~(plan = "finalized" /\ status.ownsPause)
  /\ plan' = "active"
  /\ newJournal' = FALSE
  /\ held' = PausedForEpoch
  /\ step' = next
  /\ UNCHANGED <<status, config, fees, chainVars, ownerPaused>>

SavePause ==
  /\ step \in {"planned", "prepared"}
  /\ status' = held
  /\ Proceed(IF step = "planned" THEN "distributing" ELSE "idle")
  /\ UNCHANGED <<config, fees, plan, newJournal, chainVars, ownerPaused>>

\* saveStatus throws inside the tick's try: the pause is dropped although there
\* is a plan, and the loop saves that.
SavePauseThrows ==
  /\ step = "planned"
  /\ status' = Released(held)
  /\ Proceed("idle")
  /\ UNCHANGED <<config, fees, plan, newJournal, chainVars, ownerPaused>>

\* The reward tick finds an epoch in progress, and takes the pause back if
\* someone or a stop has lifted it.
Continue ==
  /\ Idle
  /\ status.activated
  /\ plan \in {"active", "paid"}
  /\ status' = PausedForEpoch
  /\ Proceed("distributing")
  /\ UNCHANGED <<config, fees, plan, newJournal, chainVars, ownerPaused>>

\* distribute_reward_epoch
DistributeByOwner ==
  /\ Idle
  /\ status.paused
  /\ plan \in {"active", "paid"}
  /\ plan' \in {plan, "paid"}
  /\ UNCHANGED <<status, config, fees, newJournal, chainVars, memoryVars, ownerPaused>>

\* distributeRewardEpoch in the tick.
Distribute ==
  /\ step = "distributing"
  /\ plan' \in {plan, "paid"}
  /\ step' = IF plan' = "paid" THEN "paid" ELSE "idle"
  /\ UNCHANGED <<status, config, fees, newJournal, chainVars, held, ownerPaused>>

\* finalizeRewardEpoch in the tick.
Finalize ==
  /\ step = "paid"
  /\ plan' = "finalized"
  /\ held' = Released(status)
  /\ step' = "finalized"
  /\ UNCHANGED <<status, config, fees, newJournal, chainVars, ownerPaused>>

\* finalize_reward_epoch
FinalizeByOwner ==
  /\ Idle
  /\ plan \in {"paid", "finalized"}
  /\ plan' = "finalized"
  /\ held' = Released(status)
  /\ step' = "finalized"
  /\ UNCHANGED <<status, config, fees, newJournal, chainVars, ownerPaused>>

SaveFinalized ==
  /\ step = "finalized"
  /\ status' = held
  /\ Proceed("idle")
  /\ UNCHANGED <<config, fees, plan, newJournal, chainVars, ownerPaused>>

-----------------------------------------------------------------------------
\* The runner stops, or what it was doing throws.
RunnerStops ==
  /\ ~Idle
  /\ Proceed("idle")
  /\ UNCHANGED <<status, config, fees, plan, newJournal, chainVars, ownerPaused>>

Finality == \E m \in Mint : Finalizes(m)
Outside == IndexerPublishes \/ Clock \/ Finality \/ \E m \in Mint : Launch(m)
LaunchActions ==
  VerifyLaunchConfig \/ OwnerArms \/ Disarm \/ SaveActivation \/ \E m \in Mint : Activate(m)
FeeActions == SweepFees \/ ReconcileFees \/ RecoverFees \/ Pause \/ Resume
RewardTick ==
  \/ Release \/ Prepare("planned") \/ SavePause \/ SavePauseThrows
  \/ Continue \/ Distribute \/ Finalize \/ SaveFinalized
RewardActions == Prepare("prepared") \/ DistributeByOwner \/ FinalizeByOwner

Next == Outside \/ LaunchActions \/ FeeActions \/ RewardTick \/ RewardActions \/ RunnerStops

Spec == Init /\ [][Next]_vars

(***************************************************************************)
(* Fairness: each tick comes round again and again, and a call that is     *)
(* tried again and again gets through at last.  That a distribution pays   *)
(* in the end is what RewardPipeline shows (EveryEpochEnds).  Owner        *)
(* requests are served before ticks; they do not come for ever.  What is   *)
(* launched becomes final.                                                 *)
(***************************************************************************)
Fairness ==
  /\ WF_vars(Finality)
  /\ SF_vars(Release)
  /\ SF_vars(Continue)
  /\ WF_vars(SavePause)
  /\ SF_vars(Distribute /\ plan' = "paid")
  /\ SF_vars(Finalize)
  /\ SF_vars(SaveFinalized)
  /\ \A m \in Approved : SF_vars(Activate(m))
  /\ SF_vars(SaveActivation)

FairSpec == Spec /\ Fairness

-----------------------------------------------------------------------------
(***************************************************************************)
(* Properties.                                                             *)
(***************************************************************************)
\* Every variable has its type, and an activated status has its mint.
TypeOK ==
  /\ {status, held} \subseteq Status
  /\ status.activated => status.mint \in Mint
  /\ config \in Mint \cup {NoMint}
  /\ fees \in {"none", "collecting", "collected", "routing", "recovering"}
  /\ plan \in {"none", "active", "paid", "finalized"}
  /\ newJournal \in BOOLEAN
  /\ second \in Nat
  /\ launchedAt \in [Mint -> Nat \cup {Never}]
  /\ seenBy \in [Mint -> 0..2]
  /\ step \in {"idle", "published", "planned", "prepared", "distributing", "paid", "finalized"}
  /\ ownerPaused \in BOOLEAN

\* An activated status names the mint the site and the indexer were given,
\* although the two files are written one after the other.
ActivatedIsPublished == status.activated => status.mint = config

\* The coin that is activated is as approved, final at both providers and launched from
\* the second of arming on; and it is the first that was: every other coin of the
\* creator's was launched before that second, or no earlier than it, though several are
\* launched before one is final, and the owner arms again between.
ActivatesTheArmedLaunch ==
  [][status'.activated /\ ~status.activated =>
       LET m == status'.mint IN
       /\ status.armed
       /\ m \in Approved \cap Launched /\ seenBy[m] = 2
       /\ launchedAt[m] >= status.armedAt
       /\ \A n \in Own : launchedAt[n] >= status.armedAt => launchedAt[n] >= launchedAt[m]]_vars

\* Each pause is somebody's: the owner asked for it, or an epoch owns it; and
\* then there is an epoch whose end will lift it (automaticRewardTick).
PauseIsOwned ==
  /\ status.paused => ownerPaused \/ status.ownsPause
  /\ status.ownsPause => plan # "none"

\* A pause the owner made outside an epoch's pause is lifted by the owner only,
\* and no epoch takes it over to lift it later.
OwnerPauseOutlivesEpochs ==
  [][status.paused /\ ~status.ownsPause /\ (~status'.paused \/ status'.ownsPause)
       => ~ownerPaused']_vars

\* The pause of an epoch ends.
EpochPauseReleased == status.ownsPause ~> ~status.ownsPause

\* The one approved launch since the second of arming is activated, once it is final,
\* unless it is disarmed, armed again later, or joined by another.
OnlyLaunch(m) ==
  /\ status.armed
  /\ {n \in Own : launchedAt[n] >= status.armedAt} = {m}
LaunchActivates ==
  \A m \in Approved : OnlyLaunch(m) ~> status.activated \/ ~OnlyLaunch(m)

\* The panel says that pausing "Stops new fee collections and routing"
\* (apps/web/src/solanaAdmin.tsx:58): nothing new is signed until the owner
\* resumes.
PauseStopsRouting ==
  [][(fees = "none" /\ fees' = "collecting") \/ (fees = "collected" /\ fees' = "routing")
       => ~ownerPaused]_vars

=============================================================================
