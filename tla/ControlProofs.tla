---------------------------- MODULE ControlProofs ----------------------------
(***************************************************************************)
(* Proofs about the two sides of the control directory: the dispatch of    *)
(* one owner action (ControlRequests), for any number of challenges and    *)
(* stops, and activation and pause in the runner (ControlRunner), for any  *)
(* coins, number of epochs and stops.                                      *)
(*                                                                         *)
(* ActedOnce rests on the nonce: before it is consumed nothing has been    *)
(* done, and the only request whose nonce is consumed while nothing has    *)
(* been done and something still can be is the one in hand, once.          *)
(* ProcessedIsDone needs the same of every place a success is written to.  *)
(*                                                                         *)
(* In the runner, what a stop can leave behind is an effect (a published   *)
(* configuration, a plan) that the status does not know of yet.  The       *)
(* properties are not inductive without saying what a call holds in memory *)
(* meanwhile (HeldFits), that no launch counts once one was activated      *)
(* (NoneAfter), though the owner may arm again, and that launches become   *)
(* final in their order (FinalInOrder): this is what makes the coin found  *)
(* the first, while the later ones are not final yet.                      *)
(***************************************************************************)
EXTENDS ControlRequests, ControlRunner, TLAPS

-----------------------------------------------------------------------------
(* The dispatch of owner actions                                           *)

\* Nothing is done before the nonce is consumed, and it is done only once.
NonceFirst ==
  \A c \in Challenge :
    /\ acted[c] <= 1
    /\ c \notin nonces => acted[c] = 0

\* What the runner has in hand.
InHand ==
  /\ phase = "acting" => acted[current] = 0 /\ current \in nonces
  /\ phase \in {"acted", "moved"} => acted[current] > 0

\* Successes on disk are successes.
FiledIsDone ==
  \A c \in Challenge :
    file[c] = "completed" \/ marker[c] = "processed" => acted[c] > 0

RequestsInv == RequestsTypeOK /\ NonceFirst /\ InHand /\ FiledIsDone

\* Every variable keeps its type.
THEOREM RequestsTypeCorrect == RequestsSpec => []RequestsTypeOK
<1>1. RequestsInit => RequestsTypeOK
  BY DEF RequestsInit, RequestsTypeOK, Directory, Outcome, Phase
<1>2. RequestsTypeOK /\ [RequestsNext]_requestVars => RequestsTypeOK'
  <2> SUFFICES ASSUME RequestsTypeOK, [RequestsNext]_requestVars
               PROVE  RequestsTypeOK'
    OBVIOUS
  <2> USE DEF RequestsTypeOK, Directory, Outcome, Phase, apiVars, diskVars, runnerVars
  <2>1. CASE Tick
    BY <2>1 DEF Tick
  <2>2. ASSUME NEW c \in Challenge, Issue(c) \/ Take(c) \/ Queue(c)
        PROVE  RequestsTypeOK'
    BY <2>2 DEF Issue, Take, Queue
  <2>3. CASE ServerStops
    BY <2>3 DEF ServerStops
  <2>4. CASE Start
    BY <2>4 DEF Start
  <2>5. ASSUME NEW c \in Challenge, Pick(c)
        PROVE  RequestsTypeOK'
    BY <2>5 DEF Pick
  <2>6. CASE Dispatch
    BY <2>6 DEF Dispatch, ConsumeNonce, Refuse, Act, Throw
  <2>7. CASE Answer
    BY <2>7 DEF Answer, Record, Shelve, MarkFailed, Complete, MarkProcessed
  <2>8. CASE DispatcherStops
    BY <2>8 DEF DispatcherStops
  <2>9. CASE UNCHANGED requestVars
    BY <2>9 DEF requestVars
  <2> QED BY <2>1, <2>2, <2>3, <2>4, <2>5, <2>6, <2>7, <2>8, <2>9
          DEF RequestsNext, Server, Runner, ProcessOnce
<1> QED BY <1>1, <1>2, PTL DEF RequestsSpec

\* The inductive invariant holds in every reachable state.
THEOREM RequestsInvariance == RequestsSpec => []RequestsInv
<1>1. RequestsInit => RequestsInv
  BY DEF RequestsInit, RequestsInv, RequestsTypeOK, Directory, Outcome, Phase, NonceFirst, InHand, FiledIsDone
<1>2. RequestsInv /\ RequestsTypeOK' /\ [RequestsNext]_requestVars => RequestsInv'
  <2> SUFFICES ASSUME RequestsInv, RequestsTypeOK', [RequestsNext]_requestVars
               PROVE  NonceFirst' /\ InHand' /\ FiledIsDone'
    BY DEF RequestsInv
  <2> USE DEF RequestsInv, RequestsTypeOK, NonceFirst, InHand, FiledIsDone, apiVars, diskVars, runnerVars
  <2>1. CASE Tick \/ ServerStops
    BY <2>1 DEF Tick, ServerStops
  <2>2. ASSUME NEW c \in Challenge, Issue(c) \/ Take(c) \/ Queue(c)
        PROVE  NonceFirst' /\ InHand' /\ FiledIsDone'
    BY <2>2 DEF Issue, Take, Queue
  <2>3. CASE Start
    BY <2>3 DEF Start
  <2>4. ASSUME NEW c \in Challenge, Pick(c)
        PROVE  NonceFirst' /\ InHand' /\ FiledIsDone'
    BY <2>4 DEF Pick
  <2>5. CASE Dispatch
    <3>1. CASE ConsumeNonce
      BY <3>1 DEF ConsumeNonce
    <3>2. CASE Act
      BY <3>2 DEF Act
    <3>3. CASE Refuse \/ Throw
      BY <3>3 DEF Refuse, Throw
    <3> QED BY <2>5, <3>1, <3>2, <3>3 DEF Dispatch
  <2>6. CASE Answer
    BY <2>6 DEF Answer, Record, Shelve, MarkFailed, Complete, MarkProcessed
  <2>7. CASE DispatcherStops \/ UNCHANGED requestVars
    BY <2>7 DEF DispatcherStops, requestVars
  <2> QED BY <2>1, <2>2, <2>3, <2>4, <2>5, <2>6, <2>7 DEF RequestsNext, Server, Runner, ProcessOnce
<1> QED BY <1>1, <1>2, RequestsTypeCorrect, PTL DEF RequestsSpec

\* A signed action takes effect at most once.
THEOREM ActedOnceHolds == RequestsSpec => []ActedOnce
<1>1. RequestsInv => ActedOnce
  BY DEF RequestsInv, NonceFirst, ActedOnce
<1> QED BY <1>1, RequestsInvariance, PTL

\* An action shown as processed has taken effect.
THEOREM ProcessedIsDoneHolds == RequestsSpec => []ProcessedIsDone
<1>1. RequestsInv => ProcessedIsDone
  BY DEF RequestsInv, RequestsTypeOK, Outcome, FiledIsDone, ProcessedIsDone, Shown
<1> QED BY <1>1, RequestsInvariance, PTL

-----------------------------------------------------------------------------
(* Activation and pause                                                    *)

\* The coin is approved and final, and the first launched since the second of arming.
FirstLaunch(m) ==
  /\ m \in Approved \cap Launched
  /\ seenBy[m] = 2
  /\ launchedAt[m] >= status.armedAt
  /\ \A n \in Own : launchedAt[n] >= status.armedAt => launchedAt[n] >= launchedAt[m]

HeldFits ==
  /\ step = "published" =>
       /\ status.armed
       /\ FirstLaunch(config)
       /\ held = [status EXCEPT !.mint = config, !.armed = FALSE, !.activated = TRUE]
       /\ ~status.activated
  /\ step \in {"planned", "prepared"} => held = PausedForEpoch /\ plan = "active"
  /\ step = "finalized" => held = Released(status)

NoneAfter ==
  status.activated /\ status.armed => \A m \in Launched : launchedAt[m] < status.armedAt

FinalInOrder ==
  /\ \A m \in Launched : launchedAt[m] <= second
  /\ \A m \in Mint \ Launched : seenBy[m] = 0
  /\ \A m, n \in Launched : launchedAt[m] < launchedAt[n] => seenBy[m] >= seenBy[n]

IInv ==
  /\ TypeOK
  /\ HeldFits
  /\ NoneAfter
  /\ FinalInOrder
  /\ ActivatedIsPublished
  /\ PauseIsOwned

\* What a launch is, is on the chain.
LEMMA ChainIsSame ==
  ASSUME UNCHANGED chainVars
  PROVE  /\ Launched' = Launched /\ Own' = Own
         /\ second' = second /\ launchedAt' = launchedAt /\ seenBy' = seenBy
         /\ FinalInOrder => FinalInOrder'
  BY DEF chainVars, Launched, Own, FinalInOrder

\* A launch that has been has its time.
LEMMA LaunchTimes ==
  ASSUME TypeOK
  PROVE  /\ Own \subseteq Launched /\ Launched \subseteq Mint
         /\ \A m \in Launched : launchedAt[m] \in Nat
  BY RunnerAssumption DEF TypeOK, Launched, Own

\* Taking and lifting an epoch's pause leaves the rest of a status alone.
LEMMA Pausing ==
  ASSUME NEW s \in Status
  PROVE  /\ [s EXCEPT !.paused = TRUE, !.ownsPause = TRUE] \in Status
         /\ Released(s) \in Status
         /\ Released(s).activated = s.activated /\ Released(s).armed = s.armed
         /\ Released(s).mint = s.mint /\ Released(s).armedAt = s.armedAt
         /\ Released(s).configured = s.configured
         /\ s.ownsPause => ~Released(s).paused /\ ~Released(s).ownsPause
         /\ ~s.ownsPause => Released(s) = s
  BY DEF Status, Released

\* Pausing for an epoch, likewise; a pause that is there is left as it is.
LEMMA EpochPausing ==
  ASSUME TypeOK
  PROVE  /\ PausedForEpoch \in Status
         /\ PausedForEpoch.activated = status.activated /\ PausedForEpoch.armed = status.armed
         /\ PausedForEpoch.mint = status.mint /\ PausedForEpoch.armedAt = status.armedAt
         /\ status.paused => PausedForEpoch = status
         /\ ~status.paused => PausedForEpoch.paused /\ PausedForEpoch.ownsPause
  BY DEF TypeOK, Status, PausedForEpoch

LEMMA NewStatusFits == NewStatus \in Status
  BY DEF NewStatus, Status

LEMMA InitHolds == Init => IInv
<1> SUFFICES ASSUME Init PROVE IInv
  OBVIOUS
<1>1. Launched = {} /\ FinalInOrder
  BY DEF Init, Launched, FinalInOrder
<1>2. ~status.activated /\ ~status.paused /\ ~status.ownsPause
  BY DEF Init, NewStatus
<1>3. ActivatedIsPublished /\ PauseIsOwned
  BY <1>2 DEF ActivatedIsPublished, PauseIsOwned
<1>4. TypeOK
  <2>1. {status, held} \subseteq Status /\ (status.activated => status.mint \in Mint)
    BY <1>2, NewStatusFits DEF Init
  <2>2. launchedAt \in [Mint -> Nat \cup {Never}] /\ seenBy \in [Mint -> 0..2]
    BY DEF Init
  <2> QED
    BY <2>1, <2>2 DEF Init, TypeOK
<1> QED
  BY <1>1, <1>2, <1>3, <1>4 DEF Init, IInv, HeldFits, NoneAfter

\* What the world does leaves the runner alone, and what it has found.
LEMMA OutsideKeeps == IInv /\ Outside => IInv'
<1> SUFFICES ASSUME IInv, Outside PROVE IInv'
  OBVIOUS
<1> USE DEF IInv, TypeOK
<1>1. /\ UNCHANGED <<status, config, fees, plan, memoryVars, ownerPaused>>
      /\ newJournal' \in BOOLEAN
  BY DEF Outside, IndexerPublishes, Clock, Finality, Finalizes, Launch
<1>2. Own \subseteq Launched /\ Launched \subseteq Mint /\ \A m \in Launched : launchedAt[m] \in Nat
  BY LaunchTimes
<1>3. /\ second' \in Nat /\ launchedAt' \in [Mint -> Nat \cup {Never}] /\ seenBy' \in [Mint -> 0..2]
      /\ FinalInOrder'
      /\ NoneAfter'
      /\ step = "published" => FirstLaunch(config)'
  <2>1. CASE IndexerPublishes
    <3>1. UNCHANGED chainVars
      BY <2>1 DEF IndexerPublishes
    <3> QED
      BY <1>1, <3>1, ChainIsSame DEF NoneAfter, FirstLaunch, HeldFits
  <2>2. CASE Clock
    <3>1. second' = second + 1 /\ launchedAt' = launchedAt /\ seenBy' = seenBy
      BY <2>2 DEF Clock
    <3>2. Launched' = Launched /\ Own' = Own
      BY <3>1 DEF Launched, Own
    <3>3. FinalInOrder'
      BY <1>2, <3>1, <3>2 DEF FinalInOrder
    <3> QED
      BY <1>1, <3>1, <3>2, <3>3 DEF NoneAfter, FirstLaunch, HeldFits
  <2>3. ASSUME NEW m \in Mint, Finalizes(m)
        PROVE  /\ second' \in Nat /\ launchedAt' \in [Mint -> Nat \cup {Never}]
               /\ seenBy' \in [Mint -> 0..2]
               /\ FinalInOrder' /\ NoneAfter'
               /\ step = "published" => FirstLaunch(config)'
    <3>1. /\ second' = second /\ launchedAt' = launchedAt
          /\ seenBy' = [seenBy EXCEPT ![m] = @ + 1]
          /\ m \in Launched /\ seenBy[m] < 2
          /\ \A n \in Launched : launchedAt[n] < launchedAt[m] => seenBy[n] > seenBy[m]
      BY <2>3 DEF Finalizes
    <3>2. Launched' = Launched /\ Own' = Own
      BY <3>1 DEF Launched, Own
    <3>3. /\ seenBy' \in [Mint -> 0..2]
          /\ seenBy'[m] = seenBy[m] + 1
          /\ \A n \in Mint : n # m => seenBy'[n] = seenBy[n]
          /\ \A n \in Mint : seenBy[n] \in 0..2 /\ seenBy'[n] >= seenBy[n]
      BY <3>1
    <3>4. FinalInOrder'
      BY <1>2, <3>1, <3>2, <3>3 DEF FinalInOrder
    <3>5. NoneAfter'
      BY <1>1, <3>1, <3>2 DEF NoneAfter
    <3>6. ASSUME step = "published" PROVE FirstLaunch(config)'
      <4>1. FirstLaunch(config) /\ config # m
        BY <3>1, <3>6 DEF HeldFits, FirstLaunch
      <4>2. config \in Launched /\ seenBy'[config] = 2
        BY <1>2, <3>3, <4>1 DEF FirstLaunch
      <4> QED
        BY <1>1, <3>1, <3>2, <4>1, <4>2 DEF FirstLaunch
    <3> QED
      BY <3>1, <3>3, <3>4, <3>5, <3>6
  <2>4. ASSUME NEW m \in Mint, Launch(m)
        PROVE  /\ second' \in Nat /\ launchedAt' \in [Mint -> Nat \cup {Never}]
               /\ seenBy' \in [Mint -> 0..2]
               /\ FinalInOrder' /\ NoneAfter'
               /\ step = "published" => FirstLaunch(config)'
    <3>1. /\ second' = second /\ seenBy' = seenBy
          /\ launchedAt' = [launchedAt EXCEPT ![m] = second]
          /\ m \notin Launched /\ ~status.activated
      BY <2>4 DEF Launch
    <3>2. /\ launchedAt' \in [Mint -> Nat \cup {Never}]
          /\ launchedAt'[m] = second
          /\ \A n \in Mint : n # m => launchedAt'[n] = launchedAt[n]
      BY <3>1
    <3>3. Launched' = Launched \cup {m} /\ Own' \subseteq Own \cup {m}
      BY <3>1, <3>2, RunnerAssumption DEF Launched, Own
    <3>4. /\ \A n \in Launched : n \in Mint /\ n # m /\ launchedAt[n] \in Nat /\ launchedAt[n] <= second
          /\ seenBy[m] = 0 /\ \A n \in Mint : seenBy[n] \in 0..2
      BY <1>2, <3>1 DEF FinalInOrder
    <3>5. FinalInOrder'
      <4>1. \A n \in Launched' : launchedAt'[n] <= second'
        BY <3>1, <3>2, <3>3, <3>4
      <4>2. \A n \in Mint \ Launched' : seenBy'[n] = 0
        BY <3>1, <3>3 DEF FinalInOrder
      <4>3. \A k, n \in Launched' : launchedAt'[k] < launchedAt'[n] => seenBy'[k] >= seenBy'[n]
        <5> SUFFICES ASSUME NEW k \in Launched', NEW n \in Launched', launchedAt'[k] < launchedAt'[n]
                     PROVE  seenBy[k] >= seenBy[n]
          BY <3>1
        <5>1. CASE n = m
          BY <3>3, <3>4, <5>1
        <5>2. CASE n # m /\ k = m
          BY <3>2, <3>3, <3>4, <5>2
        <5>3. CASE n # m /\ k # m
          BY <3>2, <3>3, <3>4, <5>3 DEF FinalInOrder
        <5> QED
          BY <5>1, <5>2, <5>3
      <4> QED
        BY <4>1, <4>2, <4>3 DEF FinalInOrder
    <3>6. NoneAfter'
      BY <1>1, <3>1 DEF NoneAfter
    <3>7. ASSUME step = "published" PROVE FirstLaunch(config)'
      <4>1. FirstLaunch(config) /\ config' = config /\ status' = status
        BY <1>1, <3>7 DEF HeldFits
      <4>2. config \in Launched /\ config # m /\ launchedAt'[config] = launchedAt[config]
        BY <3>2, <3>4, <4>1 DEF FirstLaunch
      <4>3. \A n \in Own' : launchedAt'[n] >= status.armedAt => launchedAt'[n] >= launchedAt[config]
        <5> SUFFICES ASSUME NEW n \in Own', launchedAt'[n] >= status.armedAt
                     PROVE  launchedAt'[n] >= launchedAt[config]
          OBVIOUS
        <5>1. CASE n = m
          BY <3>2, <3>4, <4>2, <5>1
        <5>2. CASE n # m
          BY <1>2, <3>2, <3>3, <4>1, <5>2 DEF FirstLaunch
        <5> QED
          BY <5>1, <5>2
      <4> QED
        BY <3>1, <3>3, <4>1, <4>2, <4>3 DEF FirstLaunch
    <3> QED
      BY <3>1, <3>2, <3>5, <3>6, <3>7
  <2> QED
    BY <2>1, <2>2, <2>3, <2>4 DEF Outside, Finality
<1>4. HeldFits'
  BY <1>1, <1>3 DEF HeldFits, memoryVars, Released, PausedForEpoch
<1> QED
  BY <1>1, <1>3, <1>4 DEF ActivatedIsPublished, PauseIsOwned, memoryVars

\* A call that saves a status whose fields it leaves as they are, but the ones
\* its obligations name.
LEMMA SavesKeeps ==
  ASSUME IInv, NEW new \in Status, Saves(new), ownerPaused' \in BOOLEAN,
         new.activated = status.activated, new.mint = status.mint,
         new.activated /\ new.armed => \A m \in Launched : launchedAt[m] < new.armedAt,
         new.paused => ownerPaused' \/ new.ownsPause,
         new.ownsPause => status.ownsPause
  PROVE  IInv'
<1>1. UNCHANGED chainVars /\ status' = new
  BY DEF Saves
<1> QED
  BY <1>1, ChainIsSame
     DEF IInv, TypeOK, HeldFits, NoneAfter, ActivatedIsPublished, PauseIsOwned,
         Saves, Idle, memoryVars

LEMMA LaunchKeeps == IInv /\ LaunchActions => IInv'
<1> SUFFICES ASSUME IInv, LaunchActions PROVE IInv'
  OBVIOUS
<1> USE DEF IInv, TypeOK
<1>1. CASE VerifyLaunchConfig
  <2> DEFINE new == [status EXCEPT !.configured = TRUE]
  <2>1. new \in Status /\ Saves(new) /\ new.activated = status.activated /\ new.armed = status.armed
        /\ new.mint = status.mint /\ new.armedAt = status.armedAt
        /\ new.paused = status.paused /\ new.ownsPause = status.ownsPause
    BY <1>1 DEF VerifyLaunchConfig, Status
  <2>2. ownerPaused' = ownerPaused
    BY <1>1 DEF VerifyLaunchConfig
  <2> HIDE DEF new
  <2> QED
    BY <2>1, <2>2, SavesKeeps DEF NoneAfter, PauseIsOwned
<1>2. CASE OwnerArms
  <2> DEFINE new == [status EXCEPT !.armed = TRUE, !.armedAt = second]
  <2>1. new \in Status /\ Saves(new) /\ new.activated = status.activated
        /\ new.mint = status.mint /\ new.armedAt = second
        /\ new.paused = status.paused /\ new.ownsPause = status.ownsPause
    BY <1>2 DEF OwnerArms, Arm, Status
  <2>2. /\ ownerPaused' = ownerPaused
        /\ status.activated => \A m \in Launched : launchedAt[m] < second
    BY <1>2 DEF OwnerArms, Arm
  <2> HIDE DEF new
  <2> QED
    BY <2>1, <2>2, SavesKeeps DEF PauseIsOwned
<1>3. CASE Disarm
  <2> DEFINE new == [status EXCEPT !.armed = FALSE, !.armedAt = 0]
  <2>1. new \in Status /\ Saves(new) /\ new.activated = status.activated /\ ~new.armed
        /\ new.mint = status.mint
        /\ new.paused = status.paused /\ new.ownsPause = status.ownsPause
    BY <1>3 DEF Disarm, Status
  <2>2. ownerPaused' = ownerPaused
    BY <1>3 DEF Disarm
  <2> HIDE DEF new
  <2> QED
    BY <2>1, <2>2, SavesKeeps DEF PauseIsOwned
<1>4. CASE SaveActivation
  <2>1. /\ status' = held /\ held.mint = config /\ ~held.armed /\ held.activated
        /\ held.paused = status.paused /\ held.ownsPause = status.ownsPause
        /\ config \in Mint
    BY <1>4 DEF SaveActivation, HeldFits, FirstLaunch, Status, Approved
  <2>2. /\ UNCHANGED <<config, fees, plan, newJournal, ownerPaused>> /\ UNCHANGED chainVars
        /\ step' = "idle" /\ held' \in Status
    BY <1>4, NewStatusFits DEF SaveActivation, Proceed
  <2> QED
    BY <2>1, <2>2, ChainIsSame
       DEF HeldFits, NoneAfter, ActivatedIsPublished, PauseIsOwned
<1>5. ASSUME NEW m \in Mint, Activate(m) PROVE IInv'
  <2>1. /\ UNCHANGED <<status, fees, plan, newJournal, ownerPaused>> /\ UNCHANGED chainVars
        /\ config' = m /\ step' = "published"
        /\ held' = [status EXCEPT !.mint = m, !.armed = FALSE, !.activated = TRUE]
        /\ status.armed /\ m \in Approved
    BY <1>5 DEF Activate, PublishRuntimeConfig
  <2>2. m \in Own /\ Counts(m) /\ seenBy[m] >= 2 /\ \A n \in Candidates(2) : n = m
    BY <1>5 DEF Activate, Detected, Candidates
  <2>3. /\ m \in Launched /\ Own \subseteq Launched /\ Launched \subseteq Mint
        /\ \A n \in Launched : launchedAt[n] \in Nat
    BY <2>2, LaunchTimes
  <2>4. seenBy[m] = 2 /\ launchedAt[m] >= status.armedAt
    BY <2>2 DEF Counts
  <2>5. ASSUME NEW n \in Own, launchedAt[n] >= status.armedAt
        PROVE  launchedAt[n] >= launchedAt[m]
    <3> SUFFICES ASSUME launchedAt[n] < launchedAt[m] PROVE FALSE
      BY <2>3
    <3>1. seenBy[n] >= 2
      BY <2>3, <2>4 DEF FinalInOrder
    <3>2. n \in Candidates(2)
      BY <2>5, <3>1 DEF Candidates, Counts
    <3> QED
      BY <2>2, <2>3, <3>2
  <2>6. ~status.activated
    BY <2>1, <2>3, <2>4 DEF NoneAfter, Status
  <2>7. FirstLaunch(m)
    BY <2>1, <2>3, <2>4, <2>5 DEF FirstLaunch
  <2>8. held' \in Status
    BY <2>1 DEF Status
  <2>9. FirstLaunch(config)'
    BY <2>1, <2>7, ChainIsSame DEF FirstLaunch
  <2>10. HeldFits'
    BY <2>1, <2>6, <2>9 DEF HeldFits
  <2> QED
    BY <2>1, <2>6, <2>8, <2>10, ChainIsSame DEF NoneAfter, ActivatedIsPublished, PauseIsOwned, Approved
<1> QED
  BY <1>1, <1>2, <1>3, <1>4, <1>5 DEF LaunchActions

LEMMA FeesKeep == IInv /\ FeeActions => IInv'
<1> SUFFICES ASSUME IInv, FeeActions PROVE IInv'
  OBVIOUS
<1> USE DEF IInv, TypeOK
<1>1. CASE SweepFees \/ ReconcileFees \/ RecoverFees
  <2>1. Idle /\ UNCHANGED <<status, config, plan, newJournal, memoryVars, ownerPaused>>
        /\ UNCHANGED chainVars
    BY <1>1 DEF SweepFees, ReconcileFees, RecoverFees, FeesBecome
  <2>2. fees' \in Swept(fees) \cup Settled(fees) \cup Recovered(fees)
    BY <1>1 DEF SweepFees, ReconcileFees, RecoverFees, FeesBecome
  <2>3. fees' \in {"none", "collecting", "collected", "routing", "recovering"}
    BY <2>2 DEF Swept, Settled, Recovered
  <2> QED
    BY <2>1, <2>3, ChainIsSame
       DEF Idle, memoryVars, HeldFits, NoneAfter, ActivatedIsPublished, PauseIsOwned
<1>2. CASE Pause
  <2> DEFINE new == [status EXCEPT !.paused = TRUE]
  <2>1. new \in Status /\ Saves(new) /\ new.activated = status.activated /\ new.armed = status.armed
        /\ new.mint = status.mint /\ new.armedAt = status.armedAt /\ new.ownsPause = status.ownsPause
    BY <1>2 DEF Pause, Status
  <2>2. ownerPaused' = TRUE
    BY <1>2 DEF Pause
  <2> HIDE DEF new
  <2> QED
    BY <2>1, <2>2, SavesKeeps DEF NoneAfter
<1>3. CASE Resume
  <2> DEFINE new == [status EXCEPT !.paused = FALSE]
  <2>1. new \in Status /\ Saves(new) /\ new.activated = status.activated /\ new.armed = status.armed
        /\ new.mint = status.mint /\ new.armedAt = status.armedAt /\ new.ownsPause = status.ownsPause
        /\ ~new.paused
    BY <1>3 DEF Resume, Status
  <2>2. ownerPaused' = FALSE
    BY <1>3 DEF Resume
  <2> HIDE DEF new
  <2> QED
    BY <2>1, <2>2, SavesKeeps DEF NoneAfter
<1> QED
  BY <1>1, <1>2, <1>3 DEF FeeActions

LEMMA RewardsKeep == IInv /\ (RewardTick \/ RewardActions) => IInv'
<1> SUFFICES ASSUME IInv, RewardTick \/ RewardActions PROVE IInv'
  OBVIOUS
<1> USE DEF IInv, TypeOK
<1>1. CASE Release
  <2> DEFINE new == Released(status)
  <2>1. Saves(new) /\ ownerPaused' = ownerPaused
    BY <1>1 DEF Release
  <2>2. new \in Status /\ new.activated = status.activated /\ new.armed = status.armed
        /\ new.mint = status.mint /\ new.armedAt = status.armedAt /\ ~new.paused /\ ~new.ownsPause
    BY <1>1, Pausing DEF Release
  <2> HIDE DEF new
  <2> QED
    BY <2>1, <2>2, SavesKeeps DEF NoneAfter
<1>2. ASSUME NEW next \in {"planned", "prepared"}, Prepare(next) PROVE IInv'
  <2>1. held' = PausedForEpoch' /\ held' \in Status
    BY <1>2, EpochPausing DEF Prepare, PausedForEpoch
  <2> QED
    BY <1>2, <2>1, ChainIsSame DEF Prepare, HeldFits, NoneAfter, ActivatedIsPublished, PauseIsOwned
<1>3. CASE SavePause \/ Continue
  <2>1. /\ status' = PausedForEpoch
        /\ plan' = plan /\ plan \in {"active", "paid"}
        /\ config' = config /\ UNCHANGED chainVars /\ ownerPaused' = ownerPaused
        /\ fees' = fees /\ newJournal' = newJournal
        /\ held' \in Status
        /\ step' \in {"distributing", "idle"}
    BY <1>3, NewStatusFits DEF SavePause, Continue, Proceed, HeldFits
  <2>2. PausedForEpoch.paused => ownerPaused \/ PausedForEpoch.ownsPause
    BY EpochPausing DEF PauseIsOwned
  <2> QED
    BY <2>1, <2>2, EpochPausing, ChainIsSame DEF HeldFits, NoneAfter, ActivatedIsPublished, PauseIsOwned
<1>4. CASE SavePauseThrows
  <2>1. /\ status' = Released(held) /\ held = PausedForEpoch /\ plan = "active"
        /\ UNCHANGED <<config, fees, plan, newJournal, ownerPaused>> /\ UNCHANGED chainVars
        /\ step' = "idle" /\ held' \in Status
    BY <1>4, NewStatusFits DEF SavePauseThrows, Proceed, HeldFits
  <2>2. /\ status' \in Status /\ status'.activated = status.activated
        /\ status'.armed = status.armed /\ status'.mint = status.mint
        /\ status'.armedAt = status.armedAt
    BY <2>1, Pausing, EpochPausing
  <2>3. ~status'.ownsPause /\ (status'.paused => ownerPaused)
    BY <2>1, Pausing, EpochPausing DEF PauseIsOwned
  <2> QED
    BY <2>1, <2>2, <2>3, ChainIsSame DEF HeldFits, NoneAfter, ActivatedIsPublished, PauseIsOwned
<1>5. CASE DistributeByOwner \/ Distribute
  <2>1. /\ UNCHANGED <<status, config, fees, newJournal, held, ownerPaused>> /\ UNCHANGED chainVars
        /\ plan' \in {"active", "paid", plan} /\ plan' \in {plan, "paid"}
        /\ step' \in {"paid", "idle"}
    BY <1>5 DEF DistributeByOwner, Distribute, Idle, memoryVars
  <2> QED
    BY <2>1, ChainIsSame DEF HeldFits, NoneAfter, ActivatedIsPublished, PauseIsOwned
<1>6. CASE Finalize \/ FinalizeByOwner
  <2>1. /\ UNCHANGED <<status, config, fees, newJournal, ownerPaused>> /\ UNCHANGED chainVars
        /\ plan' = "finalized" /\ step' = "finalized" /\ held' = Released(status)
    BY <1>6 DEF Finalize, FinalizeByOwner
  <2> QED
    BY <2>1, Pausing, ChainIsSame DEF HeldFits, NoneAfter, ActivatedIsPublished, PauseIsOwned
<1>7. CASE SaveFinalized
  <2>1. /\ status' = Released(status) /\ step' = "idle"
        /\ UNCHANGED <<config, fees, plan, newJournal, ownerPaused>> /\ UNCHANGED chainVars
        /\ held' \in Status
    BY <1>7, NewStatusFits DEF SaveFinalized, Proceed, HeldFits
  <2>2. ~status'.ownsPause /\ (status'.paused => ownerPaused)
    BY <2>1, Pausing DEF PauseIsOwned
  <2> QED
    BY <2>1, <2>2, Pausing, ChainIsSame DEF HeldFits, NoneAfter, ActivatedIsPublished, PauseIsOwned
<1> QED
  BY <1>1, <1>2, <1>3, <1>4, <1>5, <1>6, <1>7 DEF RewardTick, RewardActions

LEMMA StopsKeep == IInv /\ (RunnerStops \/ UNCHANGED vars) => IInv'
<1> SUFFICES ASSUME IInv, RunnerStops \/ UNCHANGED vars PROVE IInv'
  OBVIOUS
<1>1. /\ UNCHANGED <<status, config, fees, plan, newJournal, ownerPaused>> /\ UNCHANGED chainVars
      /\ step' = "idle" \/ (step' = step /\ held' = held)
      /\ held' \in Status
  BY NewStatusFits DEF RunnerStops, Proceed, vars, memoryVars, IInv, TypeOK
<1>2. PausedForEpoch' = PausedForEpoch /\ Released(status)' = Released(status)
  BY <1>1 DEF PausedForEpoch, Released
<1>3. FirstLaunch(config)' = FirstLaunch(config)
  BY <1>1, ChainIsSame DEF FirstLaunch
<1>4. HeldFits'
  BY <1>1, <1>2, <1>3 DEF IInv, HeldFits
<1> QED
  BY <1>1, <1>4, ChainIsSame DEF IInv, TypeOK, NoneAfter, ActivatedIsPublished, PauseIsOwned

\* The inductive invariant: what a call holds fits the files it has written.
THEOREM Invariance == Spec => []IInv
<1>1. IInv /\ [Next]_vars => IInv'
  BY OutsideKeeps, LaunchKeeps, FeesKeep, RewardsKeep, StopsKeep DEF Next
<1> QED
  BY InitHolds, <1>1, PTL DEF Spec

\* Every variable keeps its type.
THEOREM TypeCorrect == Spec => []TypeOK
<1>1. IInv => TypeOK
  BY DEF IInv
<1> QED
  BY <1>1, Invariance, PTL

\* An activated status names the mint that config.json names, wherever the runner
\* stopped between the two and however often it was armed again.
THEOREM ActivatedIsPublishedHolds == Spec => []ActivatedIsPublished
<1>1. IInv => ActivatedIsPublished
  BY DEF IInv
<1> QED
  BY <1>1, Invariance, PTL

\* A pause is the owner's, or an epoch's that will end it.
THEOREM PauseIsOwnedHolds == Spec => []PauseIsOwned
<1>1. IInv => PauseIsOwned
  BY DEF IInv
<1> QED
  BY <1>1, Invariance, PTL

-----------------------------------------------------------------------------
(* What a step may never do.                                               *)

SamePause ==
  /\ status'.activated = status.activated
  /\ status.paused /\ ~status.ownsPause => status'.paused /\ ~status'.ownsPause

\* Only the end of an activation and the owner's resumption do otherwise.
LEMMA StatusSteps ==
  ASSUME IInv, [Next]_vars
  PROVE  SamePause \/ SaveActivation \/ Resume
<1> USE DEF IInv, TypeOK
<1>1. CASE status' = status
  BY <1>1 DEF SamePause
<1>2. CASE VerifyLaunchConfig \/ OwnerArms \/ Disarm \/ Pause
  BY <1>2 DEF VerifyLaunchConfig, OwnerArms, Arm, Disarm, Pause, Saves, SamePause, Status
<1>3. CASE Release \/ SaveFinalized
  <2>1. status' = Released(status)
    BY <1>3 DEF Release, Saves, SaveFinalized, HeldFits
  <2> QED
    BY <2>1, Pausing DEF SamePause
<1>4. CASE SavePause \/ Continue
  <2>1. status' = PausedForEpoch
    BY <1>4 DEF SavePause, Continue, HeldFits
  <2> QED
    BY <2>1, EpochPausing DEF SamePause
<1>5. CASE SavePauseThrows
  <2>1. status' = Released(held) /\ held = PausedForEpoch
    BY <1>5 DEF SavePauseThrows, HeldFits
  <2> QED
    BY <2>1, Pausing, EpochPausing DEF SamePause
<1>6. SUFFICES ASSUME \/ Outside \/ SweepFees \/ ReconcileFees \/ RecoverFees
                      \/ \E m \in Mint : Activate(m)
                      \/ Prepare("planned") \/ Prepare("prepared")
                      \/ Distribute \/ DistributeByOwner \/ Finalize \/ FinalizeByOwner
                      \/ RunnerStops \/ UNCHANGED vars
               PROVE  status' = status
  BY <1>1, <1>2, <1>3, <1>4, <1>5
     DEF Next, LaunchActions, FeeActions, RewardTick, RewardActions
<1> QED
  BY <1>6 DEF Outside, IndexerPublishes, Clock, Finality, Finalizes, Launch, SweepFees, ReconcileFees, RecoverFees, FeesBecome,
              Activate, Prepare, Distribute, DistributeByOwner, Finalize, FinalizeByOwner,
              RunnerStops, vars

\* What is activated while armed is an approved coin, final at both providers, and the
\* first the creator launched since the second of arming.
THEOREM ActivatesTheArmedLaunchHolds == Spec => ActivatesTheArmedLaunch
<1>1. ASSUME IInv, [Next]_vars, status'.activated, ~status.activated
      PROVE  status.armed /\ FirstLaunch(status'.mint)
  <2>1. SaveActivation
    BY <1>1, StatusSteps DEF SamePause, Resume, Saves, IInv, TypeOK, Status
  <2>2. status.armed /\ FirstLaunch(config) /\ config \in Mint
    BY <1>1, <2>1 DEF SaveActivation, IInv, HeldFits, FirstLaunch, Approved
  <2>3. status'.mint = config
    BY <1>1, <2>1, <2>2 DEF SaveActivation, IInv, TypeOK, HeldFits, Status
  <2> QED
    BY <2>2, <2>3
<1> QED
  BY <1>1, Invariance, PTL DEF Spec, ActivatesTheArmedLaunch, FirstLaunch

\* A pause of the owner's is lifted, or taken over by an epoch, by nobody else.
THEOREM OwnerPauseOutlivesEpochsHolds == Spec => OwnerPauseOutlivesEpochs
<1>1. ASSUME IInv, [Next]_vars, status.paused, ~status.ownsPause,
             ~status'.paused \/ status'.ownsPause
      PROVE  ~ownerPaused'
  <2>1. ~SaveActivation
    BY <1>1 DEF SaveActivation, IInv, TypeOK, HeldFits, Status
  <2>2. Resume
    BY <1>1, <2>1, StatusSteps DEF SamePause
  <2> QED
    BY <2>2 DEF Resume
<1> QED
  BY <1>1, Invariance, PTL DEF Spec, OwnerPauseOutlivesEpochs

==============================================================================
