-------------------------- MODULE HostControlProofs --------------------------
(***************************************************************************)
(* The watcher's cursor and the activation of a launch, for any manifests, *)
(* blocks, launches, requests and faults.                                  *)
(*                                                                         *)
(* CursorFits strengthens CursorSkipsNothing: no cursor is ahead of the    *)
(* blocks there are, or a launch of a later block would be skipped; and a  *)
(* process that scans looks for what the watch is about.  ActivationFits   *)
(* strengthens AutomationIsActivated: it says which of the three files     *)
(* name the launch at each step of an activation, and that the launch a    *)
(* request names is the detected one, which no scan replaces.              *)
(***************************************************************************)
EXTENDS HostControl, TLAPS

-----------------------------------------------------------------------------
(* The fee router by itself, for any amounts, calls and callers            *)

\* The two shares that are rounded down leave the keepers a share that is not
\* negative (FeeRouter.allocate subtracts them, checked).
LEMMA SharesFit ==
  ASSUME NEW amount \in Nat
  PROVE  /\ RewardAmount(amount) \in Nat
         /\ ReserveAmount(amount) \in Nat
         /\ amount - RewardAmount(amount) - ReserveAmount(amount) \in Nat
<1>1. /\ RewardAmount(amount) = (amount * 5000) \div 10000
      /\ ReserveAmount(amount) = (amount * 4000) \div 10000
  BY DEF RewardAmount, ReserveAmount, BPS, REWARD_BPS, RESERVE_BPS
<1>2. /\ RewardAmount(amount) \in Nat
      /\ 10000 * RewardAmount(amount) <= amount * 5000
  BY <1>1
<1>3. /\ ReserveAmount(amount) \in Nat
      /\ 10000 * ReserveAmount(amount) <= amount * 4000
  BY <1>1
<1>4. ASSUME NEW q \in Nat, NEW r \in Nat, 10000 * q <= amount * 5000, 10000 * r <= amount * 4000
      PROVE  amount - q - r \in Nat
  <2>1. 10000 * q + 10000 * r <= 9000 * amount
    BY <1>4
  <2> QED
    BY <2>1
<1> QED
  BY <1>2, <1>3, <1>4

\* Balances stay naturals: no checked subtraction of the router or the keeper
\* vault underflows in a call that is let through.
THEOREM RouterTypeCorrect == RouterSpec => []RouterTypeOK
<1>1. RouterInit => RouterTypeOK
  <2> SUFFICES ASSUME RouterInit PROVE RouterTypeOK
    OBVIOUS
  <2>1. 0 \in Nat
    OBVIOUS
  <2>2. routerPaused \in BOOLEAN
    BY Zenon DEF RouterInit
  <2> QED
    BY <2>1, <2>2, Zenon DEF RouterInit, RouterTypeOK
<1>2. RouterTypeOK /\ [RouterNext]_routerVars => RouterTypeOK'
  <2> SUFFICES ASSUME RouterTypeOK, [RouterNext]_routerVars PROVE RouterTypeOK'
    OBVIOUS
  <2> USE DEF RouterTypeOK
  <2>1. ASSUME NEW amount \in Nat, Receive(amount) PROVE RouterTypeOK'
    BY <2>1 DEF Receive
  <2>2. ASSUME NEW amount \in Nat, BuyReward(amount) PROVE RouterTypeOK'
    BY <2>2 DEF BuyReward
  <2>3. ASSUME NEW amount \in Nat, BuyReserve(amount) PROVE RouterTypeOK'
    BY <2>3 DEF BuyReserve
  <2>4. ASSUME NEW amount \in Nat, Reimburse(amount) PROVE RouterTypeOK'
    BY <2>4 DEF Reimburse
  <2>5. CASE Allocate
    BY <2>5, SharesFit DEF Allocate
  <2>6. CASE PauseRouter
    BY <2>6 DEF PauseRouter
  <2>7. CASE UNCHANGED routerVars
    BY <2>7 DEF routerVars
  <2> QED
    BY <2>1, <2>2, <2>3, <2>4, <2>5, <2>6, <2>7 DEF RouterNext
<1> QED
  BY <1>1, <1>2, PTL DEF RouterSpec

\* Every wei is accounted for, however the split rounds.
THEOREM EthConservedHolds == RouterSpec => []EthConserved
<1>1. RouterInit => EthConserved
  BY DEF RouterInit, EthConserved
<1>2. RouterTypeOK /\ EthConserved /\ [RouterNext]_routerVars => EthConserved'
  <2> SUFFICES ASSUME RouterTypeOK, EthConserved, [RouterNext]_routerVars PROVE EthConserved'
    OBVIOUS
  <2> USE DEF RouterTypeOK, EthConserved
  <2>1. ASSUME NEW amount \in Nat, Receive(amount) PROVE EthConserved'
    BY <2>1 DEF Receive
  <2>2. ASSUME NEW amount \in Nat, BuyReward(amount) PROVE EthConserved'
    BY <2>2 DEF BuyReward
  <2>3. ASSUME NEW amount \in Nat, BuyReserve(amount) PROVE EthConserved'
    BY <2>3 DEF BuyReserve
  <2>4. ASSUME NEW amount \in Nat, Reimburse(amount) PROVE EthConserved'
    BY <2>4 DEF Reimburse
  <2>5. CASE Allocate
    BY <2>5, SharesFit DEF Allocate
  <2>6. CASE PauseRouter
    BY <2>6 DEF PauseRouter
  <2>7. CASE UNCHANGED routerVars
    BY <2>7 DEF routerVars
  <2> QED
    BY <2>1, <2>2, <2>3, <2>4, <2>5, <2>6, <2>7 DEF RouterNext
<1> QED
  BY <1>1, <1>2, RouterTypeCorrect, PTL DEF RouterSpec

-----------------------------------------------------------------------------
(* The host                                                                *)

Fits == Manifest \cup {None}

WatcherAt == {"off", "booting", "start", "loop", "scan", "found", "save", "follow"}
Process == [at : WatcherAt, armedAt : Int, manifest : Fits, from : Nat, to : Int, owed : BOOLEAN]
Watches == [manifest : Fits, start : Nat]

WatchTypes ==
  /\ blocks \in Seq(Fits)
  /\ prelaunch \in Fits
  /\ armed \in [at : Int, nextBlock : Nat \cup {NoBlock}]
  /\ detected \in Int
  /\ watcher \in Process
  /\ watch \in Watches

\* No launch that fits is in a block from the start of the watch to the cursor.
Passed(cursor) == \A t \in watch.start .. cursor - 1 : Launched(t) => blocks[t] # watch.manifest

CursorFits ==
  /\ armed.nextBlock <= HeadBlock + 1
  /\ Scanning => detected = NoToken /\ watcher.from <= HeadBlock + 1
  /\ watcher.at = "scan" => watcher.from <= watcher.to /\ watcher.to <= HeadBlock
  /\ watch.manifest # None =>
       /\ Passed(armed.nextBlock)
       /\ Scanning => watcher.manifest = watch.manifest /\ Passed(watcher.from)

WatchInv == WatchTypes /\ CursorFits

Request == [action : Actions \cup {"none"}, about : Fits \cup Token]

HostTypes ==
  /\ requests \in Seq(Request)
  /\ processing \in Request
  /\ runner \in {"idle", "acting", "armed", "cancelled",
                "archived", "configured", "posted", "activated"}
  /\ torn \in BOOLEAN

\* What a request names was verified when it was queued, and chains only grow.
Verified(request) ==
  /\ request.action = "register_prelaunch" => request.about \in Fits
  /\ request.action = "activate_postlaunch" => Launched(request.about)

RequestsFit ==
  /\ \A i \in 1..Len(requests) : Verified(requests[i])
  /\ Verified(processing)
  /\ Activating \/ runner = "activated" =>
       processing.action = "activate_postlaunch" /\ processing.about = detected

ActivationFits ==
  /\ ~Activating => config = postlaunch /\ postlaunch = envFile
  /\ runner \in {"configured", "posted"} => config = processing.about
  /\ runner \in {"posted", "activated"} => postlaunch = processing.about
  /\ postlaunch # NoToken => postlaunch = detected /\ Launched(postlaunch)
  /\ running # Off => running = postlaunch /\ postlaunch # NoToken

HostInv == HostTypes /\ RequestsFit /\ (torn \/ ActivationFits)

LEMMA HeadIsNat ==
  ASSUME WatchTypes
  PROVE  HeadBlock \in Nat
BY DEF WatchTypes, HeadBlock

\* A process that starts, and how one goes on.
LEMMA ProcessStarts ==
  /\ NoWatcher \in Process /\ NoWatcher.at = "off"
  /\ Booting \in Process /\ Booting.at = "booting"
  /\ Following \in Process /\ Following.at = "follow"
  /\ NoWatch \in Watches /\ NoWatch.manifest = None
<1>1. NoWatcher \in Process /\ NoWatcher.at = "off"
  BY DEF NoWatcher, Process, WatcherAt, NoBlock, Fits
<1>2. ASSUME NEW w \in Process, NEW at \in WatcherAt
      PROVE  [w EXCEPT !.at = at] \in Process /\ [w EXCEPT !.at = at].at = at
  BY DEF Process
<1> QED
  BY <1>1, <1>2 DEF Booting, Following, NoWatch, Watches, Fits, WatcherAt

LEMMA ProcessBoots ==
  ASSUME WatchTypes, NEW at \in WatcherAt, NEW from \in Nat
  PROVE  /\ Started(at, from) \in Process
         /\ Started(at, from).at = at /\ Started(at, from).from = from
         /\ Started(at, from).manifest = prelaunch
  BY DEF WatchTypes, Started, Process

LEMMA WatchStarts == Init => WatchInv
<1> SUFFICES ASSUME Init PROVE WatchInv
  OBVIOUS
<1>1. WatchTypes
  BY WatcherAssumption, ProcessStarts
     DEF Init, PonsInit, WatcherInit, WatchTypes, Fits, NotArmed, NoBlock, NoToken
<1>2. HeadBlock = 0
  BY DEF Init, PonsInit, HeadBlock
<1>3. CursorFits
  BY <1>2, ProcessStarts DEF Init, WatcherInit, CursorFits, Scanning, NotArmed, NoBlock
<1> QED
  BY <1>1, <1>3 DEF WatchInv

-----------------------------------------------------------------------------
(* The watcher's own steps.                                                *)

LEMMA WatchingBlocks ==
  ASSUME Watching \/ WatcherStops \/ Retry
  PROVE  blocks' = blocks
BY DEF Watching, Boot, SaveCursor, ReadHead, ScanFinds, ScanNothing, SaveDetected, Expire, Follow,
       ReimburseLifecycle, PoolReady, WatcherStops, Retry, ponsVars, chainVars, ponsFees,
       Graduate, CreateGraduatedPool, PhaseMoves

LEMMA WatchingKeeps == WatchInv /\ (Watching \/ WatcherStops \/ Retry) => WatchInv'
<1> SUFFICES ASSUME WatchInv, Watching \/ WatcherStops \/ Retry PROVE WatchInv'
  OBVIOUS
<1> USE DEF WatchInv, WatchTypes, NoBlock
<1>1. blocks' = blocks /\ HeadBlock' = HeadBlock /\ HeadBlock \in Nat
  BY WatchingBlocks, HeadIsNat DEF HeadBlock
<1>2. ASSUME NEW c \in Int, watch' = watch PROVE Passed(c)' <=> Passed(c)
  BY <1>1, <1>2 DEF Passed, Launched, HeadBlock
<1>3. ASSUME NEW at \in WatcherAt
       PROVE  /\ [watcher EXCEPT !.at = at] \in Process
              /\ \A from \in Nat : [watcher EXCEPT !.at = at, !.from = from] \in Process
              /\ \A to \in Int : [watcher EXCEPT !.at = at, !.to = to] \in Process
              /\ [watcher EXCEPT !.owed = TRUE] \in Process
              /\ [watcher EXCEPT !.owed = FALSE] \in Process
  BY DEF Process
<1>4. watcher.from \in Nat /\ watcher.to \in Int /\ armed.nextBlock \in Int
  BY DEF Process
<1>5. CASE Boot
  <2>1. CASE ~Armed /\ watcher' = NoWatcher /\ UNCHANGED watch
    <3>1. WatchTypes'
      BY <1>1, <1>5, <2>1, ProcessStarts DEF Boot, fileVars
    <3>2. CursorFits'
      BY <1>1, <1>2, <1>4, <1>5, <2>1, ProcessStarts DEF Boot, fileVars, CursorFits, Scanning
    <3> QED
      BY <3>1, <3>2
  <2>2. CASE detected # NoToken /\ watcher' = Following /\ watch' = NoWatch
    <3>1. WatchTypes'
      BY <1>1, <1>5, <2>2, ProcessStarts DEF Boot, fileVars
    <3>2. CursorFits'
      BY <1>1, <1>5, <2>2, ProcessStarts DEF Boot, fileVars, CursorFits, Scanning
    <3> QED
      BY <3>1, <3>2
  <2>3. CASE /\ detected = NoToken /\ armed.nextBlock # NoBlock
             /\ watcher' = Started("loop", armed.nextBlock)
             /\ watch' = IF prelaunch = watch.manifest THEN watch ELSE NoWatch
    <3>1. /\ watcher'.at = "loop" /\ watcher'.from = armed.nextBlock
          /\ watcher'.manifest = prelaunch /\ watcher' \in Process
      <4>1. "loop" \in WatcherAt /\ armed.nextBlock \in Nat
        BY <2>3 DEF WatcherAt
      <4> QED
        BY <2>3, <4>1, ProcessBoots
    <3>2. UNCHANGED fileVars
      BY <1>5 DEF Boot
    <3>3. WatchTypes'
      BY <1>1, <2>3, <3>1, <3>2, ProcessStarts DEF fileVars
    <3>4. CursorFits'
      BY <1>1, <1>2, <1>4, <2>3, <3>1, <3>2, ProcessStarts DEF fileVars, CursorFits, Scanning
    <3> QED
      BY <3>3, <3>4
  <2>4. CASE /\ detected = NoToken /\ armed.nextBlock = NoBlock
             /\ watcher' = Started("start", FreshStart)
             /\ watch' = [manifest |-> prelaunch, start |-> FreshStart]
    <3>0. FreshStart \in Nat /\ FreshStart <= HeadBlock
      BY <1>1, WatcherAssumption DEF FreshStart
    <3>1. /\ watcher'.at = "start" /\ watcher'.from = FreshStart
          /\ watcher'.manifest = prelaunch /\ watcher' \in Process
      <4>1. "start" \in WatcherAt
        BY DEF WatcherAt
      <4> QED
        BY <2>4, <3>0, <4>1, ProcessBoots
    <3>2. UNCHANGED fileVars
      BY <1>5 DEF Boot
    <3>3. WatchTypes'
      BY <1>1, <2>4, <3>0, <3>1, <3>2 DEF fileVars, Watches
    <3>4. watch'.start = FreshStart /\ watch'.manifest = prelaunch
      BY <2>4
    <3>5. Passed(armed.nextBlock)' /\ Passed(watcher.from)'
      BY <2>4, <3>0, <3>1, <3>2, <3>4 DEF fileVars, Passed
    <3>6. CursorFits'
      BY <1>1, <2>4, <3>0, <3>1, <3>2, <3>4, <3>5 DEF fileVars, CursorFits, Scanning
    <3> QED
      BY <3>3, <3>6
  <2> QED
    BY <1>5, <2>1, <2>2, <2>3, <2>4 DEF Boot
<1>6. CASE SaveCursor
  <2>1. /\ armed'.nextBlock = watcher.from /\ watcher'.from = watcher.from
        /\ watcher'.manifest = watcher.manifest /\ watcher'.at = "loop"
        /\ Scanning
        /\ UNCHANGED <<prelaunch, detected, watch>>
    BY <1>6 DEF SaveCursor, WatcherGoes, Scanning, Process
  <2>2. WatchTypes'
    <3>1. watcher' \in Process
      BY <1>3, <1>6 DEF SaveCursor, WatcherGoes, WatcherAt
    <3>2. armed' \in [at : Int, nextBlock : Nat \cup {NoBlock}]
      BY <1>6 DEF SaveCursor, Process
    <3> QED
      BY <1>1, <2>1, <3>1, <3>2
  <2> QED
    BY <1>1, <1>2, <1>4, <2>1, <2>2 DEF CursorFits, Scanning
<1>7. CASE ReadHead
  <2>1. /\ watcher'.from = watcher.from /\ watcher'.manifest = watcher.manifest
        /\ watcher'.at = "scan" /\ watcher'.to = HeadBlock /\ watcher.from <= HeadBlock
        /\ Scanning
        /\ UNCHANGED <<fileVars, watch>>
    BY <1>1, <1>7 DEF ReadHead, Scanning, Process
  <2>2. WatchTypes'
    <3>1. watcher' \in Process
      <4>1. "scan" \in WatcherAt
        BY DEF WatcherAt
      <4>2. ASSUME NEW to \in Int PROVE [watcher EXCEPT !.at = "scan", !.to = to] \in Process
        BY <4>1 DEF Process
      <4>3. HeadBlock \in Int
        BY <1>1
      <4> QED
        BY <1>7, <4>2, <4>3 DEF ReadHead
    <3> QED
      BY <1>1, <2>1, <3>1 DEF fileVars
  <2> QED
    BY <1>1, <1>2, <1>4, <2>1, <2>2 DEF CursorFits, Scanning, fileVars
<1>8. CASE ScanFinds \/ Retry
  <2>1. /\ watcher'.from = watcher.from /\ watcher'.manifest = watcher.manifest
        /\ watcher'.at \in {"found", "loop"}
        /\ Scanning
        /\ UNCHANGED <<fileVars, watch>>
    BY <1>8 DEF ScanFinds, Retry, WatcherGoes, Scanning, Process
  <2>2. WatchTypes'
    <3>1. CASE ScanFinds
      <4>1. PICK t \in Fitting(watcher.from, watcher.to) :
              watcher' = [watcher EXCEPT !.at = "found", !.to = t]
        BY <3>1 DEF ScanFinds
      <4>2. t \in Int
        BY <1>4 DEF Fitting
      <4> QED
        BY <1>1, <1>3, <1>4, <2>1, <4>1, <4>2 DEF fileVars, WatcherAt
    <3>2. CASE Retry
      BY <1>1, <1>3, <1>4, <2>1, <3>2 DEF Retry, WatcherGoes, fileVars, WatcherAt
    <3> QED
      BY <1>8, <3>1, <3>2
  <2> QED
    BY <1>1, <1>2, <1>4, <2>1, <2>2 DEF CursorFits, Scanning, fileVars
<1>9. CASE ScanNothing
  <2>1. /\ watcher'.from = watcher.to + 1 /\ watcher'.manifest = watcher.manifest
        /\ watcher'.at = "save" /\ watcher.at = "scan"
        /\ Scanning
        /\ UNCHANGED <<fileVars, watch>>
    BY <1>9 DEF ScanNothing, Scanning, Process
  <2>2. WatchTypes'
    <3>1. watcher' \in Process
      <4>1. "save" \in WatcherAt /\ watcher' = [watcher EXCEPT !.at = "save", !.from = watcher.to + 1]
        BY <1>9 DEF ScanNothing, WatcherAt
      <4>2. watcher.to + 1 \in Nat
        BY <1>4, <2>1 DEF CursorFits
      <4> QED
        BY <1>3, <4>1, <4>2
    <3> QED
      BY <1>1, <2>1, <3>1 DEF fileVars
  <2>3. watch.manifest # None => Passed(watcher.to + 1)
    <3>1. ASSUME watch.manifest # None, NEW t \in watch.start .. watcher.to, Launched(t)
          PROVE  blocks[t] # watch.manifest
      <4>1. CASE t < watcher.from
        <5>1. t \in watch.start .. watcher.from - 1
          BY <1>4, <3>1, <4>1 DEF Watches
        <5> QED
          BY <2>1, <3>1, <5>1 DEF CursorFits, Passed
      <4>2. CASE t >= watcher.from
        <5>1. t \in watcher.from .. watcher.to
          BY <1>4, <3>1, <4>2 DEF Watches
        <5> QED
          BY <1>9, <2>1, <3>1, <5>1 DEF ScanNothing, Fitting, CursorFits
      <4> QED
        BY <1>4, <3>1, <4>1, <4>2 DEF Watches
    <3>2. (watcher.to + 1) - 1 = watcher.to
      BY <1>4
    <3> QED
      BY <3>1, <3>2 DEF Passed
  <2> QED
    BY <1>1, <1>2, <1>4, <2>1, <2>2, <2>3 DEF CursorFits, Scanning, fileVars
<1>10. CASE SaveDetected
  <2>1. watcher' = Following /\ watch' = NoWatch /\ UNCHANGED <<prelaunch, armed>>
        /\ detected' = watcher.to
    BY <1>10 DEF SaveDetected
  <2>2. WatchTypes'
    BY <1>1, <1>4, <2>1, ProcessStarts
  <2> QED
    BY <1>1, <2>1, <2>2, ProcessStarts DEF CursorFits, Scanning
<1>11. CASE Expire \/ PoolReady \/ WatcherStops
  <2>1. watcher' = NoWatcher /\ UNCHANGED <<prelaunch, detected, watch>> /\ armed' \in {armed, NotArmed}
    BY <1>11 DEF Expire, PoolReady, WatcherStops, fileVars
  <2>2. WatchTypes'
    BY <1>1, <2>1, ProcessStarts DEF NotArmed
  <2>3. armed' = NotArmed => Passed(armed.nextBlock)'
    BY <2>1 DEF NotArmed, Passed, Watches
  <2> QED
    BY <1>1, <1>2, <1>4, <2>1, <2>2, <2>3, ProcessStarts DEF CursorFits, Scanning, NotArmed
<1>12. CASE Follow \/ ReimburseLifecycle
  <2>1. /\ UNCHANGED <<fileVars, watch>>
        /\ watcher'.at = watcher.at /\ watcher'.from = watcher.from /\ watcher'.to = watcher.to
        /\ watcher'.manifest = watcher.manifest
    BY <1>12 DEF Follow, ReimburseLifecycle, Process
  <2>2. WatchTypes'
    BY <1>1, <1>3, <1>4, <1>12 DEF Follow, ReimburseLifecycle, fileVars, WatcherAt
  <2> QED
    BY <1>1, <1>2, <1>4, <2>1, <2>2 DEF CursorFits, Scanning, fileVars
<1> QED
  BY <1>5, <1>6, <1>7, <1>8, <1>9, <1>10, <1>11, <1>12 DEF Watching

-----------------------------------------------------------------------------
(* Everybody else's steps.                                                 *)

\* A block more changes nothing of the blocks before.
LEMMA BlocksGrow ==
  ASSUME WatchTypes, blocks' = blocks \/ \E launch \in Fits : blocks' = Append(blocks, launch)
  PROVE  /\ blocks' \in Seq(Fits)
         /\ HeadBlock \in Nat /\ HeadBlock' \in Nat /\ HeadBlock <= HeadBlock'
         /\ \A t \in 1..HeadBlock : blocks'[t] = blocks[t]
         /\ \A t : Launched(t) => Launched(t)'
BY DEF WatchTypes, HeadBlock, Launched

LEMMA WorldKeepsWatch ==
  ASSUME WatchInv, UNCHANGED watcherVars,
         blocks' = blocks \/ \E launch \in Fits : blocks' = Append(blocks, launch)
  PROVE  WatchInv'
<1> USE DEF WatchInv, WatchTypes, NoBlock
<1>1. UNCHANGED <<prelaunch, armed, detected, watcher, watch>>
  BY DEF watcherVars
<1>2. WatchTypes'
  BY <1>1, BlocksGrow
<1>3. ASSUME NEW c \in Int, c <= HeadBlock + 1, Passed(c) PROVE Passed(c)'
  <2>1. ASSUME NEW t \in watch.start .. c - 1, Launched(t)' PROVE blocks'[t] # watch.manifest
    <3>1. t \in 1..HeadBlock
      BY <1>3, <2>1, BlocksGrow DEF Launched, Watches
    <3>2. blocks'[t] = blocks[t] /\ Launched(t)
      BY <2>1, <3>1, BlocksGrow DEF Launched
    <3> QED
      BY <1>3, <3>2 DEF Passed
  <2> QED
    BY <1>1, <2>1 DEF Passed
<1>4. watcher.from \in Nat /\ watcher.to \in Int /\ armed.nextBlock \in Int
  BY DEF Process
<1> QED
  BY <1>1, <1>2, <1>3, <1>4, BlocksGrow DEF CursorFits, Scanning

\* The runner replaces files and starts or stops the process.
LEMMA RunnerWrites ==
  ASSUME HostInv, Owner \/ Runner
  PROVE  \/ UNCHANGED watcherVars
         \/ UNCHANGED <<armed, detected, watcher, watch>> /\ prelaunch' \in Fits \cup {prelaunch}
         \/ UNCHANGED <<prelaunch, detected, watcher, watch>> /\ armed' \in {ArmedNow, NotArmed, armed}
         \/ UNCHANGED <<prelaunch, armed, detected, watch>> /\ watcher' \in {NoWatcher, Booting, watcher}
<1>1. CASE \/ Owner \/ Take \/ StartAutomation \/ StopAutomation
           \/ ArchiveRuntime \/ WriteConfig \/ WritePostlaunch \/ UpdateEnv \/ StartServices
           \/ RequestEnds
  BY <1>1 DEF Owner, Queue, Take, StartAutomation, StopAutomation, ArchiveRuntime, WriteConfig,
              WritePostlaunch, UpdateEnv, StartServices, RequestEnds
<1>2. CASE RegisterPrelaunch
  BY <1>2 DEF RegisterPrelaunch, Doing, HostInv, RequestsFit, Verified
<1>3. CASE ArmLaunchDetection \/ ArchiveArmed
  BY <1>3 DEF ArmLaunchDetection, ArchiveArmed
<1>4. CASE StartWatcher \/ CancelLaunchDetection \/ RestartWatcher
  BY <1>4 DEF StartWatcher, CancelLaunchDetection, RestartWatcher, WatcherUp, fileVars
<1> QED
  BY <1>1, <1>2, <1>3, <1>4 DEF Runner

LEMMA RunnerKeepsWatch ==
  ASSUME WatchInv, HostInv, blocks' = blocks, Owner \/ Runner
  PROVE  WatchInv'
<1> USE DEF WatchInv, WatchTypes, NoBlock
<1>1. CASE UNCHANGED watcherVars
  BY <1>1, WorldKeepsWatch
<1>2. CASE UNCHANGED <<armed, detected, watcher, watch>> /\ prelaunch' \in Fits \cup {prelaunch}
  BY <1>2 DEF CursorFits, Scanning, Passed, Launched, HeadBlock
<1>3. CASE UNCHANGED <<prelaunch, detected, watcher, watch>> /\ armed' \in {ArmedNow, NotArmed}
  <2>1. armed' \in [at : Int, nextBlock : Nat \cup {NoBlock}] /\ armed'.nextBlock = NoBlock
    BY <1>3, HeadIsNat DEF ArmedNow, NotArmed
  <2>2. Passed(armed.nextBlock)'
    BY <1>3, <2>1 DEF Passed, Watches
  <2> QED
    BY <1>3, <2>1, <2>2, HeadIsNat DEF CursorFits, Scanning, Passed, Launched, HeadBlock
<1>4. CASE UNCHANGED <<prelaunch, armed, detected, watch>> /\ watcher' \in {NoWatcher, Booting}
  BY <1>4, ProcessStarts DEF CursorFits, Scanning, Passed, Launched, HeadBlock
<1> QED
  BY <1>1, <1>2, <1>3, <1>4, RunnerWrites DEF watcherVars

-----------------------------------------------------------------------------
(* The activation.                                                         *)

LEMMA HostStarts == Init => HostInv
<1> SUFFICES ASSUME Init PROVE HostInv
  OBVIOUS
<1>1. HostTypes
  <2>1. NoRequest \in Request
    BY DEF NoRequest, Request, Fits
  <2>2. <<>> \in Seq(Request)
    OBVIOUS
  <2> QED
    BY <2>1, <2>2 DEF Init, HostTypes
<1>2. RequestsFit /\ ActivationFits
  BY DEF Init, RequestsFit, ActivationFits, Verified, NoRequest, Activating
<1> QED
  BY <1>1, <1>2 DEF HostInv

\* A detection is recorded once: a scan only runs while nothing was detected.
LEMMA DetectedOnce ==
  ASSUME WatchInv, Watching \/ WatcherStops \/ Retry
  PROVE  detected' = detected \/ detected = NoToken
BY DEF WatchInv, CursorFits, Scanning, Watching, Boot, SaveCursor, ReadHead, ScanFinds, ScanNothing,
       SaveDetected, Expire, Follow, ReimburseLifecycle, PoolReady, WatcherStops, Retry, fileVars

LEMMA OthersKeepHost ==
  ASSUME WatchInv, HostInv, UNCHANGED hostVars, detected' = detected \/ detected = NoToken,
         blocks' = blocks \/ \E launch \in Fits : blocks' = Append(blocks, launch)
  PROVE  HostInv'
<1>1. UNCHANGED <<requests, processing, runner, config, postlaunch, envFile, torn, running>>
  BY DEF hostVars, queueVars, activationVars
<1>2. \A t : Launched(t) => Launched(t)' /\ t # NoToken
  BY BlocksGrow DEF WatchInv, Launched, NoToken
<1>3. HostTypes'
  BY <1>1 DEF HostInv, HostTypes
<1>4. RequestsFit'
  <2>1. Activating \/ runner = "activated" => detected' = detected
    BY <1>2 DEF HostInv, RequestsFit, Verified
  <2> QED
    BY <1>1, <1>2, <2>1 DEF HostInv, RequestsFit, Verified, Activating
<1>5. ActivationFits => ActivationFits'
  BY <1>1, <1>2 DEF ActivationFits, Activating
<1> QED
  BY <1>1, <1>3, <1>4, <1>5 DEF HostInv

\* What is queued was verified.
LEMMA Queueing ==
  ASSUME NEW action \in Actions, NEW about \in Payloads(action)
  PROVE  /\ [action |-> action, about |-> about] \in Request
         /\ Verified([action |-> action, about |-> about])
<1>1. CASE action = "register_prelaunch"
  BY <1>1 DEF Payloads, Request, Verified, Fits
<1>2. CASE action = "activate_postlaunch"
  BY <1>2 DEF Payloads, Request, Verified
<1>3. CASE action \notin {"register_prelaunch", "activate_postlaunch"}
  BY <1>3 DEF Payloads, Request, Verified, Fits
<1> QED
  BY <1>1, <1>2, <1>3

LEMMA OwnerKeepsHost ==
  ASSUME WatchInv, HostInv, blocks' = blocks, Owner
  PROVE  HostInv'
<1>1. PICK action \in Actions : Queue(action)
  BY DEF Owner
<1>2. PICK about \in Payloads(action) : requests' = <<[action |-> action, about |-> about]>>
  BY <1>1 DEF Queue
<1>3. UNCHANGED <<processing, runner, config, postlaunch, envFile, torn, running, detected>>
  BY <1>1 DEF Queue, activationVars, watcherVars
<1>4. requests' \in Seq(Request) /\ \A i \in 1..Len(requests') : Verified(requests'[i])
  BY <1>2, Queueing
<1>5. \A r : Verified(r) <=> Verified(r)'
  BY DEF Verified, Launched, HeadBlock
<1> QED
  BY <1>3, <1>4, <1>5
     DEF HostInv, HostTypes, RequestsFit, ActivationFits, Activating, Launched, HeadBlock

LEMMA RunnerKeepsHost ==
  ASSUME WatchInv, HostInv, blocks' = blocks, Runner
  PROVE  HostInv'
<1> USE DEF HostInv, HostTypes
<1>1. \A r : Verified(r) <=> Verified(r)'
  BY DEF Verified, Launched, HeadBlock
<1>2. \A t : Launched(t) <=> Launched(t)'
  BY DEF Launched, HeadBlock
<1>3. NoRequest \in Request /\ Verified(NoRequest)
  BY DEF NoRequest, Request, Verified, Fits
<1>4. CASE Take
  <2>1. /\ requests # <<>> /\ requests' = Tail(requests)
        /\ UNCHANGED <<activationVars, running, watcherVars>>
    BY <1>4 DEF Take
  <2>2. requests[1] \in Request /\ Verified(requests[1])
    BY <2>1 DEF RequestsFit
  <2>3. requests' \in Seq(Request) /\ \A i \in 1..Len(requests') : Verified(requests'[i])
    BY <2>1 DEF RequestsFit
  <2>4. runner = "idle" /\ (\/ processing' = requests[1] /\ runner' = "acting"
                            \/ UNCHANGED <<processing, runner>>)
    BY <1>4 DEF Take
  <2>5. RequestsFit' /\ HostTypes'
    BY <1>1, <2>1, <2>2, <2>3, <2>4 DEF RequestsFit, Activating, activationVars
  <2>6. ActivationFits => ActivationFits'
    BY <1>2, <2>1, <2>4 DEF ActivationFits, Activating, activationVars, watcherVars
  <2> QED
    BY <2>1, <2>5, <2>6 DEF activationVars
<1>5. CASE \/ StartAutomation \/ StopAutomation \/ RegisterPrelaunch \/ ArmLaunchDetection
           \/ StartWatcher \/ CancelLaunchDetection \/ ArchiveArmed \/ RestartWatcher
  <2>1. /\ UNCHANGED <<requests, config, postlaunch, envFile, torn, detected>>
        /\ ~Activating /\ runner # "activated"
    BY <1>5 DEF StartAutomation, StopAutomation, RegisterPrelaunch, ArmLaunchDetection, StartWatcher,
                CancelLaunchDetection, ArchiveArmed, RestartWatcher, Doing, queueVars, activationVars,
                watcherVars, fileVars, hostVars, Activating
  <2>2. /\ processing' \in {processing, NoRequest}
        /\ runner' \in {"idle", "armed", "cancelled"}
    BY <1>5 DEF StartAutomation, StopAutomation, RegisterPrelaunch, ArmLaunchDetection, StartWatcher,
                CancelLaunchDetection, ArchiveArmed, RestartWatcher, RunnerGoes, Done, hostVars
  <2>3. running' \in {running, Off} \/ (running' = envFile /\ postlaunch # NoToken)
    <3>1. CASE StartAutomation
      BY <3>1 DEF StartAutomation, ServicesUp
    <3>2. CASE StopAutomation
      BY <3>2 DEF StopAutomation
    <3>3. CASE RegisterPrelaunch \/ ArmLaunchDetection \/ StartWatcher
      BY <3>3 DEF RegisterPrelaunch, ArmLaunchDetection, StartWatcher
    <3>4. CASE CancelLaunchDetection \/ ArchiveArmed
      BY <3>4 DEF CancelLaunchDetection, ArchiveArmed
    <3>5. CASE RestartWatcher
      BY <3>5 DEF RestartWatcher, hostVars
    <3> QED
      BY <1>5, <3>1, <3>2, <3>3, <3>4, <3>5
  <2>4. RequestsFit' /\ HostTypes'
    BY <1>1, <1>3, <2>1, <2>2 DEF RequestsFit, Activating
  <2>5. ActivationFits => ActivationFits'
    BY <1>2, <2>1, <2>2, <2>3 DEF ActivationFits, Activating
  <2> QED
    BY <2>1, <2>4, <2>5
<1>6. CASE ArchiveRuntime
  <2>1. /\ UNCHANGED <<requests, processing, postlaunch, envFile, torn, running, detected>>
        /\ processing.action = "activate_postlaunch" /\ processing.about = detected
        /\ runner' = "archived"
    BY <1>6 DEF ArchiveRuntime, Doing, RunnerGoes, queueVars, watcherVars
  <2>2. RequestsFit' /\ HostTypes'
    BY <1>1, <2>1 DEF RequestsFit, Activating
  <2>3. ActivationFits => ActivationFits'
    BY <1>2, <2>1 DEF ActivationFits, Activating
  <2> QED
    BY <2>1, <2>2, <2>3
<1>7. CASE WriteConfig
  <2>1. /\ UNCHANGED <<requests, processing, postlaunch, envFile, torn, running, detected>>
        /\ config' = processing.about
        /\ runner = "archived" /\ runner' = "configured"
    BY <1>7 DEF WriteConfig, RunnerGoes, queueVars, watcherVars
  <2>2. RequestsFit' /\ HostTypes'
    BY <1>1, <2>1 DEF RequestsFit, Activating
  <2>3. ActivationFits => ActivationFits'
    BY <1>2, <2>1 DEF ActivationFits, Activating
  <2> QED
    BY <2>1, <2>2, <2>3
<1>8. CASE WritePostlaunch
  <2>1. /\ UNCHANGED <<requests, processing, config, envFile, torn, running, detected>>
        /\ postlaunch' = processing.about
        /\ runner = "configured" /\ runner' = "posted"
    BY <1>8 DEF WritePostlaunch, RunnerGoes, queueVars, watcherVars
  <2>2. RequestsFit' /\ HostTypes'
    BY <1>1, <2>1 DEF RequestsFit, Activating
  <2>3. processing.about = detected /\ Launched(processing.about) /\ processing.about # NoToken
    BY <2>1 DEF RequestsFit, Activating, Verified, Launched, NoToken
  <2>4. ActivationFits => ActivationFits'
    BY <1>2, <2>1, <2>3 DEF ActivationFits, Activating
  <2> QED
    BY <2>1, <2>2, <2>4
<1>9. CASE UpdateEnv
  <2>1. /\ UNCHANGED <<requests, processing, config, postlaunch, torn, running, detected>>
        /\ envFile' = processing.about
        /\ runner = "posted" /\ runner' = "activated"
    BY <1>9 DEF UpdateEnv, RunnerGoes, queueVars, watcherVars
  <2>2. RequestsFit' /\ HostTypes'
    BY <1>1, <2>1 DEF RequestsFit, Activating
  <2>3. ActivationFits => ActivationFits'
    BY <1>2, <2>1 DEF ActivationFits, Activating
  <2> QED
    BY <2>1, <2>2, <2>3
<1>10. CASE StartServices
  <2>1. /\ UNCHANGED <<requests, config, postlaunch, envFile, torn, detected>>
        /\ runner = "activated" /\ runner' = "idle" /\ processing' = NoRequest
        /\ running' \in {running, envFile}
    BY <1>10 DEF StartServices, ServicesUp, Done, queueVars, activationVars, watcherVars
  <2>2. RequestsFit' /\ HostTypes'
    BY <1>1, <1>3, <2>1 DEF RequestsFit, Activating
  <2>3. postlaunch = processing.about /\ Launched(processing.about) => postlaunch # NoToken
    BY DEF Launched, NoToken
  <2>4. ActivationFits => ActivationFits'
    BY <1>2, <2>1, <2>3 DEF ActivationFits, Activating, RequestsFit, Verified
  <2> QED
    BY <2>1, <2>2, <2>4
<1>11. CASE RequestEnds
  <2>1. Interrupted /\ UNCHANGED <<requests, running, detected>>
    BY <1>11 DEF RequestEnds, queueVars, watcherVars
  <2> QED
    BY <1>1, <1>2, <1>3, <2>1
       DEF Interrupted, Done, RequestsFit, ActivationFits, Activating
<1> QED
  BY <1>4, <1>5, <1>6, <1>7, <1>8, <1>9, <1>10, <1>11 DEF Runner

LEMMA StopKeepsHost ==
  ASSUME WatchInv, HostInv, blocks' = blocks, RunnerStops
  PROVE  HostInv'
<1>1. Interrupted /\ UNCHANGED <<requests, running, detected>>
  BY DEF RunnerStops, queueVars, watcherVars
<1>2. NoRequest \in Request /\ Verified(NoRequest)
  BY DEF NoRequest, Request, Verified, Fits
<1>3. \A r : Verified(r) <=> Verified(r)'
  BY DEF Verified, Launched, HeadBlock
<1>4. \A t : Launched(t) <=> Launched(t)'
  BY DEF Launched, HeadBlock
<1> QED
  BY <1>1, <1>2, <1>3, <1>4
     DEF HostInv, HostTypes, Interrupted, Done, RequestsFit, ActivationFits, Activating

-----------------------------------------------------------------------------
\* The inductive invariant, over the whole composition.
IInv == WatchInv /\ HostInv

\* The keeper, the router and PONS touch neither files nor blocks, but for a block
\* that is mined.
LEMMA OutsideSteps ==
  ASSUME Keep \/ World
  PROVE  /\ UNCHANGED <<watcherVars, hostVars>>
         /\ blocks' = blocks \/ \E launch \in Fits : blocks' = Append(blocks, launch)
<1>1. CASE Keep
  BY <1>1 DEF Keep, CycleStep, CollectPonsFees, AllocateFees, BuyForRewards, BuyForReserve,
              PausedReverts, ReimburseGas, chainVars, ponsVars
<1>2. CASE World
  BY <1>2 DEF World, Mine, SellOut, Rescue, Graduate, CreateGraduatedPool, PhaseMoves, Trade,
              chainVars, ponsVars, Fits
<1> QED
  BY <1>1, <1>2

\* Every step of every process keeps it.
THEOREM Invariance == Spec => []IInv
<1>1. IInv /\ [Next]_vars => IInv'
  <2> SUFFICES ASSUME IInv, [Next]_vars PROVE IInv'
    OBVIOUS
  <2> USE DEF IInv
  <2>1. CASE Control
    <3>1. blocks' = blocks
      BY <2>1 DEF Control, ponsVars, chainVars
    <3> QED
      BY <2>1, <3>1, RunnerKeepsWatch, OwnerKeepsHost, RunnerKeepsHost DEF Control
  <2>2. CASE Watch
    BY <2>2, WatchingKeeps, WatchingBlocks, DetectedOnce, OthersKeepHost DEF Watch
  <2>3. CASE Keep \/ World
    BY <2>3, OutsideSteps, WorldKeepsWatch, OthersKeepHost DEF watcherVars
  <2>4. CASE Fault
    <3>1. CASE (WatcherStops \/ Retry) /\ UNCHANGED <<hostVars, keeperVars>>
      BY <3>1, WatchingKeeps, WatchingBlocks, DetectedOnce, OthersKeepHost
    <3>2. CASE RunnerStops /\ UNCHANGED <<ponsVars, routerVars, keeperVars>>
      <4>1. blocks' = blocks /\ UNCHANGED watcherVars
        BY <3>2 DEF RunnerStops, ponsVars, chainVars
      <4> QED
        BY <3>2, <4>1, WorldKeepsWatch, StopKeepsHost
    <3>3. CASE Converts /\ (CycleFails \/ TransactionReverts) /\ UNCHANGED <<watcherVars, hostVars>>
      <4>1. blocks' = blocks
        BY <3>3 DEF CycleFails, TransactionReverts, ponsVars, chainVars
      <4> QED
        BY <3>3, <4>1, WorldKeepsWatch, OthersKeepHost DEF watcherVars
    <3> QED
      BY <2>4, <3>1, <3>2, <3>3 DEF Fault
  <2>5. CASE UNCHANGED vars
    BY <2>5, WorldKeepsWatch, OthersKeepHost DEF vars, watcherVars, ponsVars, chainVars
  <2> QED
    BY <2>1, <2>2, <2>3, <2>4, <2>5 DEF Next
<1> QED
  BY WatchStarts, HostStarts, <1>1, PTL DEF Spec, IInv

\* No block behind a cursor has a launch that fits and was not detected, for
\* any number of blocks, launches and faults.
THEOREM CursorSkipsNothingHolds == Spec => []CursorSkipsNothing
<1>1. IInv => CursorSkipsNothing
  BY DEF IInv, WatchInv, CursorFits, CursorSkipsNothing, Passed
<1> QED
  BY <1>1, Invariance, PTL

\* Services run for nothing but the launch that was detected and activated, unless an
\* activation was interrupted, for any number of requests in any order.
THEOREM AutomationIsActivatedHolds == Spec => []AutomationIsActivated
<1>1. IInv => AutomationIsActivated
  BY DEF IInv, HostInv, ActivationFits, Activating, AutomationIsActivated
<1> QED
  BY <1>1, Invariance, PTL

=============================================================================
