----------------------------- MODULE HostControl -----------------------------
(***************************************************************************)
(* The host of the earlier deployment: the control runner takes the        *)
(* owner's signed requests one at a time, starts and stops the services,   *)
(* arms and cancels launch detection, and activates a detected launch by   *)
(* writing the configuration the services start from.  Composed with the   *)
(* watcher and the fee keeper it controls, and the contracts they call.    *)
(***************************************************************************)
EXTENDS LaunchWatcher, FeeKeeper, FiniteSets

CONSTANTS
  Fee,          \* amounts of ETH that arrive
  MaxRequests,  \* bound: requests the owner signs
  MaxFaults     \* bound: stops of the runner and the watcher, and failures of their calls

VARIABLES
  requests,     \* the requests directory, in name order
  processing,   \* the request being processed
  runner,       \* where the runner is in it
  config,       \* the token public config.json names, or NoToken
  postlaunch,   \* the token of postlaunch.json
  envFile,      \* the token of .env.server; NoToken is what was there before
  running,      \* the token the three services were started with, or Off
  torn,         \* ghost: an activation was interrupted
  asked, faults \* requests and faults so far

queueVars == <<requests, asked>>
activationVars == <<config, postlaunch, envFile, torn>>
hostVars == <<queueVars, processing, runner, activationVars, running>>
vars == <<ponsVars, routerVars, watcherVars, keeperVars, hostVars, faults>>

Off == -1
NoRequest == [action |-> "none", about |-> None]

Init ==
  /\ PonsInit /\ RouterInit /\ WatcherInit /\ KeeperInit
  /\ requests = <<>> /\ processing = NoRequest /\ runner = "idle"
  /\ config = NoToken /\ postlaunch = NoToken /\ envFile = NoToken /\ torn = FALSE
  /\ running = Off
  /\ asked = 0 /\ faults = 0

-----------------------------------------------------------------------------
(***************************************************************************)
(* The admin API.                                                          *)
(***************************************************************************)
\* What a request may carry: a manifest that normalises and verifies, the token
\* of an activation whose launch verifies.
Payloads(action) ==
  CASE action = "register_prelaunch" -> Manifest
    [] action = "activate_postlaunch" -> {t \in Token : Launched(t)}
    [] OTHER -> {None}

\* queueAdminAction.  Bound: a request is signed when the former is done, which the
\* runner would make it wait for.
Queue(action) ==
  /\ asked < MaxRequests
  /\ requests = <<>> /\ runner = "idle"
  /\ \E about \in Payloads(action) : requests' = <<[action |-> action, about |-> about]>>
  /\ asked' = asked + 1
  /\ UNCHANGED <<processing, runner, activationVars, running, watcherVars>>

-----------------------------------------------------------------------------
(***************************************************************************)
(* process_request.                                                        *)
(***************************************************************************)
RunnerGoes(to) == runner' = to /\ UNCHANGED processing
Done == runner' = "idle" /\ processing' = NoRequest
Doing(action) == runner = "acting" /\ processing.action = action

\* The oldest request is moved to processing and read; one that is not all
\* written yet does not parse, and is archived as rejected.
Take ==
  /\ runner = "idle"
  /\ requests # <<>>
  /\ requests' = Tail(requests)
  /\ \/ processing' = requests[1] /\ runner' = "acting"
     \/ UNCHANGED <<processing, runner>>
  /\ UNCHANGED <<asked, activationVars, running, watcherVars>>

\* docker compose up: services run with the environment of that moment, or the
\* command fails before or after it started them.
ServicesUp == running' = envFile \/ UNCHANGED running

\* Mutant: without looking for postlaunch.json.
StartUnconditionally ==
  /\ Doing("start_automation")
  /\ Done
  /\ ServicesUp
  /\ UNCHANGED <<queueVars, activationVars, watcherVars>>

StartAutomation ==
  /\ Doing("start_automation")
  /\ Done
  /\ IF postlaunch = NoToken THEN UNCHANGED running ELSE ServicesUp
  /\ UNCHANGED <<queueVars, activationVars, watcherVars>>

StopAutomation ==
  /\ Doing("stop_automation")
  /\ Done
  /\ running' = Off \/ UNCHANGED running
  /\ UNCHANGED <<queueVars, activationVars, watcherVars>>

\* Refused when the manifest, verified again, does not pass.
RegisterPrelaunch ==
  /\ Doing("register_prelaunch")
  /\ Done
  /\ prelaunch' = processing.about \/ UNCHANGED prelaunch
  /\ UNCHANGED <<queueVars, activationVars, running, armed, detected, watcher, watch>>

ArmLaunchDetection ==
  /\ Doing("arm_launch_detection")
  /\ IF prelaunch = None \/ detected # NoToken
       THEN Done /\ UNCHANGED armed
       ELSE RunnerGoes("armed") /\ armed' = ArmedNow
  /\ UNCHANGED <<queueVars, activationVars, running, prelaunch, detected, watcher, watch>>

WatcherUp == IF watcher.at = "off" THEN watcher' = Booting ELSE UNCHANGED watcher

StartWatcher ==
  /\ runner = "armed"
  /\ Done
  /\ WatcherUp \/ UNCHANGED watcher
  /\ UNCHANGED <<queueVars, activationVars, running, fileVars, watch>>

\* The watcher is stopped, unless docker fails, and then disarmed all the same.
CancelLaunchDetection ==
  /\ Doing("cancel_launch_detection")
  /\ RunnerGoes("cancelled")
  /\ watcher' = NoWatcher \/ UNCHANGED watcher
  /\ UNCHANGED <<queueVars, activationVars, running, fileVars, watch>>

ArchiveArmed ==
  /\ runner = "cancelled"
  /\ Done
  /\ armed' = NotArmed
  /\ UNCHANGED <<queueVars, activationVars, running, prelaunch, detected, watcher, watch>>

Activating == runner \in {"archived", "configured", "posted"}
Interrupted ==
  /\ Done
  /\ torn' = (torn \/ Activating)
  /\ UNCHANGED <<config, postlaunch, envFile>>

\* activate-postlaunch.py, each write a step; verification may fail before it, and
\* a failure of any step ends the request.
ArchiveRuntime ==
  /\ Doing("activate_postlaunch")
  /\ processing.about = detected
  /\ RunnerGoes("archived")
  /\ config' = NoToken
  /\ UNCHANGED <<queueVars, postlaunch, envFile, torn, running, watcherVars>>

WriteConfig ==
  /\ runner = "archived"
  /\ RunnerGoes("configured")
  /\ config' = processing.about
  /\ UNCHANGED <<queueVars, postlaunch, envFile, torn, running, watcherVars>>

WritePostlaunch ==
  /\ runner = "configured"
  /\ RunnerGoes("posted")
  /\ postlaunch' = processing.about
  /\ UNCHANGED <<queueVars, config, envFile, torn, running, watcherVars>>

UpdateEnv ==
  /\ runner = "posted"
  /\ RunnerGoes("activated")
  /\ envFile' = processing.about
  /\ UNCHANGED <<queueVars, config, postlaunch, torn, running, watcherVars>>

StartServices ==
  /\ runner = "activated"
  /\ Done
  /\ ServicesUp
  /\ UNCHANGED <<queueVars, activationVars, watcherVars>>

\* A detected token that is another, a check or a step that fails; and
\* prepare_governance, which changes nothing of what is modelled here.
RequestEnds ==
  /\ Doing("activate_postlaunch") \/ Doing("prepare_governance") \/ Activating
  /\ Interrupted
  /\ UNCHANGED <<queueVars, running, watcherVars>>

\* Mutant: only once a launch was detected.
RestartDetected ==
  /\ runner = "idle"
  /\ Armed /\ detected # NoToken /\ watcher.at = "off"
  /\ WatcherUp
  /\ UNCHANGED <<hostVars, fileVars, watch>>

\* An armed watcher that does not run is started again.
RestartWatcher ==
  /\ runner = "idle"
  /\ Armed /\ watcher.at = "off"
  /\ WatcherUp
  /\ UNCHANGED <<hostVars, fileVars, watch>>

\* The request stays in processing, where nothing looks again.
RunnerStops ==
  /\ runner # "idle"
  /\ Interrupted
  /\ UNCHANGED <<queueVars, running, watcherVars>>

Runner ==
  \/ Take \/ StartAutomation \/ StopAutomation \/ RegisterPrelaunch
  \/ ArmLaunchDetection \/ StartWatcher \/ CancelLaunchDetection \/ ArchiveArmed
  \/ ArchiveRuntime \/ WriteConfig \/ WritePostlaunch \/ UpdateEnv \/ StartServices
  \/ RequestEnds \/ RestartWatcher

-----------------------------------------------------------------------------
Actions == {"start_automation", "stop_automation", "register_prelaunch", "arm_launch_detection",
            "cancel_launch_detection", "activate_postlaunch", "prepare_governance"}

Owner == \E action \in Actions : Queue(action)

\* A service that is stopped, or started with another environment, begins anew.
Control ==
  /\ Owner \/ Runner
  /\ IF running' = running THEN UNCHANGED keeperVars ELSE CycleEnds
  /\ UNCHANGED <<ponsVars, routerVars, faults>>

Watch == Watching /\ UNCHANGED <<keeperVars, hostVars, faults>>

Converted ==
  curveFees + escrow + unallocatedEth + pendingRewardEth + pendingReserveEth = 0

\* A keeper that was started with another environment works for another project.
\* A cycle that finds nothing is left out.
Converts == running # Off /\ running = detected
Keep ==
  /\ Converts
  /\ cycle = "collect" /\ ~gasOwed => ~Converted
  /\ CycleStep
  /\ UNCHANGED <<watcherVars, hostVars, faults>>

\* A process stops, or a call of it fails.
Fault ==
  /\ faults < MaxFaults
  /\ faults' = faults + 1
  /\ \/ (WatcherStops \/ Retry) /\ UNCHANGED <<hostVars, keeperVars>>
     \/ RunnerStops /\ UNCHANGED <<ponsVars, routerVars, keeperVars>>
     \/ Converts /\ (CycleFails \/ TransactionReverts) /\ UNCHANGED <<watcherVars, hostVars>>

Arriving(amount) == received + curveFees + escrow + amount <= MaxEth

\* Traders, other keepers, PONS and the router's administrator; only the launch
\* that is followed moves on.  Bounds: blocks matter until
\* the detection, ETH arrives once the services were started, and the router is
\* only paused with something to convert.
World ==
  /\ \/ /\ \/ detected = NoToken /\ \E launch \in Manifest \cup {None} : Mine(launch)
           \/ detected # NoToken /\ (SellOut \/ Rescue \/ Graduate \/ CreateGraduatedPool)
           \/ running # Off /\ \E amount \in Fee : Arriving(amount) /\ Trade(amount)
        /\ UNCHANGED routerVars
     \/ /\ \/ ~Converted /\ PauseRouter
           \/ running # Off /\ \E amount \in Fee : Arriving(amount) /\ Receive(amount)
        /\ UNCHANGED ponsVars
  /\ UNCHANGED <<watcherVars, keeperVars, hostVars, faults>>

Next == Control \/ Watch \/ Keep \/ Fault \/ World

\* The processes run: loops that sleep and go on, timers, and a service that is
\* restarted.
Fairness == WF_vars(Control /\ Runner) /\ WF_vars(Watch) /\ WF_vars(Keep)

Spec == Init /\ [][Next]_vars
FairSpec == Spec /\ Fairness

-----------------------------------------------------------------------------
(***************************************************************************)
(* Properties.                                                             *)
(***************************************************************************)
\* The blocks behind the cursor, in memory or in armed.json, were all looked at:
\* no launch that fits the manifest of the watch is in one of them and not
\* detected, whatever providers fail and wherever the watcher stops
\* ("retrying without advancing cursor", launchWatcher.ts main).
CursorSkipsNothing ==
  watch.manifest # None /\ detected = NoToken =>
    \A cursor \in {armed.nextBlock} \cup (IF Scanning THEN {watcher.from} ELSE {}) :
      \A t \in watch.start .. cursor - 1 : Launched(t) => blocks[t] # watch.manifest

\* Services only run for the launch that was detected and activated, and the
\* site, the record of the activation and the environment all name it, unless an
\* activation was ever interrupted ("Refusing to start automation before verified
\* postlaunch activation", control-runner.sh).
AutomationIsActivated ==
  runner = "idle" /\ ~torn =>
    /\ config = postlaunch /\ postlaunch = envFile
    /\ running # Off => running = postlaunch /\ postlaunch = detected /\ Launched(detected)

\* A launch that fits the watch does not stay undetected while the host is armed.
WatchedLaunch ==
  /\ Armed
  /\ watch.manifest # None
  /\ \E t \in Token : t >= watch.start /\ Launched(t) /\ blocks[t] = watch.manifest
LaunchDetected == []<>(detected # NoToken \/ ~WatchedLaunch)

\* While the services run for the launch and the router is not paused, all that
\* PONS holds for the project ends up as MSTR or with the keepers.
Converting == Converts /\ ~routerPaused
FeesConverted == <>[]Converting => <>[]Converted

=============================================================================
