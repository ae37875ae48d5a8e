---------------------------- MODULE LaunchWatcher ----------------------------
(***************************************************************************)
(* The watcher an armed launch detection runs.  It scans the blocks after  *)
(* its cursor for a launch that fits the prelaunch manifest, records the   *)
(* first, and then keeps the launch's migration moving until the pool      *)
(* exists.  What it needs after a restart is in two files: armed.json with *)
(* the cursor, and detected.json.                                          *)
(***************************************************************************)
EXTENDS PonsLaunch, FeeRouter

CONSTANTS
  Registered,   \* the manifest that was registered before, or None
  LookBack,     \* blocks before the head where a fresh watch starts (64)
  MaxRuntime    \* maxRuntimeMs, in blocks

ASSUME WatcherAssumption ==
  LookBack \in Nat /\ MaxRuntime \in Nat /\ Registered \in Manifest \cup {None}

VARIABLES
  prelaunch,   \* prelaunch.json: a manifest, or None
  armed,       \* armed.json
  detected,    \* detected.json: a token, or NoToken
  watcher,     \* the process
  watch        \* ghost: which manifest is looked for, and from which block on

watcherVars == <<prelaunch, armed, detected, watcher, watch>>
fileVars == <<prelaunch, armed, detected>>

NoBlock == -1
NotArmed == [at |-> NoBlock, nextBlock |-> NoBlock]
Armed == armed # NotArmed
ArmedNow == [at |-> HeadBlock, nextBlock |-> NoBlock]

\* The process when it does not run; "to" is the head it scans to, or the token
\* it found, "owed" that a transaction of its is to be reimbursed.
NoWatch == [manifest |-> None, start |-> 0]
NoWatcher == [at |-> "off", armedAt |-> NoBlock, manifest |-> None, from |-> 0, to |-> 0, owed |-> FALSE]
Booting == [NoWatcher EXCEPT !.at = "booting"]
\* What was scanned no longer matters.
Following == [NoWatcher EXCEPT !.at = "follow"]
Scanning == watcher.at \in {"start", "loop", "scan", "found", "save"}

WatcherInit ==
  /\ prelaunch = Registered /\ armed = NotArmed /\ detected = NoToken
  /\ watcher = NoWatcher
  /\ watch = NoWatch

WatcherGoes(to) == watcher' = [watcher EXCEPT !.at = to]

\* A fresh watch looks back a little.
FreshStart == IF HeadBlock > LookBack THEN HeadBlock - LookBack ELSE 0
Started(at, from) ==
  [at |-> at, armedAt |-> armed.at, manifest |-> prelaunch, from |-> from, to |-> 0, owed |-> FALSE]

\* main, up to the loop.
Boot ==
  LET resumed == armed.nextBlock # NoBlock IN
  /\ watcher.at = "booting"
  /\ \/ ~Armed /\ watcher' = NoWatcher /\ UNCHANGED watch
     \/ Armed /\ detected # NoToken
        /\ watcher' = Following /\ watch' = NoWatch
     \/ Armed /\ detected = NoToken /\ resumed
        /\ watcher' = Started("loop", armed.nextBlock)
        /\ watch' = IF prelaunch = watch.manifest THEN watch
                    ELSE NoWatch
     \/ Armed /\ detected = NoToken /\ ~resumed
        /\ watcher' = Started("start", FreshStart)
        /\ watch' = [manifest |-> prelaunch, start |-> FreshStart]
  /\ UNCHANGED <<fileVars, ponsVars, routerVars>>

\* armed.json is written from memory: when the watch starts, and after a scan.
SaveCursor ==
  /\ watcher.at \in {"start", "save"}
  /\ armed' = [at |-> watcher.armedAt, nextBlock |-> watcher.from]
  /\ WatcherGoes("loop")
  /\ UNCHANGED <<prelaunch, detected, watch, ponsVars, routerVars>>

Expired == HeadBlock - watcher.armedAt >= MaxRuntime

ReadHead ==
  /\ watcher.at = "loop"
  /\ ~Expired
  /\ HeadBlock >= watcher.from
  /\ watcher' = [watcher EXCEPT !.at = "scan", !.to = HeadBlock]
  /\ UNCHANGED <<fileVars, watch, ponsVars, routerVars>>

\* verifyPonsDetection, over the logs of the range.
Fitting(from, to) == {t \in from..to : Launched(t) /\ blocks[t] = watcher.manifest}

ScanFinds ==
  LET found == Fitting(watcher.from, watcher.to) IN
  /\ watcher.at = "scan"
  /\ \E t \in found :
       /\ \A u \in found : t <= u
       /\ watcher' = [watcher EXCEPT !.at = "found", !.to = t]
  /\ UNCHANGED <<fileVars, watch, ponsVars, routerVars>>

\* Mutant: the cursor moves behind the head of the moment.
ScanNothingToHead ==
  /\ watcher.at = "scan"
  /\ Fitting(watcher.from, watcher.to) = {}
  /\ watcher' = [watcher EXCEPT !.at = "save", !.from = HeadBlock + 1]
  /\ UNCHANGED <<fileVars, watch, ponsVars, routerVars>>

ScanNothing ==
  /\ watcher.at = "scan"
  /\ Fitting(watcher.from, watcher.to) = {}
  /\ watcher' = [watcher EXCEPT !.at = "save", !.from = watcher.to + 1]
  /\ UNCHANGED <<fileVars, watch, ponsVars, routerVars>>

SaveDetected ==
  /\ watcher.at = "found"
  /\ detected' = watcher.to
  /\ watcher' = Following /\ watch' = NoWatch
  /\ UNCHANGED <<prelaunch, armed, ponsVars, routerVars>>

\* A provider or the disk fails inside the loop.
Retry ==
  /\ watcher.at \in {"scan", "found", "save"}
  /\ WatcherGoes("loop")
  /\ UNCHANGED <<fileVars, watch, ponsVars, routerVars>>

Expire ==
  /\ watcher.at = "loop"
  /\ Expired
  /\ armed' = NotArmed
  /\ watcher' = NoWatcher
  /\ UNCHANGED <<prelaunch, detected, watch, ponsVars, routerVars>>

-----------------------------------------------------------------------------
\* keepMigrationMoving: the transaction the phase asks for, if no one else sent it.
Follow ==
  /\ watcher.at = "follow" /\ ~watcher.owed
  /\ Graduate \/ CreateGraduatedPool
  /\ watcher' = [watcher EXCEPT !.owed = TRUE]
  /\ UNCHANGED <<fileVars, watch, routerVars>>

\* After its transaction.
ReimburseLifecycle ==
  /\ watcher.owed
  /\ watcher' = [watcher EXCEPT !.owed = FALSE]
  /\ ReimburseTransaction
  /\ UNCHANGED <<fileVars, watch, ponsVars>>

PoolReady ==
  /\ watcher.at = "follow" /\ ~watcher.owed
  /\ phase = "v4"
  /\ armed' = NotArmed
  /\ watcher' = NoWatcher
  /\ UNCHANGED <<prelaunch, detected, watch, ponsVars, routerVars>>

\* The process or its container dies; it throws when its first write fails.
WatcherStops ==
  /\ watcher.at # "off"
  /\ watcher' = NoWatcher
  /\ UNCHANGED <<fileVars, watch, ponsVars, routerVars>>

Watching ==
  \/ Boot \/ SaveCursor \/ ReadHead \/ ScanFinds \/ ScanNothing \/ SaveDetected
  \/ Expire \/ Follow \/ ReimburseLifecycle \/ PoolReady

=============================================================================
