-------------------------- MODULE ControlRequests --------------------------
(***************************************************************************)
(* One owner action from the panel to its outcome.  The API server issues  *)
(* a challenge and queues the signed answer as a file (server.ts); the     *)
(* control runner dispatches the oldest file, consuming its nonce first,   *)
(* and leaves an outcome marker the panel polls (controlRunner.ts,         *)
(* controlRequestStatus.ts).  Both may stop anywhere; the server keeps its *)
(* challenges in memory, the runner nothing.                               *)
(*                                                                         *)
(* A challenge names its request, its nonce and its files.  What the       *)
(* actions do is in ControlRunner; here they are counted.                  *)
(***************************************************************************)
EXTENDS Integers, FiniteSets

CONSTANTS
  Challenge,    \* challenges, each with its nonce
  ChallengeMs,  \* how long one is valid, five minutes
  MaxTime,      \* bound: time
  MaxStops      \* bound: stops of the runner

ASSUME RequestsAssumption ==
  ChallengeMs \in Nat /\ MaxTime \in Nat /\ MaxStops \in Nat

VARIABLES
  now,
  challenge,  \* API memory: solanaChallenges, and answers being queued
  issuedAt,   \* in the challenge and in the request
  file,       \* the directory each request's file is in
  queuedAt,   \* in the request's file name
  failures,   \* failure records in solana-failed
  marker,     \* outcome markers in solana-status-visible/request-outcomes
  nonces,     \* consumed nonces in control-nonces
  phase,      \* runner memory: where in processOnce it is
  current,    \* runner memory: the request in hand
  acted,      \* history: how often each request's action took effect
  stops       \* history: stops of the runner

apiVars == <<challenge, issuedAt, queuedAt>>
runnerVars == <<phase, current>>
diskVars == <<failures, marker, nonces>>
requestVars == <<now, apiVars, file, diskVars, runnerVars, acted, stops>>

Directory == {"none", "requests", "completed", "failed"}
Outcome == {"none", "processed", "failed"}
Phase == {"down", "idle", "dispatching", "acting", "acted", "moved",
          "failing", "recorded", "shelved"}

RequestsInit ==
  /\ now = 0
  /\ challenge = [c \in Challenge |-> "unissued"]
  /\ issuedAt = [c \in Challenge |-> 0]
  /\ file = [c \in Challenge |-> "none"]
  /\ queuedAt = [c \in Challenge |-> 0]
  /\ failures = {}
  /\ marker = [c \in Challenge |-> "none"]
  /\ nonces = {}
  /\ phase = "down"
  /\ current \in Challenge
  /\ acted = [c \in Challenge |-> 0]
  /\ stops = 0

Expired(c) == now > issuedAt[c] + ChallengeMs

Tick ==
  /\ now < MaxTime
  /\ now' = now + 1
  /\ UNCHANGED <<apiVars, file, diskVars, runnerVars, acted, stops>>

-----------------------------------------------------------------------------
(***************************************************************************)
(* The API server.                                                         *)
(***************************************************************************)
\* solanaAdminChallenge, for an owner who will sign.
Issue(c) ==
  /\ challenge[c] = "unissued"
  /\ challenge' = [challenge EXCEPT ![c] = "open"]
  /\ issuedAt' = [issuedAt EXCEPT ![c] = now]
  /\ UNCHANGED <<now, file, queuedAt, diskVars, runnerVars, acted, stops>>

\* queueSolanaAdminAction up to its first await: a challenge is taken once.
Take(c) ==
  /\ challenge[c] = "open"
  /\ ~Expired(c)
  /\ challenge' = [challenge EXCEPT ![c] = "taken"]
  /\ UNCHANGED <<now, issuedAt, queuedAt, file, diskVars, runnerVars, acted, stops>>

\* And from there: the request is named and written.
Queue(c) ==
  /\ challenge[c] = "taken"
  /\ challenge' = [challenge EXCEPT ![c] = "gone"]
  /\ file' = [file EXCEPT ![c] = "requests"]
  /\ queuedAt' = [queuedAt EXCEPT ![c] = now]
  /\ UNCHANGED <<now, issuedAt, diskVars, runnerVars, acted, stops>>

\* Its challenges, and the answers it had not written, are lost.
ServerStops ==
  /\ \E c \in Challenge : challenge[c] \in {"open", "taken"}
  /\ challenge' = [c \in Challenge |->
                     IF challenge[c] \in {"open", "taken"} THEN "gone" ELSE challenge[c]]
  /\ UNCHANGED <<now, issuedAt, queuedAt, file, diskVars, runnerVars, acted, stops>>

Server == ServerStops \/ \E c \in Challenge : Issue(c) \/ Take(c) \/ Queue(c)

-----------------------------------------------------------------------------
(***************************************************************************)
(* The control runner.                                                     *)
(***************************************************************************)
\* Mutant: markers are not restored.
StartForgetful ==
  /\ phase = "down"
  /\ phase' = "idle"
  /\ UNCHANGED <<now, apiVars, file, diskVars, current, acted, stops>>

\* restoreRequestOutcomeMarkers: completed files first, then failure records.
Start ==
  /\ phase = "down"
  /\ marker' = [c \in Challenge |->
                  CASE c \in failures -> "failed"
                    [] c \notin failures /\ file[c] = "completed" -> "processed"
                    [] OTHER -> marker[c]]
  /\ phase' = "idle"
  /\ UNCHANGED <<now, apiVars, file, failures, nonces, current, acted, stops>>

\* The first name in the directory: the oldest request.
Pick(c) ==
  /\ phase = "idle"
  /\ file[c] = "requests"
  /\ \A d \in Challenge : file[d] = "requests" => queuedAt[c] <= queuedAt[d]
  /\ current' = c
  /\ phase' = "dispatching"
  /\ UNCHANGED <<now, apiVars, file, diskVars, acted, stops>>

\* Mutants: a nonce consumed before does not stop the action; or the action
\* goes first and the nonce is consumed with its result.
ConsumeNonceAgain ==
  /\ phase = "dispatching"
  /\ ~Expired(current)
  /\ nonces' = nonces \cup {current}
  /\ phase' = "acting"
  /\ UNCHANGED <<now, apiVars, file, failures, marker, current, acted, stops>>

\* verifySignedSolanaControlAction passes and consumeControlNonce is the first.
ConsumeNonce ==
  /\ phase = "dispatching"
  /\ ~Expired(current)
  /\ current \notin nonces
  /\ nonces' = nonces \cup {current}
  /\ phase' = "acting"
  /\ UNCHANGED <<now, apiVars, file, failures, marker, current, acted, stops>>

\* CONTROL_CHALLENGE_EXPIRED, CONTROL_NONCE_REPLAY, or reading the status or the
\* request throws, which the server may be in the middle of writing.
Refuse ==
  /\ phase = "dispatching"
  /\ phase' = "failing"
  /\ UNCHANGED <<now, apiVars, file, diskVars, current, acted, stops>>

Act ==
  /\ phase = "acting"
  /\ acted' = [acted EXCEPT ![current] = @ + 1]
  /\ phase' = "acted"
  /\ UNCHANGED <<now, apiVars, file, diskVars, current, stops>>

\* The action throws: before it has done anything, or after (saveStatus).
Throw ==
  /\ phase \in {"acting", "acted"}
  /\ phase' = "failing"
  /\ UNCHANGED <<now, apiVars, file, diskVars, current, acted, stops>>

\* Mutant: a failed dispatch is filed as a completed one.
RecordSwallowed ==
  /\ phase = "failing"
  /\ phase' = "acted"
  /\ UNCHANGED <<now, apiVars, file, diskVars, current, acted, stops>>

\* The private failure record; one left by an earlier attempt is kept.
Record ==
  /\ phase = "failing"
  /\ failures' = failures \cup {current}
  /\ phase' = "recorded"
  /\ UNCHANGED <<now, apiVars, file, marker, nonces, current, acted, stops>>

Shelve ==
  /\ phase = "recorded"
  /\ file' = [file EXCEPT ![current] = "failed"]
  /\ phase' = "shelved"
  /\ UNCHANGED <<now, apiVars, diskVars, current, acted, stops>>

\* Only a sanitized state reaches the public marker.
MarkFailed ==
  /\ phase = "shelved"
  /\ marker' = [marker EXCEPT ![current] = "failed"]
  /\ phase' = "idle"
  /\ UNCHANGED <<now, apiVars, file, failures, nonces, current, acted, stops>>

Complete ==
  /\ phase = "acted"
  /\ file' = [file EXCEPT ![current] = "completed"]
  /\ phase' = "moved"
  /\ UNCHANGED <<now, apiVars, diskVars, current, acted, stops>>

MarkProcessed ==
  /\ phase = "moved"
  /\ marker' = [marker EXCEPT ![current] = "processed"]
  /\ phase' = "idle"
  /\ UNCHANGED <<now, apiVars, file, failures, nonces, current, acted, stops>>

DispatcherStops ==
  /\ phase # "down"
  /\ stops < MaxStops
  /\ stops' = stops + 1
  /\ phase' = "down"
  /\ UNCHANGED <<now, apiVars, file, diskVars, current, acted>>

Dispatch == ConsumeNonce \/ Refuse \/ Act \/ Throw
Answer == Record \/ Shelve \/ MarkFailed \/ Complete \/ MarkProcessed
ProcessOnce == (\E c \in Challenge : Pick(c)) \/ Dispatch \/ Answer

Runner == Start \/ ProcessOnce \/ DispatcherStops

RequestsNext == Tick \/ Server \/ Runner

RequestsSpec == RequestsInit /\ [][RequestsNext]_requestVars

\* The runner is restarted by its service manager and loops for ever.
FairRequestsSpec == RequestsSpec /\ WF_requestVars(Start) /\ WF_requestVars(ProcessOnce)

-----------------------------------------------------------------------------
(***************************************************************************)
(* Properties.                                                             *)
(***************************************************************************)
\* Every variable has its type, and what is queued was issued.
RequestsTypeOK ==
  /\ now \in Nat
  /\ challenge \in [Challenge -> {"unissued", "open", "taken", "gone"}]
  /\ issuedAt \in [Challenge -> Nat]
  /\ file \in [Challenge -> Directory]
  /\ queuedAt \in [Challenge -> Nat]
  /\ failures \in SUBSET Challenge
  /\ marker \in [Challenge -> Outcome]
  /\ nonces \in SUBSET Challenge
  /\ phase \in Phase
  /\ current \in Challenge
  /\ acted \in [Challenge -> Nat]
  /\ stops \in Nat

\* One signature, at most one effect, wherever runner and server stop and
\* however often the request's file is dispatched again (controlRunner.ts:417,
\* "Consume before dispatch so a restart cannot repeat an authorized action").
ActedOnce == \A c \in Challenge : acted[c] <= 1

\* What readControlRequestOutcome tells the panel.
Shown(c) ==
  CASE marker[c] # "none" -> marker[c]
    [] marker[c] = "none" /\ file[c] = "requests" -> "queued"
    [] OTHER -> "unknown"

\* "Processed" on the panel means that the action did complete
\* (docs/launch-panel.md:73).
ProcessedIsDone == \A c \in Challenge : Shown(c) = "processed" => acted[c] > 0

\* Every queued request is answered.
EveryRequestAnswered ==
  \A c \in Challenge : file[c] = "requests" ~> Shown(c) \in {"processed", "failed"}

=============================================================================
