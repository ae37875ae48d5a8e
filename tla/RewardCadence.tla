---------------------------- MODULE RewardCadence ----------------------------
(***************************************************************************)
(* RewardCadenceTracker: a market capitalisation that stays above a level  *)
(* for the confirmation time slows the payout interval for good.  None     *)
(* stands for the code's null.                                             *)
(***************************************************************************)
EXTENDS Integers

CONSTANTS
  Intervals,       \* seconds between epochs, by level; levels are 0..n
  Confirmation,    \* CONFIRMATION_SECONDS
  MaxGap,          \* longest gap between observations that proves anything
  None             \* no candidate, or never observed

Levels == DOMAIN Intervals

ASSUME CadenceAssumption ==
  /\ Levels \subseteq Nat /\ 0 \in Levels
  /\ None \notin Nat /\ Confirmation \in Nat /\ MaxGap \in Nat

Cadence ==
  [confirmed : Levels, candidate : Levels \cup {None}, since : Nat \cup {None},
   lastObservation : Nat \cup {None}]

FreshCadence ==
  [confirmed |-> 0, candidate |-> None, since |-> None, lastObservation |-> None]

\* The candidate that survives the time since the last observation.
\* Mutant: a monitor that was offline goes on counting.
AfterGapKeeps(cadence, timestamp) == [cadence EXCEPT !.lastObservation = timestamp]
AfterGap(cadence, timestamp) ==
  IF cadence.lastObservation # None /\ timestamp - cadence.lastObservation > MaxGap
  THEN [cadence EXCEPT !.lastObservation = timestamp, !.candidate = None, !.since = None]
  ELSE [cadence EXCEPT !.lastObservation = timestamp]

\* update, where target is levelForMarketCap of the reading.
Observed(cadence, timestamp, target) ==
  LET c == AfterGap(cadence, timestamp) IN
  CASE target <= c.confirmed -> [c EXCEPT !.candidate = None, !.since = None]
    [] target > c.confirmed /\ c.candidate # target ->
         [c EXCEPT !.candidate = target, !.since = timestamp]
    [] target > c.confirmed /\ c.candidate = target ->
         IF timestamp - c.since >= Confirmation
         THEN [c EXCEPT !.confirmed = target, !.candidate = None, !.since = None]
         ELSE c

Interval(cadence) == Intervals[cadence.confirmed]

=============================================================================
