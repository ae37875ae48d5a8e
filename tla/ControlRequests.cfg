SPECIFICATION FairRequestsSpec
CONSTANTS
  Challenge = {first, second}
  ChallengeMs = 1
  MaxTime = 2
  MaxStops = 2
CHECK_DEADLOCK FALSE
INVARIANTS
  ActedOnce
  ProcessedIsDone
PROPERTIES
  EveryRequestAnswered
