SPECIFICATION Spec
CONSTANTS
  Signature = {1, 2, 3, 4, 5, 6, 7}
  NoSignature = none
  Rpc = {primary, fallback}
  Faulty = {fallback}
  EpochSeconds = 1
  MaxJournalAge = 1
  MinimumRaw = 2
  HistoryLimit = 2
  MaxBatches = 2
  MaxEpochs = 2
  MaxTime = 2
  Amount = {2}
  MaxFunding = 3
  Failures = TRUE
  MaxDrops = 1
CONSTRAINT SignaturesInOrder
CHECK_DEADLOCK FALSE
INVARIANTS
  BatchPaidOnce
  PlanTruth
  InOrder
  PublicFilesTrue
  HistoryFaithful
PROPERTIES
  KeepsPayout
