SPECIFICATION FairSpec
CONSTANTS
  Signature = {1, 2, 3, 4, 5}
  NoSignature = none
  Rpc = {primary, fallback}
  Faulty = {}
  EpochSeconds = 1
  MaxJournalAge = 1
  MinimumRaw = 2
  HistoryLimit = 2
  MaxBatches = 2
  MaxEpochs = 1
  MaxTime = 1
  Amount = {2}
  MaxFunding = 2
  Failures = FALSE
  MaxDrops = 1
CONSTRAINT SignaturesInOrder
CHECK_DEADLOCK FALSE
PROPERTIES
  EveryEpochEnds
