SPECIFICATION FairSpec
CONSTANTS
  Account = {1, 2}
  MaxVault = 2
  Intervals <- TwoLevels
  Confirmation = 1
  MaxGap = 1
  None = none
  NoOne = 0
  Hour = 1
  Loyalty <- Flat
  BaseBps = 1
  Transfers <- History
  OverlapBlocks = 1
  Lateness = 1
  IndexerConfirmations = 0
  Funding = {1}
  MaxEpochs = 2
  MaxSends = 2
  MaxTime = 2
CHECK_DEADLOCK FALSE
INVARIANTS
  EveryClaimFunded
  RecordsMatchChain
PROPERTIES
  LevelsAreProven
  EveryEpochListed
