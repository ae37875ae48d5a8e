SPECIFICATION Spec
CONSTANTS
  Holder = {1, 2, 3}
  Excluded = {3}
  NoOne = 0
  Hour = 1
  Loyalty <- TwoHours
  BaseBps = 1
  LaunchNet <- Minted
  Nets <- Changes
  Disorder = 1
  Retention = 3
  MaxWindow = 3
  PageSize = 2
  Overlap = 1
  IndexLag = 1
  EpochSeconds = 1
  Funded = 5
  MaxTransactions = 3
  MaxTime = 4
CHECK_DEADLOCK FALSE
INVARIANTS
  JournalComplete
PROPERTIES
  RewardsFollowHoldings
  NothingForgotten
