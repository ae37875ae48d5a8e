SPECIFICATION FairSpec
CONSTANTS
  Mint <- Coins
  Facts <- CoinFacts
  NoMint = none
  Never = never
  MaxSecond = 1
  MaxLaunches = 2
CHECK_DEADLOCK FALSE
INVARIANTS
  ActivatedIsPublished
  PauseIsOwned
PROPERTIES
  ActivatesTheArmedLaunch
  OwnerPauseOutlivesEpochs
  EpochPauseReleased
  LaunchActivates
