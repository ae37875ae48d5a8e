SPECIFICATION Spec
CONSTANTS
  Mint <- OneCoin
  Facts <- OneCoinFacts
  NoMint = none
  Never = never
  MaxSecond = 1
  MaxLaunches = 1
CHECK_DEADLOCK FALSE
PROPERTIES
  PauseStopsRouting
