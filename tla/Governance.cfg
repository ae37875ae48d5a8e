SPECIFICATION FairSpec
CONSTANTS
  MaxTime = 5
  LockDurations = {2}
  MaxReserve = 2
  Deposits = {2}
  MaxGifts = 1
  h1 = h1
  h2 = h2
  Holders = {h1, h2}
  Ballots <- EqualWeights
  Menus <- AllMenus
  VotingDurations = {1}
  ExecutionDelay = 1
  QuorumBps = 6
  BPS = 10
  SwapOutput = {1}
  MaxProposals = 2
  StrayCalls = TRUE
CHECK_DEADLOCK FALSE
INVARIANTS
  VaultsKeep
  TallyIsVoters
  DecisionIsMajority
  FrozenAmountsCovered
PROPERTIES
  KeeperDecides
  LocksReleased
