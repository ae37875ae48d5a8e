SPECIFICATION FairSpec
CONSTANTS
  MaxTime = 4
  LockDurations = {2}
  MaxReserve = 2
  Deposits = {2}
  MaxGifts = 0
  h1 = h1
  h2 = h2
  Holders = {h1, h2}
  Ballots <- EqualWeights
  Menus <- AllMenus
  VotingDurations = {1}
  ExecutionDelay = 1
  QuorumBps = 6
  BPS = 10
  SwapOutput = {1, 2}
  MaxProposals = 1
  StrayCalls = FALSE
CHECK_DEADLOCK FALSE
PROPERTIES
  EveryProposalDecided
