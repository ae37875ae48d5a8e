SPECIFICATION FairSpec
CONSTANTS
  Signature = {s1, s2, s3, s4}
  NoSignature = none
  Rpc = {primary, fallback}
  Faulty = {}
  SameWallet = FALSE
  MinimumSweep = 1
  Amount = {1}
  MaxVault = 1
  MaxForeign = 1
  MaxReceipts = 1
  MaxDrops = 2
  Meddling = FALSE
CHECK_DEADLOCK FALSE
INVARIANTS
  UnrelatedUntouched
PROPERTIES
  EverySweepEnds
