SPECIFICATION Spec
CONSTANTS
  Signature = {s1, s2, s3, s4, s5}
  NoSignature = none
  Rpc = {primary, fallback}
  Faulty = {fallback}
  SameWallet = TRUE
  MinimumSweep = 2
  Amount = {2, 3}
  MaxVault = 3
  MaxForeign = 2
  MaxReceipts = 2
  MaxDrops = 2
  Meddling = TRUE
SYMMETRY Symmetry
CHECK_DEADLOCK FALSE
INVARIANTS
  PaidOutOnce
  AbandonedNeverLands
  LedgerTruth
  UnrelatedUntouched
PROPERTIES
  KeepsCustody
