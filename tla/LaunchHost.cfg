SPECIFICATION FairSpec
CONSTANTS
  MaxEth = 4
  MaxReimbursement = 1
  Manifest = {m1, m2}
  None = None
  MaxBlock = 2
  MaxLaunches = 1
  Registered = m1
  LookBack = 1
  MaxRuntime = 2
  MaxChunk = 1
  Fee = {4}
  MaxRequests = 3
  MaxFaults = 1
CHECK_DEADLOCK FALSE
INVARIANTS
  CursorSkipsNothing
  AutomationIsActivated
PROPERTIES
  LaunchDetected
  FeesConverted
