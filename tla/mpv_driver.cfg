SPECIFICATION FairSpec
CONSTANTS
  Calls = {c1}
  Ids = {1, 2, 3}
  Observed = 1
  Timeouts = 1
  None = 0
INVARIANTS
  OneWriterPerChannel
  SuccessIsMpvs
PROPERTIES
  EveryCallReturns
  CloseFinishes
CHECK_DEADLOCK FALSE
