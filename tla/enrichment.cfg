SPECIFICATION FairSpec
CONSTANTS
  Keys = {k1, k2}
  Lookups = {l1, l2}
  Fetches = {f1, f2}
  MaxInflight = 1
  Disturbances = 1
  None = None
INVARIANTS
  SlotsAccounted
  OneFetchPerKey
PROPERTIES
  ResultsAreKept
  PendingIsAnswered
