SPECIFICATION FairSSpec
CONSTANTS
  a = a
  b = b
  w1 = w1
  None = None
  Ids <- MCIds
  UrlOf <- MCUrlOf
  InitialOrder <- AB
  QueueLimit = 3
  ChanCap = 3
  ProgressRoom = 0
  Backlog = 1
  Workers <- One
  Kinds = {"resume", "stop"}
  CmdVolumes = {}
  RetryLimit = 1
  Budgets <- Disturbed
INVARIANTS
  StopSilences
  KeepsTrack
PROPERTIES
  Settles
