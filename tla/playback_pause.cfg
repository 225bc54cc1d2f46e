SPECIFICATION UnpausedSpec
CHECK_DEADLOCK FALSE
CONSTANTS
  a = a
  b = b
  w1 = w1
  None = None
  Ids <- MCIds
  UrlOf <- MCUrlOf
  InitialOrder <- AB
  QueueLimit = 3
  ChanCap = 16
  ProgressRoom = 1
  Backlog = 1
  Workers <- One
  Kinds = {"pause", "resume"}
  CmdVolumes = {}
  RetryLimit = 0
  Budgets <- Pausing
INVARIANTS
  PublishedPause
