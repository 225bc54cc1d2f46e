SPECIFICATION Spec
CONSTANTS
  a = a
  b = b
  w1 = w1
  None = None
  Ids <- OneId
  UrlOf <- MCUrlOf
  InitialOrder <- JustA
  QueueLimit = 3
  ChanCap = 8
  ProgressRoom = 1
  Backlog = 1
  Workers <- One
  Kinds = {"stop"}
  CmdVolumes = {}
  RetryLimit = 1
  Budgets <- OneCommand
INVARIANTS
  StoppedIsSilent
