SPECIFICATION FiniteHSpec
CONSTANTS
  a = a
  b = b
  w1 = w1
  None = None
  Ids <- MCIds
  UrlOf <- MCUrlOf
  InitialOrder <- AB
  QueueLimit = 3
  ChanCap = 8
  ProgressRoom = 1
  Backlog = 1
  Workers <- One
  Kinds = {"volume"}
  CmdVolumes = {50}
  RetryLimit = 1
  Budgets <- Unattended
  Songs = {1, 2}
INVARIANTS
  HistoryIsTrue
  LateTitlesOnly
  PlaybackTypeOK
  EndsAreAttributed
PROPERTIES
  Drains
