SPECIFICATION AutoSpec
CONSTANTS
  a = a
  b = b
  c = c
  d = d
  ann = ann
  bob = bob
  None = None
  Ids <- MCIds
  UrlOf <- MCUrlOf
  InitialOrder <- MCInitialOrder
  Listeners <- MCListeners
  Watched = ann
  Depths <- MCDepths
  QueueLimit = 4
  Tries = 2
  MaxSecond = 2
  Fractions = 2
  Disturbances = 1
INVARIANTS
  NeverTooFarAhead
  NobodyPassedOver
SYMMETRY IdSymmetry
