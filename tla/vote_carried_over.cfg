SPECIFICATION Spec
CONSTANTS
  a = a
  b = b
  ann = ann
  bob = bob
  q1 = q1
  q2 = q2
  None = None
  Ids <- MCIds
  UrlOf <- MCUrlOf
  InitialOrder <- MCInitialOrder
  OwnerOf <- MCOwnerOf
  Listeners <- MCListeners
  Admins <- NoAdmins
  Requests <- TwoRequests
  Wishes <- SkipWishes
  QueueLimit = 2
  ActiveWindow = 0
  Timeout = 0
  Percent = 75
  Disturbances = 1
PROPERTIES
  VotesDoNotCarryOver
