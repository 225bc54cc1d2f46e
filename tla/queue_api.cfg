SPECIFICATION Spec
CONSTANTS
  a = a
  b = b
  x = x
  c1 = c1
  c2 = c2
  None = None
  Ids <- MCIds
  UrlOf <- MCUrlOf
  Clients <- MCClients
  InitialOrder <- MCInitialOrder
  Reported <- MCReported
  QueueLimit = 3
  MaxRev = 6
SYMMETRY ClientSymmetry
INVARIANTS
  TypeOK
  SnapshotsSound
  RowsListedOnce
  CurrentAgrees
PROPERTIES
  EditsActOnWhatWasSeen
  RevisionNamesList
  FailedStays
