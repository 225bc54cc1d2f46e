SPECIFICATION Spec
CONSTANTS
  a = a
  b = b
  d = d
  x = x
  None = None
  Ids <- MCIds
  UrlOf <- MCUrlOf
  InitialOrder <- MCInitialOrder
  QueueLimit = 3
  MaxRev = 5
INVARIANTS
  RowsTypeOK
  Dense
  PositionsFree
PROPERTIES
  RowsImplementDb
