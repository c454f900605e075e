SPECIFICATION MCSpec
CONSTANTS
  comment = comment
  Issue = Issue
  u1 = u1
  u2 = u2
  r1 = r1
  r2 = r2
  d1 = d1
  d2 = d2
  NoUrl = NoUrl
  NoOwner = NoOwner
  Partial = Partial
  Owner <- MCOwner
  Url <- MCUrl
  Run <- MCRun
  Download <- MCDownload
  MaxIds = 3
  MaxFailures = 1
SYMMETRY MCSymmetry
INVARIANTS
  TypeOK
  ServedMatches
  CachedIsStored
  RowsMatchLinks
  AddressesAreKept
CHECK_DEADLOCK FALSE
