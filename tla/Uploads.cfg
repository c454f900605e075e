SPECIFICATION Spec
CONSTANTS
  u1 = u1
  u2 = u2
  r1 = r1
  r2 = r2
  Upload <- MCUpload
  Req <- MCReq
  MaxFailures = 1
SYMMETRY MCSymmetry
INVARIANTS
  TypeOK
  AttachedOnce
  BytesAreKept
  OrphansNeedFailures
  SuccessIsComplete
CHECK_DEADLOCK FALSE
