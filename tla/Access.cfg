SPECIFICATION MCSpec
CONSTANTS
  u1 = u1
  p1 = p1
  i1 = i1
  t1 = t1
  t2 = t2
  t3 = t3
  User <- MCUser
  Project <- MCProject
  Issue <- MCIssue
  ProjectOf <- MCProjectOf
  Tx <- MCTx
SYMMETRY MCSymmetry
INVARIANTS
  CapabilitiesAreEnforced
  ListsAreReplaced
  AcceptanceKeepsRights
  NobodyIsHidden
CHECK_DEADLOCK FALSE
