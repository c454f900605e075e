CONSTANTS
  p1 = p1
  p2 = p2
  a1 = a1
  Proc <- TwoProcs
  ApiIssue <- OneApiIssue
  MaxIid = 1
  MaxEdits = 2
  MaxFailures = 1
  NoIssue = NoIssue
SPECIFICATION Spec
CHECK_DEADLOCK FALSE
SYMMETRY Symmetry
VIEW TextView
INVARIANTS TypeOK IdleMeansSynced
