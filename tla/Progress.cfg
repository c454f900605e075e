SPECIFICATION FairSpec
CONSTANTS
  Proc = {p1, p2}
  ApiIssue = {a1}
  NoIssue = NoIssue
  Upload = {u1}
  Req = {r1, r2}
PROPERTIES EventuallySynced ExpiredAreRemoved
CHECK_DEADLOCK FALSE
