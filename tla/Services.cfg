SPECIFICATION Spec
CONSTANTS
  Request = {r1, r2}
  Visitor = {v1, v2}
  Call = {c1, c2}
  Session = {s1, s2}
  Token = {k1}
  Run = {i1, i2}
  Commenter = {w1}
  Process = {1, 2}
  Outcome = {processed}
  Server = {a1, a2}
  MaxRows = 2
  MaxTokens = 3
  MaxPassword = 3
  MaxNotes = 3
  MaxChanges = 4
  PageSize = 1
  Interval = 2
  StaleAfter = 3
  Job = {j1}
  LockTimeout = 1
  PollEvery = 1
  ErrorWait = 2
  Latency = 1
  MaxTime = 5
  MaxJobs = 1
  MaxSettings = 4
INVARIANTS
  AcceptedOnce QueuedLinkWorks ResetEndsSessions TokenIsSpent RepliesHaveParents
  ImportIsComplete CountsAddUp ReadinessIsTimely TablesAgree
CHECK_DEADLOCK FALSE
