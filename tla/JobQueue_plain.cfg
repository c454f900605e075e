CONSTANTS
  w1 = w1
  w2 = w2
  hook = hook
  invite = invite
  plain = plain
  plain2 = plain2
  Worker <- TwoWorkers
  WebhookJob <- NoJobs
  InviteJob <- NoJobs
  PlainJob <- TwoPlains
  MaxAttempts = 3
  MaxRequests = 2
  MaxCrashes = 2
  SlowHandlers = FALSE
  NoWorker = NoWorker
  NoJob = NoJob
SPECIFICATION Spec
CHECK_DEADLOCK FALSE
SYMMETRY PlainSymmetry
INVARIANTS OneRunner RetryBudget
PROPERTIES SettledIsFinal ImplementsBoundedRetry
