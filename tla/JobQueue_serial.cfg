CONSTANTS
  w1 = w1
  w2 = w2
  hook = hook
  invite = invite
  plain = plain
  plain2 = plain2
  Worker <- TwoWorkers
  WebhookJob <- Hooks
  InviteJob <- NoJobs
  PlainJob <- NoJobs
  MaxAttempts = 2
  MaxRequests = 2
  MaxCrashes = 0
  SlowHandlers = FALSE
  NoWorker = NoWorker
  NoJob = NoJob
SPECIFICATION Spec
CHECK_DEADLOCK FALSE
INVARIANTS SerializedPerIssue
