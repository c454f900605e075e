CONSTANTS
  w1 = w1
  w2 = w2
  hook = hook
  invite = invite
  plain = plain
  plain2 = plain2
  Worker <- TwoWorkers
  WebhookJob <- Hooks
  InviteJob <- Invites
  PlainJob <- NoJobs
  MaxAttempts = 3
  MaxRequests = 3
  MaxCrashes = 1
  SlowHandlers = TRUE
  NoWorker = NoWorker
  NoJob = NoJob
SPECIFICATION OneKeySpec
CHECK_DEADLOCK FALSE
INVARIANTS TypeOK NoLostRequest AttemptsBounded ProcessingIsLocked
PROPERTIES EventuallyQuiescent
