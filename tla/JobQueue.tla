------------------------------ MODULE JobQueue ------------------------------
(***************************************************************************)
(* The PostgreSQL-backed job queue: the `jobs` table, the worker processes *)
(* that claim, run and report jobs (services/worker/src/queue.rs, app.rs)  *)
(* and the API handlers that enqueue them (webhooks.rs, users.rs,          *)
(* jobs.rs).  One action is one SQL statement or transaction; everything   *)
(* else of a worker can happen between two of them.                        *)
(*                                                                         *)
(* A Job is a dedupe key, and at any time at most one row has it (the      *)
(* unique index jobs_dedupe_key_idx).  Keys fall in three classes by the   *)
(* statement that enqueues them: gitlab-webhook:*, invite-email:* and the  *)
(* plain ones (admin POST /jobs, password reset).  Time is abstracted to   *)
(* two flags per row: `due` (available_at <= NOW()) and `expired`          *)
(* (locked_at older than queue_stale_after_seconds).                       *)
(*                                                                         *)
(* Definitions marked `Slip` are not used by the specification: each is    *)
(* the next definition with one plausible mistake, and shows which         *)
(* property would notice it.                                               *)
(***************************************************************************)
EXTENDS Naturals

CONSTANTS
  Worker,        \* worker process slots
  WebhookJob,    \* keys gitlab-webhook:{project}:{iid}:{comments|issue}
  InviteJob,     \* keys invite-email:{invitation}
  PlainJob,      \* keys of jobs whose enqueuer never touches an existing row
  MaxAttempts,   \* MAX_ATTEMPTS, 5 in the code
  MaxRequests,   \* bound: enqueue calls per key
  MaxCrashes,    \* bound: terminations of worker processes
  SlowHandlers,  \* may a handler run longer than queue_stale_after_seconds?
  NoWorker, NoJob

Job == WebhookJob \cup InviteJob \cup PlainJob

ASSUME ConstantsAssumption ==
  /\ MaxAttempts \in Nat \ {0}
  /\ MaxRequests \in Nat
  /\ MaxCrashes \in Nat
  /\ SlowHandlers \in BOOLEAN
  /\ NoWorker \notin Worker
  /\ NoJob \notin Job
  /\ WebhookJob \cap InviteJob = {}
  /\ WebhookJob \cap PlainJob = {}
  /\ InviteJob \cap PlainJob = {}

VARIABLES
  status,         \* status column, "absent" when no row has the key
  attempt_count,
  payload,        \* number of the request whose content the row carries
  due,            \* available_at <= NOW()
  locked_by,      \* locked_by; locked_at is NULL exactly when it is NoWorker
  expired,        \* locked_at < NOW() - queue_stale_after_seconds
  row,            \* identity (id) of the row that has the key
  pc,             \* where each worker is in the loop of app.rs
  held,           \* the `job: Job` value the worker got from fetch_next_job
  crashes,        \* terminations so far (bound)
  requested,      \* history: enqueue calls accepted for the key
  served,         \* history: newest request a successful handler run saw
  runs,           \* history: claims since the row was inserted or reset
  overlapped      \* history: did a worker run the job at its last enqueue?

rowVars == <<status, attempt_count, payload, due, locked_by, expired, row>>
history == <<requested, served, runs, overlapped>>
vars == <<rowVars, pc, held, crashes, history>>

Status == {"absent", "pending", "processing", "done", "dead"}
NoRow  == [job |-> NoJob, row |-> 0, attempt_count |-> 0, payload |-> 0]
Snapshot == [job : Job, row : Nat, attempt_count : Nat, payload : Nat]

\* The worker is somewhere between fetch_next_job and the end of its report.
Running(w) == pc[w] \in {"handle", "succeeded", "failed"}

\* ... and its report will reach the row that now has key j (WHERE id = $1).
Holds(w, j) == Running(w) /\ held[w].job = j /\ held[w].row = row[j]

InFlight(j) == \E w \in Worker : Holds(w, j)

Newer(a, b) == IF a > b THEN a ELSE b

-----------------------------------------------------------------------------
Init ==
  /\ status = [j \in Job |-> "absent"]
  /\ attempt_count = [j \in Job |-> 0]
  /\ payload = [j \in Job |-> 0]
  /\ due = [j \in Job |-> FALSE]
  /\ locked_by = [j \in Job |-> NoWorker]
  /\ expired = [j \in Job |-> FALSE]
  /\ row = [j \in Job |-> 0]
  /\ pc = [w \in Worker |-> "poll"]
  /\ held = [w \in Worker |-> NoRow]
  /\ crashes = 0
  /\ requested = [j \in Job |-> 0]
  /\ served = [j \in Job |-> 0]
  /\ runs = [j \in Job |-> 0]
  /\ overlapped = [j \in Job |-> FALSE]

(***************************************************************************)
(* Enqueue.                                                                *)
(***************************************************************************)

\* The API accepted one more request for key j.
Accept(j) ==
  /\ requested[j] < MaxRequests
  /\ requested' = [requested EXCEPT ![j] = @ + 1]
  /\ overlapped' = [overlapped EXCEPT ![j] = InFlight(j)]

\* INSERT, or an ON CONFLICT branch that resets the row completely.
FreshRow(j) ==
  /\ status' = [status EXCEPT ![j] = "pending"]
  /\ attempt_count' = [attempt_count EXCEPT ![j] = 0]
  /\ payload' = [payload EXCEPT ![j] = requested[j] + 1]
  /\ due' = [due EXCEPT ![j] = TRUE]
  /\ locked_by' = [locked_by EXCEPT ![j] = NoWorker]
  /\ expired' = [expired EXCEPT ![j] = FALSE]
  /\ runs' = [runs EXCEPT ![j] = 0]

\* enqueue_webhook_job: the conflict branch resets the row whatever its
\* status, also while a worker is processing it.
EnqueueWebhook(j) ==
  /\ Accept(j)
  /\ FreshRow(j)
  /\ UNCHANGED <<row, pc, held, crashes, served>>

\* Slip: the resend keeps the old payload (no `payload = EXCLUDED.payload`).
EnqueueInviteStale(j) ==
  /\ Accept(j)
  /\ \/ status[j] = "absent" /\ FreshRow(j)
     \/ /\ status[j] # "absent"
        /\ status' = [status EXCEPT ![j] = "pending"]
        /\ due' = [due EXCEPT ![j] = TRUE]
        /\ UNCHANGED <<attempt_count, payload, locked_by, expired, runs>>
  /\ UNCHANGED <<row, pc, held, crashes, served>>

\* Slip: the resend clears the lock of a running job but leaves it processing.
EnqueueInviteUnlocking(j) ==
  /\ Accept(j)
  /\ \/ status[j] = "absent" /\ FreshRow(j)
     \/ /\ status[j] # "absent"
        /\ status' = [status EXCEPT ![j] = IF @ = "processing" THEN @ ELSE "pending"]
        /\ payload' = [payload EXCEPT ![j] = requested[j] + 1]
        /\ due' = [due EXCEPT ![j] = TRUE]
        /\ locked_by' = [locked_by EXCEPT ![j] = NoWorker]
        /\ expired' = [expired EXCEPT ![j] = FALSE]
        /\ UNCHANGED <<attempt_count, runs>>
  /\ UNCHANGED <<row, pc, held, crashes, served>>

\* enqueue_invitation_email: the conflict branch leaves attempt_count and
\* the lock columns as they are.
EnqueueInvite(j) ==
  /\ Accept(j)
  /\ \/ status[j] = "absent" /\ FreshRow(j)
     \/ /\ status[j] # "absent"
        /\ status' = [status EXCEPT ![j] = "pending"]
        /\ payload' = [payload EXCEPT ![j] = requested[j] + 1]
        /\ due' = [due EXCEPT ![j] = TRUE]
        /\ UNCHANGED <<attempt_count, locked_by, expired, runs>>
  /\ UNCHANGED <<row, pc, held, crashes, served>>

\* Slip: the admin enqueue resets the row as the webhook enqueue does.
EnqueuePlainResetting(j) ==
  /\ Accept(j)
  /\ FreshRow(j)
  /\ UNCHANGED <<row, pc, held, crashes, served>>

\* enqueue_job: the conflict branch only touches updated_at.  Inserts without
\* a dedupe key (password reset) are keys that are never enqueued twice.
EnqueuePlain(j) ==
  /\ Accept(j)
  /\ \/ status[j] = "absent" /\ FreshRow(j)
     \/ /\ status[j] # "absent"
        /\ UNCHANGED <<status, attempt_count, payload, due, locked_by, expired,
                       runs>>
  /\ UNCHANGED <<row, pc, held, crashes, served>>

\* delete_invitation removes the job row too; a later insert (a resend that
\* had already updated the invitation) gets another id.
DeleteInvite(j) ==
  /\ status[j] # "absent"
  /\ status' = [status EXCEPT ![j] = "absent"]
  /\ attempt_count' = [attempt_count EXCEPT ![j] = 0]
  /\ due' = [due EXCEPT ![j] = FALSE]
  /\ locked_by' = [locked_by EXCEPT ![j] = NoWorker]
  /\ expired' = [expired EXCEPT ![j] = FALSE]
  /\ row' = [row EXCEPT ![j] = @ + 1]
  /\ runs' = [runs EXCEPT ![j] = 0]
  /\ UNCHANGED <<payload, pc, held, crashes, requested, served, overlapped>>

(***************************************************************************)
(* Time.                                                                   *)
(***************************************************************************)

\* available_at is reached.
BecomeDue(j) ==
  /\ status[j] # "absent" /\ ~due[j]
  /\ due' = [due EXCEPT ![j] = TRUE]
  /\ UNCHANGED <<status, attempt_count, payload, locked_by, expired, row,
                 pc, held, crashes, history>>

\* queue_stale_after_seconds have passed since locked_at.
Expire(j) ==
  /\ locked_by[j] # NoWorker /\ ~expired[j]
  /\ SlowHandlers \/ ~InFlight(j)
  /\ expired' = [expired EXCEPT ![j] = TRUE]
  /\ UNCHANGED <<status, attempt_count, payload, due, locked_by, row,
                 pc, held, crashes, history>>

(***************************************************************************)
(* A worker: fetch_next_job, handle_job, then mark_done or                 *)
(* reschedule_failed.                                                      *)
(***************************************************************************)

\* Slip: every lock counts as stale, however young.
StaleAtOnce == {j \in Job : status[j] = "processing" /\ locked_by[j] # NoWorker}

\* Slip: a worker only recovers the locks of its own worker_id, which no
\* restarted process has again.
StaleNever == {}

Stale == {j \in Job : status[j] = "processing" /\ locked_by[j] # NoWorker
                      /\ expired[j]}

\* Slip: recovery ignores MAX_ATTEMPTS.
RecoverForEver(w, next) ==
  /\ pc[w] = "poll"
  /\ status' = [j \in Job |-> IF j \in Stale THEN "pending" ELSE status[j]]
  /\ attempt_count' = [j \in Job |->
       IF j \in Stale THEN attempt_count[j] + 1 ELSE attempt_count[j]]
  /\ due' = [j \in Job |-> j \notin Stale /\ due[j]]
  /\ locked_by' = [j \in Job |-> IF j \in Stale THEN NoWorker ELSE locked_by[j]]
  /\ expired' = [j \in Job |-> j \notin Stale /\ expired[j]]
  /\ pc' = [pc EXCEPT ![w] = next]
  /\ UNCHANGED <<payload, row, held, crashes, history>>

\* Slip: recovery does not count the interrupted run as an attempt.
RecoverUncounted(w, next) ==
  /\ pc[w] = "poll"
  /\ status' = [j \in Job |-> IF j \in Stale THEN "pending" ELSE status[j]]
  /\ due' = [j \in Job |-> j \notin Stale /\ due[j]]
  /\ locked_by' = [j \in Job |-> IF j \in Stale THEN NoWorker ELSE locked_by[j]]
  /\ expired' = [j \in Job |-> j \notin Stale /\ expired[j]]
  /\ pc' = [pc EXCEPT ![w] = next]
  /\ UNCHANGED <<attempt_count, payload, row, held, crashes, history>>

\* recover_stale_processing_jobs, the first statement of every poll.  If one
\* of its audit inserts fails the poll ends there (app.rs logs and sleeps).
Recover(w, next) ==
  /\ pc[w] = "poll"
  /\ status' = [j \in Job |->
       IF j \notin Stale THEN status[j]
       ELSE IF attempt_count[j] + 1 >= MaxAttempts THEN "dead" ELSE "pending"]
  /\ attempt_count' = [j \in Job |->
       IF j \in Stale THEN attempt_count[j] + 1 ELSE attempt_count[j]]
  /\ due' = [j \in Job |-> j \notin Stale /\ due[j]]
  /\ locked_by' = [j \in Job |-> IF j \in Stale THEN NoWorker ELSE locked_by[j]]
  /\ expired' = [j \in Job |-> j \notin Stale /\ expired[j]]
  /\ pc' = [pc EXCEPT ![w] = next]
  /\ UNCHANGED <<payload, row, held, crashes, history>>

\* The claiming UPDATE.  ORDER BY created_at is only a preference: rows that
\* a concurrent transaction has locked are skipped, so any claimable row may
\* be the one returned.
Claim(w, j) ==
  /\ pc[w] = "claim"
  /\ status[j] = "pending" /\ due[j]
  /\ status' = [status EXCEPT ![j] = "processing"]
  /\ locked_by' = [locked_by EXCEPT ![j] = w]
  /\ expired' = [expired EXCEPT ![j] = FALSE]
  /\ held' = [held EXCEPT ![w] = [job |-> j, row |-> row[j],
                attempt_count |-> attempt_count[j], payload |-> payload[j]]]
  /\ pc' = [pc EXCEPT ![w] = "handle"]
  /\ runs' = [runs EXCEPT ![j] = @ + 1]
  /\ UNCHANGED <<attempt_count, payload, due, row, crashes, requested, served,
                 overlapped>>

\* No row returned, or the query failed: sleep and poll again.
ClaimNothing(w) ==
  /\ pc[w] = "claim"
  /\ pc' = [pc EXCEPT ![w] = "poll"]
  /\ UNCHANGED <<rowVars, held, crashes, history>>

\* The newest request a run sees: a webhook job names an issue that the
\* handler reads from GitLab when it runs, every other job is its payload.
Sees(w) ==
  IF held[w].job \in WebhookJob THEN requested[held[w].job] ELSE held[w].payload

\* handle_job returned Ok.
HandleOk(w) ==
  /\ pc[w] = "handle"
  /\ pc' = [pc EXCEPT ![w] = "succeeded"]
  /\ served' = [served EXCEPT ![held[w].job] = Newer(@, Sees(w))]
  /\ UNCHANGED <<rowVars, held, crashes, requested, runs, overlapped>>

\* Slip: the loop treats an Err of the handler as a processed job.
HandleErrIgnored(w) ==
  /\ pc[w] = "handle"
  /\ pc' = [pc EXCEPT ![w] = "succeeded"]
  /\ UNCHANGED <<rowVars, held, crashes, history>>

\* handle_job returned Err.
HandleErr(w) ==
  /\ pc[w] = "handle"
  /\ pc' = [pc EXCEPT ![w] = "failed"]
  /\ UNCHANGED <<rowVars, held, crashes, history>>

\* Slip: the worker keeps the job it has reported.
AfterReportKeeping(w) ==
  /\ pc' = [pc EXCEPT ![w] = "poll"]
  /\ UNCHANGED <<held, crashes>>

\* The worker returns to the top of its loop, or terminates because the audit
\* insert after the UPDATE failed (`?` in app.rs).
AfterReport(w) ==
  /\ held' = [held EXCEPT ![w] = NoRow]
  /\ \/ pc' = [pc EXCEPT ![w] = "poll"] /\ UNCHANGED crashes
     \/ /\ crashes < MaxCrashes
        /\ pc' = [pc EXCEPT ![w] = "down"]
        /\ crashes' = crashes + 1

\* mark_done: WHERE id = $1 and nothing else.
MarkDone(w) ==
  /\ pc[w] = "succeeded"
  /\ AfterReport(w)
  /\ LET j == held[w].job IN
       IF status[j] # "absent" /\ held[w].row = row[j]
       THEN /\ status' = [status EXCEPT ![j] = "done"]
            /\ locked_by' = [locked_by EXCEPT ![j] = NoWorker]
            /\ expired' = [expired EXCEPT ![j] = FALSE]
       ELSE UNCHANGED <<status, locked_by, expired>>
  /\ UNCHANGED <<attempt_count, payload, due, row, history>>

\* Slip: `>` for `>=` in the test for dead.
RescheduleFailedOnceMore(w) ==
  /\ pc[w] = "failed"
  /\ AfterReport(w)
  /\ LET j == held[w].job
         next_attempt == held[w].attempt_count + 1
     IN IF status[j] # "absent" /\ held[w].row = row[j]
        THEN /\ status' = [status EXCEPT ![j] =
                             IF next_attempt > MaxAttempts THEN "dead" ELSE "pending"]
             /\ attempt_count' = [attempt_count EXCEPT ![j] = next_attempt]
             /\ due' = [due EXCEPT ![j] = FALSE]
             /\ locked_by' = [locked_by EXCEPT ![j] = NoWorker]
             /\ expired' = [expired EXCEPT ![j] = FALSE]
        ELSE UNCHANGED <<status, attempt_count, due, locked_by, expired>>
  /\ UNCHANGED <<payload, row, history>>

\* reschedule_failed: the attempt number comes from the claim's snapshot.
RescheduleFailed(w) ==
  /\ pc[w] = "failed"
  /\ AfterReport(w)
  /\ LET j == held[w].job
         next_attempt == held[w].attempt_count + 1
     IN IF status[j] # "absent" /\ held[w].row = row[j]
        THEN /\ status' = [status EXCEPT ![j] =
                             IF next_attempt >= MaxAttempts THEN "dead" ELSE "pending"]
             /\ attempt_count' = [attempt_count EXCEPT ![j] = next_attempt]
             /\ due' = [due EXCEPT ![j] = FALSE]
             /\ locked_by' = [locked_by EXCEPT ![j] = NoWorker]
             /\ expired' = [expired EXCEPT ![j] = FALSE]
        ELSE UNCHANGED <<status, attempt_count, due, locked_by, expired>>
  /\ UNCHANGED <<payload, row, history>>

\* The process dies, or the UPDATE of its report fails; the row stays as it is.
Crash(w) ==
  /\ pc[w] # "down"
  /\ crashes < MaxCrashes
  /\ crashes' = crashes + 1
  /\ pc' = [pc EXCEPT ![w] = "down"]
  /\ held' = [held EXCEPT ![w] = NoRow]
  /\ UNCHANGED <<rowVars, history>>

\* restart: unless-stopped; a new process with a new worker_id.
Restart(w) ==
  /\ pc[w] = "down"
  /\ pc' = [pc EXCEPT ![w] = "poll"]
  /\ UNCHANGED <<rowVars, held, crashes, history>>

-----------------------------------------------------------------------------
Poll(w) == \E next \in {"claim", "poll"} : Recover(w, next)

ClaimSome(w) == \E j \in Job : Claim(w, j)

Next ==
  \/ \E j \in WebhookJob : EnqueueWebhook(j)
  \/ \E j \in InviteJob : EnqueueInvite(j) \/ DeleteInvite(j)
  \/ \E j \in PlainJob : EnqueuePlain(j)
  \/ \E j \in Job : BecomeDue(j) \/ Expire(j)
  \/ \E w \in Worker :
       \/ Poll(w) \/ ClaimSome(w) \/ ClaimNothing(w)
       \/ HandleOk(w) \/ HandleErr(w)
       \/ MarkDone(w) \/ RescheduleFailed(w)
       \/ Crash(w) \/ Restart(w)

Spec == Init /\ [][Next]_vars

\* Clocks advance, processes are restarted, every handler ends, and a worker
\* that polls forever is not refused a claimable row forever.
Fairness ==
  /\ \A j \in Job : WF_vars(BecomeDue(j)) /\ WF_vars(Expire(j))
  /\ \A w \in Worker :
       /\ WF_vars(Restart(w))
       /\ WF_vars(Recover(w, "claim"))
       /\ WF_vars(ClaimNothing(w))
       /\ SF_vars(ClaimSome(w))
       /\ WF_vars(HandleOk(w) \/ HandleErr(w))
       /\ WF_vars(MarkDone(w) \/ RescheduleFailed(w))

FairSpec == Spec /\ Fairness

-----------------------------------------------------------------------------
\* Every column and every worker variable has its type; a running worker has
\* the snapshot of a real row.
TypeOK ==
  /\ status \in [Job -> Status]
  /\ attempt_count \in [Job -> Nat]
  /\ payload \in [Job -> Nat]
  /\ due \in [Job -> BOOLEAN]
  /\ locked_by \in [Job -> Worker \cup {NoWorker}]
  /\ expired \in [Job -> BOOLEAN]
  /\ row \in [Job -> Nat]
  /\ pc \in [Worker -> {"poll", "claim", "handle", "succeeded", "failed", "down"}]
  /\ held \in [Worker -> Snapshot \cup {NoRow}]
  /\ \A w \in Worker : Running(w) <=> held[w] # NoRow
  /\ crashes \in Nat
  /\ requested \in [Job -> Nat]
  /\ served \in [Job -> Nat]
  /\ runs \in [Job -> Nat]
  /\ overlapped \in [Job -> BOOLEAN]

\* The latest request the row of j answers for: a repeated plain enqueue adds
\* nothing to an existing row, every other one replaces its payload.
Owed(j) == IF j \in PlainJob THEN payload[j] ELSE requested[j]

\* A request accepted while nobody ran the job is never lost: the row becomes
\* `done` only after a successful run that saw it, whatever expires, crashes,
\* fails or is reported late.  (mark_done and reschedule_failed are unfenced,
\* so only the timing of the enqueue can make this true.)
NoLostRequest ==
  \A j \in Job :
    status[j] = "done" /\ (j \in PlainJob \/ ~overlapped[j])
      => served[j] >= Owed(j)

\* A processing row always carries a lock time: recover_stale_processing_jobs
\* compares locked_at, and would never match a processing row without one.
ProcessingIsLocked ==
  \A j \in Job : status[j] = "processing" => locked_by[j] # NoWorker

\* attempt_count reaches MAX_ATTEMPTS only on dead rows, except that each
\* invitation resend lets one more attempt through (it keeps the old count).
AttemptsBounded ==
  \A j \in Job :
    /\ j \notin InviteJob => attempt_count[j] <= MaxAttempts
    /\ j \notin InviteJob /\ status[j] \in {"pending", "processing"}
         => attempt_count[j] < MaxAttempts
    /\ attempt_count[j] > 0 => attempt_count[j] + 1 <= MaxAttempts + requested[j]

\* While handlers finish within queue_stale_after_seconds, a plain job is run
\* by at most one worker at a time, and its row is locked by that worker.
OneRunner ==
  ~SlowHandlers =>
    \A j \in PlainJob : \A w \in Worker :
      Holds(w, j) => /\ status[j] = "processing" /\ locked_by[j] = w
                     /\ \A v \in Worker : Holds(v, j) => v = w

\* ... and every run of it is accounted for: retries, late failures and
\* recovered locks together never start it more than MAX_ATTEMPTS times, and
\* it is given up exactly when the budget is used.
RetryBudget ==
  ~SlowHandlers =>
    \A j \in PlainJob :
      /\ runs[j] <= MaxAttempts
      /\ status[j] = "dead" <=> attempt_count[j] = MaxAttempts
      /\ status[j] \in {"pending", "dead"} => runs[j] = attempt_count[j]
      /\ status[j] \in {"processing", "done"} => runs[j] = attempt_count[j] + 1

\* ... and done and dead are final for it: no late report or recovery revives
\* a settled row.
SettledIsFinal ==
  [][~SlowHandlers =>
       \A j \in PlainJob :
         status[j] \in {"done", "dead"} => status'[j] = status[j]]_vars

\* Once requests and crashes stop, every row settles: nothing stays pending
\* or processing for ever, whichever worker died holding it.
EventuallyQuiescent ==
  <>[](\A j \in Job : status[j] \in {"absent", "done", "dead"})

-----------------------------------------------------------------------------
(***************************************************************************)
(* The plain jobs implement the abstract promise of BoundedRetry.          *)
(***************************************************************************)
Phase(s) ==
  CASE s = "absent" -> "none"
    [] s \in {"pending", "processing"} -> "open"
    [] OTHER -> s

Retry == INSTANCE BoundedRetry WITH
  Item   <- PlainJob,
  phase  <- [j \in PlainJob |-> Phase(status[j])],
  tries  <- [j \in PlainJob |-> runs[j]],
  busy   <- [j \in PlainJob |-> status[j] = "processing"],
  worked <- [j \in PlainJob |-> served[j] > 0]

\* While handlers finish within queue_stale_after_seconds, the table, the
\* workers, their crashes and the stale-lock recovery together behave as an
\* at-least-once queue with a budget of MAX_ATTEMPTS tries.
ImplementsBoundedRetry == Retry!Spec

-----------------------------------------------------------------------------
(***************************************************************************)
(* What the documentation says.                                            *)
(***************************************************************************)

\* docs/architecture.md:104-106: a webhook makes a job, the worker loads the
\* state from GitLab and updates the issue.
WebhookIsProcessed ==
  \A j \in WebhookJob : \A n \in 1..MaxRequests :
    requested[j] = n ~> served[j] >= n \/ status[j] = "dead"

\* docs/architecture.md:40: the worker serialises changes per issue.  A webhook
\* job stands for one issue.
SerializedPerIssue ==
  \A v, w \in Worker :
    Running(v) /\ Running(w) /\ held[v].job \in WebhookJob
      /\ held[v].job = held[w].job => v = w

=============================================================================
