# IssueHub: specifications, model checks and proofs

IssueHub mirrors the issues of GitLab projects for users who have no GitLab
account. An Axum API and a background worker share one PostgreSQL database and
a directory of files; GitLab is reached over HTTP and calls back through
webhooks. This directory holds TLA+ modules of that system, the TLC
configurations that check them, and TLAPS proofs. Paths below are relative to
the repository.

## Inventory

| Component | State it keeps | Operations | Where |
|---|---|---|---|
| Job queue, worker loop | `jobs` rows: status, attempt_count, payload, available_at, locked_at/by, dedupe_key | poll = recover stale locks, then claim with `FOR UPDATE SKIP LOCKED`; handle; `mark_done` or `reschedule_failed`; process death and restart | `services/worker/src/queue.rs`, `app.rs` |
| Job producers | the same rows | webhook enqueue (resets the row), invitation mail (resets part of it), admin enqueue and password mail (insert only), deletion with an invitation | `routes/webhooks.rs`, `users.rs`, `jobs.rs`, `auth.rs` |
| Issue synchronisation | `issues`, `issue_external_refs`; GitLab's issues | create, update (API); pull, webhook, reconcile, push (worker); import (API) | `routes/issues.rs`, `handlers/sync.rs`, `bridge-core/src/issue_sync.rs`, `gitlab.rs` |
| Comments | `issue_comments` | create in GitLab or locally (negative note numbers), import | `routes/issues.rs`, `issue_sync.rs` |
| Uploads, local attachments | `issue_uploads`, `issue_attachments`, two directories | upload, download, delete, consume in a comment or a new issue, hourly clean-up | `routes/issues.rs`, `handlers/sync.rs` |
| GitLab attachments, cache | `issue_attachments`, cache directory | delete-and-reinsert on every sync and every GET; download through the cache | `issue_sync.rs`, `routes/attachments.rs` |
| Accounts | `users`, `user_sessions`, `user_invitations`, `password_reset_tokens` | invite, resend, delete, accept; log in, change, recover and reset the password | `routes/users.rs`, `invitations.rs`, `auth.rs`, `repositories/auth.rs` |
| Permissions | `project_permissions`, `issue_permissions` | read and replace access lists, authorise every request, capabilities | `routes/issues.rs`, `projects.rs`, `users.rs` |
| Projects, integrations | `projects`, `project_gitlab_integrations`, `project_integrations` | administer; the two integration tables are written one after the other | `routes/projects.rs` |
| Rate limiter | in-memory buckets | `check` | `services/rate_limit.rs` |
| Heartbeat, health | in-memory snapshot, `worker_heartbeats` | record, flush, report | `worker/src/heartbeat.rs`, `routes/health.rs` |

The parts meet in the database: the API inserts jobs that the worker claims,
both write the same issue and attachment rows, and a change that either makes in
GitLab comes back as a webhook, that is, as a job. There are no long
transactions (the claim, the stale-lock recovery and the acceptance of an
invitation are the only explicit ones), no fencing of late writes by
`locked_by`, and no timeouts on GitLab or SMTP calls.

What is hard, and what each part must therefore get right:

* **queue** — two workers, a crash between claim and report, handlers slower
  than the lock timeout, rows that are reset while a worker runs them. No
  accepted request is lost, the attempt budget is kept, each row settles, and a
  plain job has one runner.
* **synchronisation** — a handler reads a row, talks to GitLab, writes the row;
  anything happens in between, and the POST that creates a GitLab issue is
  committed before the row knows its number. The mapping row/GitLab issue/external
  reference is stable and complete, an `idle` row tells the truth, and lost or
  failed work is repaired in the end.
* **files** — file and row are changed one after the other, by requests, by the
  clean-up and by retries. No referenced file disappears, no temporary file stays.
* **accounts and permissions** — single use of tokens and invitations under
  concurrent requests; grants to an email become grants of the user, none lost.
* **mirrored comments** — an import reads pages while GitLab's users write, and saves
  note by note. No reply without its parent; a quiet import is complete.
* **operations** — counters that are zeroed before they are written, a readiness
  check made of old rows, two tables that are written one after the other.

`PROJECT.json` lists the hazards one by one, each with the line where it bites
and the properties that watch it, or the reason why none does.

## Modules

| Module | What it is |
|---|---|
| `JobQueue` | queue, workers and producers; one action per SQL statement or transaction |
| `BoundedRetry` | what a retrying queue promises for one class of work items |
| `JobQueue_proofs` | TLAPS theorems about `JobQueue` and `RetryDelay` |
| `IssueSync` | issue rows and GitLab issues; one action per SQL statement or GitLab request |
| `IssueSync_proofs` | TLAPS theorems about `IssueSync` |
| `Uploads` | temporary uploads: files, rows, the requests that consume them, the clean-up |
| `Uploads_proofs` | TLAPS theorems about `Uploads` |
| `Attachments`, `Attachments_proofs` | rows of GitLab attachments, rebuilt by every save, and the download through the cache; theorems |
| `Access`, `Access_proofs` | the two tables of grants: every query that reads them, every transaction that replaces them; theorems |
| `Invitations` | the rows and mail jobs of one email's invitations, and the user that acceptance creates |
| `Sessions`, `Sessions_proofs` | password, sessions and recovery tokens of one user; theorems |
| `Comments` | the comments of one GitLab issue: paged import, upsert, posting |
| `Heartbeat`, `Heartbeat_proofs` | the worker's snapshot, its heartbeat statement, and the API's readiness; theorems |
| `Integrations` | the two integration tables of one project, migration 014, the backfill of secrets |
| `RetryDelay` | `retry_delay_seconds` as an operator |
| `MCJobQueue`, `MCIssueSync`, `MCUploads`, `MCAttachments`, `MCAccess` | finite instances |
| `MCServices` | Invitations, Sessions, Comments, Heartbeat and Integrations, one of them in each behaviour |
| `Services_proofs` | theorems about these five, for all values of the constants of `MCServices` |
| `MCProgress` | IssueSync or Uploads under its own fairness |

Definitions whose comment begins with `Slip` are not part of a specification:
each is the definition after it with one plausible mistake (a dropped guard, a
missing reset, an off-by-one). Replacing the definition by its slip makes the
property that `PROJECT.json` pairs with it fail, which shows that the property
says something about the code.

### JobQueue

A `Job` is a dedupe key; `jobs_dedupe_key_idx` allows one row for it. The
variables named after columns are that row. Keys fall in three classes by the
statement that enqueues them, because the `ON CONFLICT` branches differ:
`EnqueueWebhook` resets everything, `EnqueueInvite` leaves attempt_count and lock
alone, `EnqueuePlain` changes nothing on an existing row. `pc` and `held` are the
position of a worker process in the loop of `app.rs` and the `Job` value it holds;
`row` tells a row from a later one with the same key, so that a report that arrives
after a deletion reaches nothing.

Time is two flags: `due` (`available_at <= NOW()`) and `expired` (lock older than
`queue_stale_after_seconds`). `BecomeDue` and `Expire` may happen whenever the
clock could have advanced; how long a retry waits is left out. With
`SlowHandlers = FALSE` a lock expires only when no worker runs the job any more,
which is what the timeout is chosen for; with `TRUE` it may expire at any time
(no HTTP or SMTP timeout is configured). Properties that need the former say so
in their formula. `ORDER BY created_at` is not modelled: `SKIP LOCKED` makes the
order a preference. The audit inserts after each report are modelled by what they
can do: end the process with the report committed.

`requested`, `served`, `runs` and `overlapped` are history variables. Bounds:
`MaxRequests`, `MaxCrashes`, and `MaxAttempts` 2 or 3 for the code's 5 (the
arithmetic compares with it at two places; three attempts have a first, a middle
and a last one). The theorems hold for every value.

### IssueSync

An activity (`op[p]`) is an API request or a worker handler; `kind` and `at` say
which and how far it is. It reads its row (`Begin...`), reads the integration
(`GoRemote`, `GoLocal`, `Skip`), talks to GitLab (`Fetch`, `Put`, `Post`) and writes
(`StorePull`, `Link`, `StoreRef`, ...). `Fail` ends it before any of these steps and
makes its job due again; `Reject` is a violation of one of the two unique
constraints. A reconcile job or an import is one pull for each listed issue. The
text of an issue is its state and the number of the edit that wrote its body:
`update_project_issue` sends the state only when it changed, `create_project_issue`
never does.

The queue is what `JobQueue` shows of it: due jobs run at least once, and
`LosePull` loses a webhook (not delivered, given up, or overwritten while running).
Steps after the last modelled write (attachments, comments, audit) can only fail
and make the job due again, which `RequestPull` and `RequestPush` allow anyway.

Any activities may share an issue. The documentation promises that changes are serialised
per issue; the code has nothing of the kind between API requests and jobs, nor between
jobs with different dedupe keys (whoever calls `POST /jobs` chooses the key, or leaves it
`NULL`, `jobs.rs:49-60`), and run `serial` shows that even one key does not give it. What
the overlaps do is recorded in history variables, which no guard reads, and the properties
name what they exempt:

* `crossed` are the activities that have shared their issue with another, `blurred` the rows
  that such an activity was the last to write. Two pulls may store their answers in the
  wrong order, a push may overwrite what it has not read: such a row may be `idle` and old,
  until an activity without company writes it. `IdleMeansSynced` and `EventuallySynced` speak
  of the other rows.
* `doubled` are the rows that two pushes had at once while the row had no number. Both
  create a GitLab issue, and the unconditional `UPDATE` of the later one (`sync.rs:286-299`)
  moves the row from the first to the second. The four mapping properties exempt these rows
  and, by `maker`, the GitLab issues made for them; every other overlap is covered, that of
  a create or a push with the pull of its own webhook included.

Left out: `version`, `last_source`, timestamps; comments and attachments; pointing
an integration at another GitLab project, which leaves the old numbers in the rows.

### Uploads

`temp` and `stored` are the files in the two directories, `row`, `attached`, `linked`
and `comment` the tables. A request finds the rows that its body names (`Find`) and
then loops over them as the code does: rename and insert an attachment (`Move`,
`Attach`), attach to the comment (`Link`), or send to GitLab (`Send`), and at last set
`consumed_at` (`Consume`). `Handled` is one round of such a loop. `Refuse` is the
missing file or the unique constraint on note numbers, `Fail` a failing call or the
death of the process; neither undoes anything. `upload` is the request that uploads
or deletes, `sweep` the clean-up, whose list grows stale while requests go on.
Comments without uploads are left out; the number race they add is that of two
comments with uploads. The issue row and GitLab's answer are in `IssueSync`.

The rename decides between requests; the row does not, since `consumed_at` is set at
the very end. What the model makes plain and no document promises otherwise: a
request that fails after `Move` leaves a live row without a file, which its retry
cannot use, and the file of an upload that was sent to GitLab stays in the upload
directory, because the clean-up skips consumed rows. `OrphansNeedFailures` therefore
does not count files of consumed rows.

### Attachments

An `Owner` is the issue or one of its comments; `links` are the URLs a save has parsed
from its text. A save reads the rows it replaces (`Load`), deletes them (`Clear`) and
inserts one per link (`Insert`), with the id and cache path it has read where there was
one; for a comment the upsert comes first (`Store`). `View` is the GET of an issue,
which saves, too. A download copies the row (`Lookup`) and goes on with its copy:
`ReadHit`, or a request to GitLab, then `WriteTemp`, `Rename` and `Update`. `Evict`
stands for whoever empties the cache directory. `alone`, `had` and `settled` are history:
which rows an undisturbed save met and what it was asked to leave.

The cache file of a row is named after its id, which only the same link can inherit;
that is why a path stored late, by a download whose row is a new one, still names the
right bytes. Two saves at once may insert two rows for a link or collide on the
primary key (`Conflict`), and a save that fails after `Clear` loses the addresses for
good: the properties say what the next undisturbed save repairs and what it cannot.

### Access

`Capabilities` is what the client is told, `Listed`, `Fetched`, `Downloads`, `Comments`,
`Edits` and `Manages` are the queries with which the handlers decide for themselves;
`ProjectOverview`, `IssueOverviews` and `UserOverview` are what the administration
shows. A transaction takes its snapshot and its row locks statement by statement, as
PostgreSQL does at READ COMMITTED: a `DELETE` waits for rows another one has deleted
(`Lock`), sees those committed before it started and misses those inserted since.
`solo` are the transactions that nothing overlapped, `was` what they met.

What the model shows besides the properties: two overlapping saves of one list leave
the union of both, so that a user may hold two permissions on one issue; a grant to an
email that is committed between the `INSERT ... SELECT` and the `DELETE` of an
acceptance is gone; a list of a project that was loaded before an acceptance and
saved after it grants to the email again, which works although the user's own
overview does not show it; saving an overview drops the grants of inactive users, which
it does not list; and the `ON CONFLICT` branch of the acceptance cannot be reached, nor
can rows of `issue_permissions` with an email.

### Invitations, Sessions

In `Invitations` a request is a call of `create_invitation` or `resend_invitation`
(`Check`, `Select`, `Renew` or `Insert`, `Enqueue`), a visitor one of `accept_invitation`
(`Read`, `InsertUser`, `Commit`), whose unique email makes a second visitor wait and fail.
`Commit` marks the row whatever its token, and finds none if a deletion was faster:
`AcceptedOnce` admits that user without an invitation, and nothing else. `QueuedLinkWorks`
leaves out rows whose requests overlapped or failed, until a later one is through.

`Sessions` counts passwords, so that a session remembers the one that opened it. A
login that was checked before a reset and inserted after it survives the reset's
`DELETE` (`late`); two resets with one token at once, or a failure between its three
statements, set the password twice (`failed`). The code does nothing about these: the
properties exempt them by name, do not watch for them, and claim everything else.

### Comments

GitLab's discussions are sequences of notes that anyone may lengthen, edit and
shorten between two pages (`Elsewhere`, `Edit`, `Delete`), which shifts later pages; the
first note left in a discussion becomes the parent of the others. An import reads all
pages (`got`, discussion by discussion) and then upserts note by note, in the order it
has read them: it is this order, with the fact that rows are never deleted, that puts a
parent's row before those of its replies. `last` is `last_comment_activity`, which
grows in the same loop and is written to the issue at the end. `quiet` marks imports
that nothing disturbed.

### Heartbeat, Integrations, RetryDelay

`Heartbeat` has a clock: a beat that is due is taken before time passes, and its statement
ends within `Latency` or fails. `delta` is zeroed when the beat is taken, so that
a failed beat loses its counts (`lost`), as does the death of a process. `sound` says
that the last beat did not fail. `Ready` is what `get_readiness` answers when the database
is there and has its tables: some worker's row is `Healthy` (`WorkerCheck`), and no job in
processing has a lock older than the timeout (`QueueCheck`). For the latter the module
keeps, of the whole queue, the time of each lock: a poll recovers stale ones and may claim a
job (`Claim`, `FindNothing`, `PollFails`), the report clears the lock of the job by id
(`Record`), and so do the API's resets and deletions (`Reset`). A job may take any time. One
that takes longer than the lock timeout makes readiness fail although its worker beats,
unless another worker polls: `ReadinessIsTimely` says that it does not fail for longer
than a poll interval past the timeout while a worker waits for jobs.

`Integrations` has the settings of each call as a
number, so that disagreeing tables show; what migration 014 copied as `NULL` because the
secret was still in plain text stays `NULL` in the new table, which nothing reads yet,
and the backfill of a second server may overwrite a newer token. `TablesAgree` exempts what
an overlapped or half-failed call leaves, until a call that nothing disturbed has
written both tables again. `RetryDelay` is the
delay that `JobQueue` calls later.

## Runs

| Run | Instance | Question |
|---|---|---|
| `reset` | 1 webhook or invitation key, 2 workers, 3 attempts, 3 requests, 1 crash, slow handlers, fairness | is an accepted webhook or invitation lost, are attempts bounded, does the row settle, when enqueueing resets all of it or part of it, or it is deleted? |
| `plain` | 2 plain keys, 2 workers, 2 crashes, handlers in time | one runner, exact budget, final outcome, refinement of `BoundedRetry` |
| `webhook_lost` | 1 key, 1 worker | *violation*: a webhook that arrives during the run of its job is marked done unseen |
| `serial` | 1 key, 2 workers | *violation*: two workers handle one issue at once |
| `sync_text` | 1 GitLab issue, 1 API row, 2 activities, 2 edits, 1 failure | is `idle` true? |
| `sync_mapping` | 2 GitLab issues, 1 API row, 2 activities, 1 edit, 1 failure | do row, number and reference stay in step, does a duplicate need a failure? |
| `sync_push` | 2 GitLab issues, 2 edits, no failure | *violation*: the retried push creates issue after issue |
| `uploads` | 2 uploads, 2 requests, 1 failure | are files attached once, kept, and never orphaned without a failure? |
| `progress` | `IssueSync` with 1 GitLab issue, 2 edits, 1 failure; `Uploads` with 1 upload, 2 requests, 2 failures; fairness | does everything arrive in the end, do expired rows go away? |
| `attachments` | an issue and a comment, 2 links, 2 saves, 2 downloads, 3 ids, 1 failure | is the right file served, is a cached path true, do addresses last? |
| `access` | 1 user, 1 project, 1 issue, up to 3 transactions | do handlers and capabilities agree, is a saved list in force, does acceptance keep rights, is nobody hidden? |
| `services` | see below | two properties each of `Invitations`, `Sessions`, `Comments` and `Heartbeat`, one of `Integrations` |

The bounds let every interesting case happen: two workers are enough for any
race on one row (three add only symmetric copies), a key that is enqueued three
times has a request before, during and after a run, and one failure can strike at
each step of an activity and meet the retry that follows. `reset` has one key, which is
a webhook's in some behaviours and an invitation's in the others, since rows meet only
in the workers, and `plain` has two. `sync_mapping` has one edit, since the mapping does
not depend on the texts; `sync_text` has one GitLab issue, since texts of different
issues never meet, and both leave out of the state (`VIEW`) the histories that their
properties do not read. In all of them activities overlap without restriction. Runs with
deadlock checking off have bounded inputs and stop when these are used up.

* `attachments`: either saves overlap and fail, on an issue and a comment that have one
  link between them and with nothing downloaded, or two downloads run beside one save at
  a time of an issue with two links and two ids, without failures. The first shows rows
  against links, the second paths against bytes; a third id is there for the save that
  duplicates a row.
* `access`: two transactions that overlap, or three one after the other, each with a
  list of at most one entry and the weakest or the strongest permissions; a single
  transaction may have any list. Users are created and deactivated before the first
  transaction, except by acceptance.
* `services` and `progress` run components that share no table side by side, one of them
  in each behaviour: nothing that two of them could do to each other is lost, and the
  fairness in `progress` is that of the component that runs.
  * `progress`, IssueSync: only pulls share an issue, and only before the second edit
    (`Few`). What an overlap leaves behind is then repaired or not within the instance;
    other overlaps are in `sync_text` and `sync_mapping`, for safety. With one number two pushes
    of a row without one would wait for each other's, so these are left out.
  * Invitations: two rows, three tokens, two requests, two visitors: a resend, a deletion
    or a second visitor can meet each step of an acceptance.
  * Sessions: three passwords, two calls, two sessions, one token: two resets with one
    token, and a login beside them.
  * Comments: three notes and four changes with one discussion to a page, two imports that
    overlap until the last change, one posting call: a page can shift between two fetches,
    a parent can vanish, and an import can still run undisturbed afterwards.
  * Heartbeat: interval 2, latency 1, stale after 3 and five instants, which is the
    tightest timing that satisfies interval + latency <= stale (the defaults are 15 and 60
    seconds, `config.rs:80`), one job, and two processes one after the other. A lock
    times out after 1, an idle worker polls after 1, one whose poll failed after 2: a job can
    outlive its lock, and its worker, and be recovered by the next process.
  * Integrations: four settings, two servers, two calls.

**Fairness.** `JobQueue`: clocks advance (`BecomeDue`, `Expire`), the container is
restarted (`restart: unless-stopped`), handlers end (an assumption: no timeout
forces them), and the loop of `app.rs` goes on polling and reporting (weak). A
worker that polls again and again is not refused a claimable row for ever
(strong): the row is skipped only while a concurrent poll has it locked.
`IssueSync`: an activity that has begun goes on (weak); a due pull is run (strong,
since other activities may block it again and again). `Uploads`: the worker's loop calls
the clean-up every 15 minutes and goes through its list (weak). Nothing is assumed of users,
GitLab or failures, except that failures are finitely many.

## Findings

* `webhook_lost`: `mark_done` (`queue.rs:69`) updates by id alone. A webhook that
  arrives while its job is running resets the row to pending, and the running
  worker's report then closes it: the newer state in GitLab is not loaded.
* `serial`: the same reset clears the lock (`webhooks.rs:168`), so a second worker
  runs the job beside the first, although the documentation says that changes are
  serialised per issue.
* `sync_push`: the webhook of a GitLab issue that `handle_sync_push` has just created
  may be pulled, into a row of its own, before the push stores the number. The
  `UPDATE` violates `UNIQUE (project_id, gitlab_issue_iid)`, the job is retried, finds
  no number and creates the next GitLab issue, once for each attempt.

## Proofs

`JobQueue_proofs` proves, for all constants that satisfy `ConstantsAssumption`:

* `TypeCorrect`, and `RequestsAreNotLost` from `RequestInv` and `LatestInv`: a done row
  has been served what its payload asks for; a worker whose report can still reach a
  row that was not enqueued under it carries that row's payload, and has served it
  if it is about to report success; the row of a key that enqueueing replaces carries
  the latest request. `NoLostRequest` alone is not inductive, since it says nothing
  before the report.
* `AttemptsAreBounded` and `LocksAreKept`, also when handlers are slow. A worker may set
  the count of a row that it claimed long ago, so what `AttemptInv` bounds is every
  snapshot a worker holds: a run must still have `Room` for the attempt that its report
  may add, and the row too as long as it can be claimed.
* For plain jobs, when handlers keep within the lock timeout: `PlainJobsHaveOneRunner`,
  `RetriesAreBounded`, `SettledJobsStay` from `BudgetInv`, which ties the row to the
  worker that holds it (locked by it, not expired, snapshot equal to the row) and
  the attempts to the runs. Each part depends on the others: the budget is exact
  only because a run has one reporter, and that is so only because the lock cannot
  expire under it.
* `PlainJobsAreRetriedFaithfully`: every step of `JobQueue` is a step of `BoundedRetry`
  or leaves its variables alone, under the mapping at the end of `JobQueue`.

`IssueSync_proofs` proves, for all constants and whatever activities overlap, every safety
property of the module; none of the theorems assumes that activities keep apart.

* `MappingsAreStable` (a row keeps its GitLab issue) and `RefsAgree` (its external reference
  follows) from `MapInv`, because a step writes a row on the strength of what an earlier step
  read: unless the row is `doubled`, a push that read no number is its only push, and until
  it links the row nobody else can number it (a pull numbers only a row it inserts); the
  row of a create exists for nobody else; and whoever is about to store a reference stores
  the number the row has by then. For a second push that starts in between the row becomes
  `doubled`, and `MapInv` claims nothing of it any more.
* `NumberInv`: no two rows have one number, and whatever names a number names an
  issue that GitLab has. `BodyInv`: no text that is on its way is the missing one.
* `IssuesAreMapped` (no GitLab issue is forgotten) from `MappedInv`, which adds to the property
  the pull that runs: a job is not due any more as soon as its pull begins, and the row and
  its reference are two statements. `MakerInv` ties each GitLab issue that a push has created
  to the row it was made for.
* `DuplicatesCostFailures` from `WasteInv`: of the GitLab issues made for a row all but
  the one that it has, or that its push is about to link, were wasted, and each of these
  by a failure. Those that `sync_push` exhibits are not counted: a pull has given them
  rows of their own.
* `SerialInv`: an activity that is not `crossed` is the only one to know its row and its
  issue, and what it has read of the row's number is still so.
* `IdleIsSynced` from `IdleInv`: whoever is about to call a row idle and is not `crossed`
  holds GitLab's text, or its write has left a pull due (every write makes GitLab send a
  webhook); a row that is idle and not `blurred` is behind only while a pull is due, lost, or
  has the issue in its hands. `IdleMeansSynced` speaks of rows at rest, and is not inductive
  without what the activities hold.

`Uploads_proofs` proves, for any number of uploads, requests and failures:

* `TypeCorrect`, and `UploadsAttachOnce` from `FileInv`: the bytes of an upload are in one
  place, the upload directory or one request's attachment, so only one rename can succeed.
* `SuccessesAreComplete` from `ReqInv`, which says for each position of a request what
  it has done with the uploads no longer in `todo`, and that no other step takes it
  back (`Monotone`). A row that has been found can be consumed or deleted, but never
  becomes live again.
* `BytesKept` and `OrphansAreCounted`: no more uploads are lost and no more files orphaned
  than calls have failed. A step adds at most one element to either set, and only when
  it counts as a failure; that the others add none is `KeepInv`. `Removable` says that
  what a deletion or the clean-up is about to remove nobody needs any more, although
  its list was read long ago; `MovesOne` says that a request between the rename and
  the `INSERT` has moved exactly one file.

`Attachments_proofs` proves, for any number of saves, downloads, links and ids, whatever
fails, `Typed`, `ServedRight` (nobody gets the bytes of another link) and `CachedRight` (a
cache path in a row is a file that was there and has the row's bytes, unless it was evicted). An id is bound
to one link for good (`Bound`): the row it belongs to, a save that carries it over and
a download that copied it all agree on the link, which is why a late `Update` does no harm.
`Stored` says the same of the file. `RowsMatch` and `AddressesKept` follow from
`SettledInv`: a save that nothing overlaps `Remembers` between its `SELECT` and its last
`INSERT` an id for each link that had a row, and has `Rebuilt` one row for each link it has
been through, with that id if there was one; and rows are settled only while no save is
on their owner.

`Access_proofs` proves, for any users, projects, issues and any number of overlapping
transactions:

* `Typed`, `Enforced` (what capabilities promise is what the handlers allow) and `Shown`
  (nobody has access that the administration does not show). These two relate eight
  queries on the same rows; their proofs go from query to query.
* `ListsReplaced` and `AcceptanceKeeps` from `LockInv` (row locks are exclusive, and held
  only by transactions that run) and `SoloInv`: a transaction that nothing overlaps has,
  before each statement, either all the rows it met or those it is to leave.

`Sessions_proofs`: `ResetEnds` from `FreshInv` (a call that is about to open a session
and was not overtaken by a reset has checked a password no older than the last
sweep), and `TokenSpent` from `SpentInv` (without a failure or an overlap, a token that
has set a password is used, or the one call that set it is about to mark it).

`Heartbeat_proofs`: `Counted` from the equality `CountInv` between the jobs that have
ended and those that are in the database, in the snapshot, under way or lost;
`Timely` from `TimeInv`, which bounds how old the row of a running and of a dead process may
be, and `WaitInv`, which bounds how old a lock may be while a worker sleeps: its last poll
has recovered what was stale then, and the sleep is no longer than `PollEvery`. `Timely` assumes `Timing`: interval + latency do not exceed the stale time. The
configuration does not enforce it, and without it a healthy worker is reported as dead.

`Services_proofs` is about the composition in `MCServices`, for all values of the constants
that satisfy `Bounds` (counts and durations are naturals, a page is not empty), and for
`WorkersNoticed` also `Timing` (interval + latency do not exceed the stale time). `Apart` says that each of its behaviours is one of
each component, so that the theorems need no assumption about which component runs or
how far imports overlap. From it, and from an invariant of each component:

* `SessionsEnd`, `TokensSpent`, `JobsCounted` and `WorkersNoticed` are the theorems of
  `Sessions_proofs` and `Heartbeat_proofs`, instantiated.
* `OneAcceptance` from `AcceptedInv`: the uncommitted `INSERT` of a visitor keeps all others
  from theirs, so that at most one is about to commit, and only while there is no user.
  `LinkWorks` from `LinkInv`: the link of an undisturbed invitation is in its mail job, or
  in the hands of the one request that is about to queue it.
* `ParentsAreThere` from `ParentInv`: in what an import still has to save, each reply
  has its parent's row already or comes later in the same discussion than the parent,
  and a note never changes its discussion (`ThreadInv`), so that rows and summaries read
  long ago agree.
* `ImportsBringAll` from `QuietInv` and `MirrorInv`: an undisturbed import has exactly the
  discussions of the pages behind it, and while it saves each note is still held or
  has its row and its time in `last`; afterwards other imports can only write what is there.
  That a note is in one place (`ThreadInv`) is what makes a second save of it harmless.
* `IntegrationsAgree` from `BackfillInv` (what a server has read for encryption is the only
  plain token there can be, and calls come after it), `AloneInv` (a call that nothing
  overlapped has had both tables for itself, and has written the first) and `AgreeInv`,
  which lists the three stages of migration 014 and the backfill.

`JobQueue_proofs` also proves `DelayIsBackoff` of `retry_delay_seconds`, for every
attempt number.

With that, every safety property that a run checks is a theorem. Only model-checked are
`EventuallyQuiescent`, `EventuallySynced` and `ExpiredAreRemoved`: liveness under fairness
is beyond the prover. The three findings are counterexamples, which need no proof.

## Not modelled

* **Rate limiter** (`rate_limit.rs`). A call is one atomic step under a mutex on a map that
  nothing else reads: no interleaving, failure or order to explore.
* **Reading and formatting.** OpenAPI documents and DTOs, rendering of Markdown, validation
  and sanitising of texts, names and file types, the counts of jobs in the overview, and
  metrics. They change no state.
* **Configuration and secrets.** Environment parsing, encryption. The state around them
  that changes, the backfill of encrypted tokens, is in `Integrations`.
* **Single statements on columns that nothing else depends on.** `update_project`, name
  and email in `update_me`, `ensure_bootstrap_admin`, `validate_gitlab_integration` (which
  only asks GitLab).
* **The integration adapter trait**, which no service calls yet.
* **Frontend and deployment.** The models let API calls arrive in any order, which covers
  what a client can do; the restart policy is `Restart` in `JobQueue`.
* **GitLab and SMTP** appear as the answers the code gets from them.
* Columns left out of a modelled table are named in the section of its module.

## What is left

* `IssueSync` composed with `BoundedRetry` in place of its own abstraction of the queue.
* An abstract single-use token, implemented by both the recovery tokens of `Sessions` and the
  invitations of `Invitations`.
* Pointing an integration at another GitLab project, with the numbers that stay behind.
