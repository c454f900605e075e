------------------------------ MODULE Heartbeat ------------------------------
(***************************************************************************)
(* The heartbeat of worker processes and what the API's readiness check    *)
(* makes of it.  A process runs two tasks that share a snapshot under a    *)
(* lock: the loop of app.rs, which polls for jobs and handles them, and    *)
(* the heartbeat loop, which takes the snapshot, zeroes its counts and     *)
(* then writes them to the process's row of worker_heartbeats.             *)
(*                                                                         *)
(* Of the jobs table readiness sees the locks of jobs in processing: a     *)
(* poll recovers those that have expired and takes one for itself, and     *)
(* the report of a run clears it.  The rest of the queue is JobQueue's.    *)
(*                                                                         *)
(* Time is a counter; a beat that is due is taken before time goes on, and *)
(* its statement takes Latency at most, or fails.  A process that dies is  *)
(* followed by one with another worker_id and a row of its own.            *)
(* Definitions marked `Slip` are the next definition with one plausible    *)
(* mistake.                                                                *)
(***************************************************************************)
EXTENDS Integers, FiniteSets

CONSTANTS
  Process,      \* worker processes; each is started once
  Outcome,      \* of a job: processed or failed, counted alike
  Interval,     \* worker_heartbeat_interval_seconds
  StaleAfter,   \* worker_stale_after_seconds
  Job,          \* rows of jobs
  LockTimeout,  \* queue_stale_after_seconds
  PollEvery,    \* wait of a worker that found nothing to do
  ErrorWait,    \* ... and of one whose poll failed
  Latency,      \* of a statement
  MaxTime, MaxJobs

Zero == [o \in Outcome |-> 0]
NoRow == [status |-> "none", at |-> 0, counts |-> Zero]
NoBeat == [status |-> "none", at |-> 0, counts |-> Zero]
NoJob == "none"
NULL == -1

VARIABLES
  now,
  state,       \* "new", "up" or "down"
  since,       \* when it went down
  job,         \* the loop: the job that it handles, or NoJob
  wait,        \* ... and for how long it sleeps before it polls
  lock,        \* locked_at of each job in processing, otherwise NULL
  status,      \* the snapshot: its status
  delta,       \* ... processed_delta and failed_delta
  beat,        \* the statement under way, with the time at which it was sent
  next,        \* when the next beat is due
  row,         \* worker_heartbeats
  ended,       \* jobs that the process has recorded, by outcome
  lost,        \* those whose count a failed beat or the end took away
  sound        \* the last beat succeeded

jobVars == <<job, wait, lock>>
vars == <<now, state, since, jobVars, status, delta, beat, next, row, ended, lost, sound>>

Init ==
  /\ now = 0
  /\ state = [p \in Process |-> "new"]
  /\ since = [p \in Process |-> 0]
  /\ job = [p \in Process |-> NoJob]
  /\ wait = [p \in Process |-> 0]
  /\ lock = [j \in Job |-> NULL]
  /\ status = [p \in Process |-> "idle"]
  /\ delta = [p \in Process |-> Zero]
  /\ beat = [p \in Process |-> NoBeat]
  /\ next = [p \in Process |-> 0]
  /\ row = [p \in Process |-> NoRow]
  /\ ended = [p \in Process |-> Zero]
  /\ lost = [p \in Process |-> Zero]
  /\ sound = [p \in Process |-> TRUE]

Up(p) == state[p] = "up"
Beating(p) == beat[p] # NoBeat
Plus(a, b) == [o \in Outcome |-> a[o] + b[o]]

\* run: the heartbeat loop is spawned, and beats at once
Start(p) ==
  /\ state[p] = "new"
  /\ state' = [state EXCEPT ![p] = "up"]
  /\ next' = [next EXCEPT ![p] = now]
  /\ UNCHANGED <<now, since, jobVars, status, delta, beat, row, ended, lost, sound>>

\* Jobs that readiness calls stale, and that recovery takes from their workers.
Stale(j) == lock[j] # NULL /\ now - lock[j] > LockTimeout

\* Slip: a poll recovers nothing.
NotRecovered == lock

\* recover_stale_processing_jobs
Recovered == [j \in Job |-> IF Stale(j) THEN NULL ELSE lock[j]]

\* The loop asks for a job: it has none and has slept its time.
Polls(p) == Up(p) /\ job[p] = NoJob /\ wait[p] = 0

SetStatus(p, to) == status' = [status EXCEPT ![p] = to]
LoopOnly == UNCHANGED <<now, state, since, delta, beat, next, row, ended, lost, sound>>

\* fetch_next_job returns job j; set_processing
Claim(p, j) ==
  /\ Polls(p) /\ lock[j] = NULL
  /\ lock' = [Recovered EXCEPT ![j] = now]
  /\ job' = [job EXCEPT ![p] = j]
  /\ SetStatus(p, "processing") /\ LoopOnly /\ UNCHANGED wait

\* ... or none; set_idle
FindNothing(p) ==
  /\ Polls(p)
  /\ lock' = Recovered
  /\ wait' = [wait EXCEPT ![p] = PollEvery]
  /\ SetStatus(p, "idle") /\ LoopOnly /\ UNCHANGED job

\* ... or fails, before or after its recovery or its claim is committed;
\* set_queue_error
PollFails(p) ==
  /\ Polls(p)
  /\ \/ lock' \in {lock, Recovered}
     \/ \E j \in Job : lock[j] = NULL /\ lock' = [Recovered EXCEPT ![j] = now]
  /\ wait' = [wait EXCEPT ![p] = ErrorWait]
  /\ SetStatus(p, "queue_error") /\ LoopOnly /\ UNCHANGED job

\* mark_done or reschedule_failed, which write by id, whoever has the job by
\* now; then record_success or record_failure.  A job may take any time.
Record(p, o) ==
  /\ Up(p) /\ job[p] # NoJob /\ ended[p][o] < MaxJobs
  /\ lock' = [lock EXCEPT ![job[p]] = NULL]
  /\ job' = [job EXCEPT ![p] = NoJob]
  /\ SetStatus(p, "idle")
  /\ delta' = [delta EXCEPT ![p][o] = @ + 1]
  /\ ended' = [ended EXCEPT ![p][o] = @ + 1]
  /\ UNCHANGED <<now, state, since, wait, beat, next, row, lost, sound>>

\* The API resets or deletes a job in processing.
Reset(j) ==
  /\ lock[j] # NULL
  /\ lock' = [lock EXCEPT ![j] = NULL]
  /\ LoopOnly /\ UNCHANGED <<job, wait, status>>

Due(p) == Up(p) /\ ~Beating(p) /\ now >= next[p]

\* Slip: the counts are left for the next beat.
TakeKeeping(p) ==
  /\ Due(p)
  /\ beat' = [beat EXCEPT ![p] = [status |-> status[p], at |-> now, counts |-> delta[p]]]
  /\ UNCHANGED <<now, state, since, jobVars, status, delta, next, row, ended, lost, sound>>

\* flush: the snapshot is copied and its counts are zeroed under one lock.
Take(p) ==
  /\ Due(p)
  /\ beat' = [beat EXCEPT ![p] = [status |-> status[p], at |-> now, counts |-> delta[p]]]
  /\ delta' = [delta EXCEPT ![p] = Zero]
  /\ UNCHANGED <<now, state, since, jobVars, status, next, row, ended, lost, sound>>

Rests(p) ==
  /\ beat' = [beat EXCEPT ![p] = NoBeat]
  /\ next' = [next EXCEPT ![p] = IF Up(p) THEN now + Interval ELSE @]

\* record_heartbeat: INSERT, or UPDATE with the counts added
Beat(p) ==
  /\ Beating(p)
  /\ row' = [row EXCEPT ![p] = [status |-> beat[p].status, at |-> now,
                                counts |-> Plus(@.counts, beat[p].counts)]]
  /\ sound' = [sound EXCEPT ![p] = Up(p)]
  /\ Rests(p)
  /\ UNCHANGED <<now, state, since, jobVars, status, delta, ended, lost>>

\* The statement fails: the error is logged, the counts are gone.
BeatFails(p) ==
  /\ Beating(p)
  /\ lost' = [lost EXCEPT ![p] = Plus(@, beat[p].counts)]
  /\ sound' = [sound EXCEPT ![p] = FALSE]
  /\ Rests(p)
  /\ UNCHANGED <<now, state, since, jobVars, status, delta, row, ended>>

\* The process dies; a statement under way may still be executed, and the lock
\* of its job stays.
Die(p) ==
  /\ Up(p)
  /\ state' = [state EXCEPT ![p] = "down"]
  /\ since' = [since EXCEPT ![p] = now]
  /\ job' = [job EXCEPT ![p] = NoJob]
  /\ SetStatus(p, "idle")
  /\ delta' = [delta EXCEPT ![p] = Zero]
  /\ lost' = [lost EXCEPT ![p] = Plus(@, delta[p])]
  /\ wait' = [wait EXCEPT ![p] = 0]
  /\ next' = [next EXCEPT ![p] = 0]
  /\ sound' = [sound EXCEPT ![p] = FALSE]
  /\ UNCHANGED <<now, lock, beat, row, ended>>

Tick ==
  /\ now < MaxTime
  /\ \A p \in Process : ~Due(p) /\ (Beating(p) => now < beat[p].at + Latency)
  /\ now' = now + 1
  /\ wait' = [p \in Process |-> IF wait[p] = 0 THEN 0 ELSE wait[p] - 1]
  /\ UNCHANGED <<state, since, job, lock, status, delta, beat, next, row, ended, lost, sound>>

Next ==
  \/ \E p \in Process :
       \/ Start(p) \/ Take(p) \/ Beat(p) \/ BeatFails(p) \/ Die(p)
       \/ FindNothing(p) \/ PollFails(p)
       \/ \E j \in Job : Claim(p, j)
       \/ \E o \in Outcome : Record(p, o)
  \/ \E j \in Job : Reset(j)
  \/ Tick

Spec == Init /\ [][Next]_vars

-----------------------------------------------------------------------------
\* load_worker_heartbeats
Healthy(p) == row[p] # NoRow /\ now - row[p].at <= StaleAfter /\ row[p].status # "queue_error"

\* collect_operational_health: its checks of the workers and of the queue.
\* Readiness is that of a database that answers and has its tables.
WorkerCheck == \E p \in Process : Healthy(p)
QueueCheck == \A j \in Job : ~Stale(j)

\* get_readiness answers 200 and not 503.
Ready == QueueCheck /\ WorkerCheck

\* No job is counted twice, and one that is not counted was in a beat that
\* failed or in a process that died.
CountsAddUp ==
  \A p \in Process, o \in Outcome :
    LET counted == row[p].counts[o] + delta[p][o] + beat[p].counts[o]
    IN  counted <= ended[p][o] /\ ended[p][o] <= counted + lost[p][o]

\* A process that runs and reached queue and database at its last beat; one that
\* has polled and sleeps because there was nothing to do.
Sound(p) == Up(p) /\ sound[p] /\ row[p].status \in {"idle", "processing"}
Waits(p) == Up(p) /\ status[p] = "idle" /\ wait[p] > 0

\* Readiness ends when no process is left.  One that runs is never taken for
\* dead, however long its job is.  A job that nobody finishes, because its
\* worker died or is slow, makes readiness fail; but not for longer than
\* PollEvery while some worker waits for jobs.
ReadinessIsTimely ==
  /\ (\A p \in Process : ~Up(p) /\ (state[p] = "down" => now > since[p] + Latency + StaleAfter))
       => ~Ready
  /\ (\E p \in Process : Sound(p)) => WorkerCheck
  /\ (\E p \in Process : Sound(p)) /\ (\E p \in Process : Waits(p))
       => \/ Ready
          \/ \E j \in Job : Stale(j) /\ now - lock[j] <= LockTimeout + PollEvery
=============================================================================
