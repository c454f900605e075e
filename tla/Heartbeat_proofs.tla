--------------------------- MODULE Heartbeat_proofs ---------------------------
(***************************************************************************)
(* Theorems about Heartbeat for any number of processes and jobs and for   *)
(* all durations; readiness needs those that leave room for one heartbeat  *)
(* to be due and written before the one before it is stale.                *)
(***************************************************************************)
EXTENDS Heartbeat, TLAPS

Durations ==
  /\ Interval \in Nat /\ StaleAfter \in Nat /\ Latency \in Nat
  /\ LockTimeout \in Nat /\ PollEvery \in Nat /\ ErrorWait \in Nat

\* The defaults of config.rs are 15 and 60 seconds.
Timing == Durations /\ Interval + Latency <= StaleAfter

Count == [Outcome -> Nat]
Status == {"none", "idle", "processing", "queue_error"}
BeatRow == [status : Status, at : Nat, counts : Count]

TypeInv ==
  /\ now \in Nat
  /\ state \in [Process -> {"new", "up", "down"}]
  /\ since \in [Process -> Nat] /\ next \in [Process -> Nat]
  /\ status \in [Process -> Status \ {"none"}]
  /\ delta \in [Process -> Count] /\ ended \in [Process -> Count] /\ lost \in [Process -> Count]
  /\ beat \in [Process -> BeatRow] /\ row \in [Process -> BeatRow]
  /\ sound \in [Process -> BOOLEAN]
  /\ job \in [Process -> Job \cup {NoJob}]
  /\ wait \in [Process -> Nat]
  /\ lock \in [Job -> Nat \cup {NULL}]

LEMMA Zeros == Zero \in Count /\ NoRow \in BeatRow /\ NoBeat \in BeatRow /\ NoRow = NoBeat
  BY DEF Zero, NoRow, NoBeat, Count, Status, BeatRow

LEMMA Sums ==
  ASSUME NEW a \in Count, NEW b \in Count
  PROVE  Plus(a, b) \in Count /\ \A o \in Outcome : Plus(a, b)[o] = a[o] + b[o]
  BY DEF Plus, Count

LEMMA TypeInit == Init => TypeInv
  BY Zeros DEF Init, TypeInv, Status

\* The loop asks for a job.
PollStep(p) == FindNothing(p) \/ PollFails(p) \/ \E j \in Job : Claim(p, j)

\* What a poll does to its process, and that a lock stays, goes or is taken now;
\* when it finds nothing, those that stay have not expired.
LEMMA PollEffect ==
  ASSUME Durations, TypeInv, NEW p \in Process, PollStep(p)
  PROVE  /\ Polls(p) /\ LoopOnly
         /\ job' \in [Process -> Job \cup {NoJob}] /\ wait' \in [Process -> Nat]
         /\ \A q \in Process \ {p} : job'[q] = job[q] /\ wait'[q] = wait[q] /\ status'[q] = status[q]
         /\ status' \in [Process -> {"idle", "processing", "queue_error"}
                                    \cup (Status \ {"none"})]
         /\ \/ status'[p] = "processing" /\ wait'[p] = wait[p]
            \/ status'[p] = "queue_error" /\ job'[p] = job[p]
            \/ /\ status'[p] = "idle" /\ wait'[p] = PollEvery /\ job'[p] = job[p]
               /\ \A j \in Job : lock'[j] # NULL => lock'[j] = lock[j] /\ ~Stale(j)
         /\ lock' \in [Job -> Nat \cup {NULL}]
         /\ \A j \in Job : lock'[j] \in {NULL, lock[j], now}
  <1> USE DEF TypeInv, Durations, SetStatus
  <1>1. /\ Recovered \in [Job -> Nat \cup {NULL}]
        /\ \A j \in Job : Recovered[j] \in {NULL, lock[j]}
        /\ \A j \in Job : Recovered[j] # NULL => Recovered[j] = lock[j] /\ ~Stale(j)
    BY DEF Recovered
  <1>2. ASSUME NEW j \in Job
        PROVE  /\ [Recovered EXCEPT ![j] = now] \in [Job -> Nat \cup {NULL}]
               /\ \A k \in Job : [Recovered EXCEPT ![j] = now][k] \in {NULL, lock[k], now}
    BY <1>1
  <1>3. CASE FindNothing(p)
    BY <1>1, <1>3 DEF FindNothing, Polls
  <1>4. CASE PollFails(p)
    <2>1. /\ lock' \in [Job -> Nat \cup {NULL}]
          /\ \A j \in Job : lock'[j] \in {NULL, lock[j], now}
      BY <1>1, <1>2, <1>4 DEF PollFails
    <2>2. QED
      BY <1>4, <2>1 DEF PollFails
  <1>5. ASSUME NEW j \in Job, Claim(p, j)
        PROVE  /\ lock' \in [Job -> Nat \cup {NULL}]
               /\ \A k \in Job : lock'[k] \in {NULL, lock[k], now}
               /\ Polls(p) /\ LoopOnly /\ UNCHANGED wait
               /\ job' = [job EXCEPT ![p] = j] /\ status' = [status EXCEPT ![p] = "processing"]
    BY <1>2, <1>5 DEF Claim
  <1>6. CASE \E j \in Job : Claim(p, j)
    BY <1>5, <1>6
  <1>7. QED
    BY <1>3, <1>4, <1>6 DEF PollStep

LEMMA TypeStep == Durations /\ TypeInv /\ [Next]_vars => TypeInv'
  <1> SUFFICES ASSUME Durations, TypeInv, [Next]_vars PROVE TypeInv'
    OBVIOUS
  <1> USE Zeros DEF TypeInv
  <1>1. CASE UNCHANGED vars
    BY <1>1 DEF vars, jobVars
  <1>2. ASSUME NEW p \in Process, Start(p) PROVE TypeInv'
    BY <1>2 DEF Start, jobVars
  <1>3. ASSUME NEW p \in Process, PollStep(p) PROVE TypeInv'
    <2>1. lock' \in [Job -> Nat \cup {NULL}]
      BY <1>3, PollEffect
    <2>2. QED
      BY <1>3, <2>1, PollEffect DEF Status, LoopOnly
  <1>4. ASSUME NEW p \in Process, NEW o \in Outcome, Record(p, o) PROVE TypeInv'
    <2>1. \A f \in Count : [f EXCEPT ![o] = @ + 1] \in Count
      BY DEF Count
    <2>2. /\ delta' = [delta EXCEPT ![p] = [delta[p] EXCEPT ![o] = @ + 1]]
          /\ ended' = [ended EXCEPT ![p] = [ended[p] EXCEPT ![o] = @ + 1]]
      BY <1>4 DEF Record
    <2>3. delta' \in [Process -> Count] /\ ended' \in [Process -> Count]
      BY <2>1, <2>2
    <2>4. job' \in [Process -> Job \cup {NoJob}] /\ lock' \in [Job -> Nat \cup {NULL}]
      BY <1>4 DEF Record
    <2>5. QED
      BY <1>4, <2>3, <2>4 DEF Record, SetStatus, Status
  <1>5. ASSUME NEW p \in Process, Take(p) PROVE TypeInv'
    BY <1>5 DEF Take, jobVars, Status, BeatRow
  <1>6. ASSUME NEW p \in Process, Beat(p) PROVE TypeInv'
    <2>1. beat[p].counts \in Count /\ row[p].counts \in Count /\ beat[p].status \in Status
      BY DEF BeatRow
    <2>2. [status |-> beat[p].status, at |-> now, counts |-> Plus(row[p].counts, beat[p].counts)]
            \in BeatRow
      BY <2>1, Sums DEF BeatRow
    <2>3. row' \in [Process -> BeatRow]
      BY <1>6, <2>2 DEF Beat
    <2>4. QED
      BY <1>6, <2>3 DEF Beat, Rests, Up, jobVars, Durations
  <1>7. ASSUME NEW p \in Process, BeatFails(p) PROVE TypeInv'
    <2>1. Plus(lost[p], beat[p].counts) \in Count
      BY Sums DEF BeatRow
    <2>2. QED
      BY <1>7, <2>1 DEF BeatFails, Rests, jobVars, Durations
  <1>8. ASSUME NEW p \in Process, Die(p) PROVE TypeInv'
    <2>1. Plus(lost[p], delta[p]) \in Count
      BY Sums
    <2>2. QED
      BY <1>8, <2>1 DEF Die, SetStatus, Status
  <1>9. CASE Tick
    BY <1>9 DEF Tick
  <1>10. ASSUME NEW j \in Job, Reset(j) PROVE TypeInv'
    BY <1>10 DEF Reset, LoopOnly
  <1>11. QED
    BY <1>1, <1>2, <1>3, <1>4, <1>5, <1>6, <1>7, <1>8, <1>9, <1>10 DEF Next, PollStep

-----------------------------------------------------------------------------
(***************************************************************************)
(* Counts.  Each recorded job is in the row, in the snapshot, in the       *)
(* statement under way or known to be lost.                                *)
(***************************************************************************)
Held(p, o) == row[p].counts[o] + delta[p][o] + beat[p].counts[o]

CountInv == \A p \in Process, o \in Outcome : ended[p][o] = Held(p, o) + lost[p][o]

LEMMA CountInit == Init => CountInv
  BY DEF Init, CountInv, Held, Zero, NoRow, NoBeat

\* Steps of one process, seen from one outcome.
LEMMA CountKept ==
  ASSUME NEW p \in Process, CountInv,
         \A q \in Process \ {p} : row'[q] = row[q] /\ delta'[q] = delta[q] /\ beat'[q] = beat[q]
                                  /\ ended'[q] = ended[q] /\ lost'[q] = lost[q],
         \A o \in Outcome : ended'[p][o] = Held(p, o)' + lost'[p][o]
  PROVE  CountInv'
  BY DEF CountInv, Held

LEMMA CountStep == TypeInv /\ CountInv /\ [Next]_vars => CountInv'
  <1> SUFFICES ASSUME TypeInv, CountInv, [Next]_vars PROVE CountInv'
    OBVIOUS
  <1>0. ASSUME NEW p \in Process, NEW o \in Outcome
        PROVE  /\ row[p].counts \in Count /\ delta[p] \in Count /\ beat[p].counts \in Count
               /\ row[p].counts[o] \in Nat /\ delta[p][o] \in Nat /\ beat[p].counts[o] \in Nat
               /\ lost[p] \in Count /\ lost[p][o] \in Nat /\ ended[p][o] \in Nat
               /\ Zero[o] = 0
    BY DEF TypeInv, BeatRow, Count, Zero
  <1>1. CASE UNCHANGED vars
    BY <1>1 DEF vars, CountInv, Held
  <1>2. ASSUME NEW p \in Process, Start(p) \/ PollStep(p) PROVE CountInv'
    <2>1. UNCHANGED <<row, delta, beat, ended, lost>>
      BY <1>2 DEF Start, PollStep, Claim, FindNothing, PollFails, LoopOnly
    <2>2. QED
      BY <2>1 DEF CountInv, Held
  <1>3. ASSUME NEW p \in Process, NEW u \in Outcome, Record(p, u) PROVE CountInv'
    <2>1. ASSUME NEW o \in Outcome
          PROVE  /\ delta'[p][o] = IF o = u THEN delta[p][o] + 1 ELSE delta[p][o]
                 /\ ended'[p][o] = IF o = u THEN ended[p][o] + 1 ELSE ended[p][o]
      BY <1>3 DEF Record, TypeInv, Count
    <2>2. UNCHANGED <<row, beat, lost>>
      BY <1>3 DEF Record
    <2>3. \A q \in Process \ {p} : delta'[q] = delta[q] /\ ended'[q] = ended[q]
      BY <1>3 DEF Record, TypeInv
    <2>4. \A o \in Outcome : ended'[p][o] = Held(p, o)' + lost'[p][o]
      BY <1>0, <2>1, <2>2 DEF CountInv, Held
    <2>5. QED
      BY <2>2, <2>3, <2>4, CountKept
  <1>4. ASSUME NEW p \in Process, Take(p) PROVE CountInv'
    <2>1. /\ beat[p] = NoBeat /\ beat'[p].counts = delta[p] /\ delta'[p] = Zero
          /\ UNCHANGED <<row, ended, lost>>
          /\ \A q \in Process \ {p} : delta'[q] = delta[q] /\ beat'[q] = beat[q]
      BY <1>4 DEF Take, Due, Beating, TypeInv
    <2>2. \A o \in Outcome : beat[p].counts[o] = 0
      BY <2>1 DEF NoBeat, Zero
    <2>3. \A o \in Outcome : ended'[p][o] = Held(p, o)' + lost'[p][o]
      BY <1>0, <2>1, <2>2 DEF CountInv, Held
    <2>4. QED
      BY <2>1, <2>3, CountKept
  <1>5. ASSUME NEW p \in Process, Beat(p) PROVE CountInv'
    <2>1. /\ row'[p].counts = Plus(row[p].counts, beat[p].counts) /\ beat'[p] = NoBeat
          /\ UNCHANGED <<delta, ended, lost>>
          /\ \A q \in Process \ {p} : row'[q] = row[q] /\ beat'[q] = beat[q]
      BY <1>5 DEF Beat, Rests, TypeInv
    <2>2. \A o \in Outcome : /\ row'[p].counts[o] = row[p].counts[o] + beat[p].counts[o]
                             /\ beat'[p].counts[o] = 0
      BY <1>0, <2>1, Sums DEF NoBeat, Zero
    <2>3. \A o \in Outcome : ended'[p][o] = Held(p, o)' + lost'[p][o]
      BY <1>0, <2>1, <2>2 DEF CountInv, Held
    <2>4. QED
      BY <2>1, <2>3, CountKept
  <1>6. ASSUME NEW p \in Process, BeatFails(p) PROVE CountInv'
    <2>1. /\ lost'[p] = Plus(lost[p], beat[p].counts) /\ beat'[p] = NoBeat
          /\ UNCHANGED <<row, delta, ended>>
          /\ \A q \in Process \ {p} : lost'[q] = lost[q] /\ beat'[q] = beat[q]
      BY <1>6 DEF BeatFails, Rests, TypeInv
    <2>2. \A o \in Outcome : /\ lost'[p][o] = lost[p][o] + beat[p].counts[o]
                             /\ beat'[p].counts[o] = 0
      BY <1>0, <2>1, Sums DEF NoBeat, Zero
    <2>3. \A o \in Outcome : ended'[p][o] = Held(p, o)' + lost'[p][o]
      BY <1>0, <2>1, <2>2 DEF CountInv, Held
    <2>4. QED
      BY <2>1, <2>3, CountKept
  <1>7. ASSUME NEW p \in Process, Die(p) PROVE CountInv'
    <2>1. /\ lost'[p] = Plus(lost[p], delta[p]) /\ delta'[p] = Zero
          /\ UNCHANGED <<row, beat, ended>>
          /\ \A q \in Process \ {p} : lost'[q] = lost[q] /\ delta'[q] = delta[q]
      BY <1>7 DEF Die, TypeInv
    <2>2. \A o \in Outcome : lost'[p][o] = lost[p][o] + delta[p][o] /\ delta'[p][o] = 0
      BY <1>0, <2>1, Sums
    <2>3. \A o \in Outcome : ended'[p][o] = Held(p, o)' + lost'[p][o]
      BY <1>0, <2>1, <2>2 DEF CountInv, Held
    <2>4. QED
      BY <2>1, <2>3, CountKept
  <1>8. CASE Tick \/ \E j \in Job : Reset(j)
    BY <1>8 DEF Tick, Reset, LoopOnly, CountInv, Held
  <1>9. QED
    BY <1>1, <1>2, <1>3, <1>4, <1>5, <1>6, <1>7, <1>8 DEF Next, PollStep

\* processed_jobs and failed_jobs never count a job twice, and what they miss was
\* in a heartbeat that failed or a process that died.
THEOREM Counted == ASSUME Durations PROVE Spec => []CountsAddUp
  <1>1. Init => TypeInv /\ CountInv
    BY TypeInit, CountInit
  <1>2. TypeInv /\ CountInv /\ [Next]_vars => (TypeInv /\ CountInv)'
    BY Durations, TypeStep, CountStep
  <1>3. TypeInv /\ CountInv => CountsAddUp
    <2> SUFFICES ASSUME TypeInv, CountInv, NEW p \in Process, NEW o \in Outcome
                 PROVE  Held(p, o) <= ended[p][o] /\ ended[p][o] <= Held(p, o) + lost[p][o]
      BY DEF CountsAddUp, Held
    <2>1. /\ row[p].counts[o] \in Nat /\ delta[p][o] \in Nat /\ beat[p].counts[o] \in Nat
          /\ lost[p][o] \in Nat
      BY DEF TypeInv, BeatRow, Count
    <2>2. QED
      BY <2>1 DEF CountInv, Held
  <1>4. QED
    BY <1>1, <1>2, <1>3, PTL DEF Spec

-----------------------------------------------------------------------------
(***************************************************************************)
(* Time.  A statement ends within Latency; a process that runs has always  *)
(* a next heartbeat that is not overdue.                                   *)
(***************************************************************************)
TimeInv ==
  \A p \in Process :
    /\ Beating(p) => beat[p].at <= now /\ now <= beat[p].at + Latency /\ beat[p].status # "none"
    /\ row[p] # NoRow => row[p].status # "none" /\ row[p].at <= now
    /\ state[p] = "new" => row[p] = NoRow /\ ~Beating(p)
    /\ state[p] = "down" => /\ since[p] <= now
                            /\ Beating(p) => beat[p].at <= since[p]
                            /\ row[p].at <= since[p] + Latency
    /\ Up(p) => /\ ~Beating(p) => now <= next[p]
                /\ sound[p] /\ row[p] # NoRow =>
                     IF Beating(p) THEN beat[p].at <= row[p].at + Interval
                                   ELSE next[p] = row[p].at + Interval

LEMMA TimeInit == Init => TimeInv
  BY DEF Init, TimeInv, Beating, Up, NoRow, NoBeat

LEMMA TimeStep == Timing /\ TypeInv /\ TimeInv /\ [Next]_vars => TimeInv'
  <1> SUFFICES ASSUME Timing, TypeInv, TimeInv, [Next]_vars PROVE TimeInv'
    OBVIOUS
  <1>0. ASSUME NEW p \in Process
        PROVE  /\ now \in Nat /\ since[p] \in Nat /\ next[p] \in Nat
               /\ beat[p].at \in Nat /\ row[p].at \in Nat
               /\ Interval \in Nat /\ Latency \in Nat
    BY DEF TypeInv, BeatRow, Timing, Durations
  <1>1. CASE UNCHANGED vars
    BY <1>1 DEF vars, TimeInv, Beating, Up
  <1>2. ASSUME NEW p \in Process, Start(p) PROVE TimeInv'
    <2>1. /\ UNCHANGED <<now, beat, row, sound>> /\ state[p] = "new"
          /\ state'[p] = "up" /\ next'[p] = now /\ UNCHANGED since
          /\ \A q \in Process \ {p} : state'[q] = state[q] /\ next'[q] = next[q]
      BY <1>2 DEF Start, TypeInv
    <2>2. QED
      BY <1>0, <2>1 DEF TimeInv, Beating, Up
  <1>3. ASSUME NEW p \in Process,
               PollStep(p) \/ \E o \in Outcome : Record(p, o)
        PROVE  TimeInv'
    <2>1. UNCHANGED <<now, state, since, beat, next, row, sound>>
      BY <1>3 DEF PollStep, Claim, FindNothing, PollFails, LoopOnly, Record
    <2>2. QED
      BY <2>1 DEF TimeInv, Beating, Up
  <1>4. ASSUME NEW p \in Process, Take(p) PROVE TimeInv'
    <2>1. /\ UNCHANGED <<now, state, since, next, row, sound>>
          /\ state[p] = "up" /\ beat[p] = NoBeat /\ now >= next[p]
          /\ beat'[p].at = now /\ beat'[p].status # "none"
          /\ \A q \in Process \ {p} : beat'[q] = beat[q]
      BY <1>4 DEF Take, Due, Up, Beating, TypeInv
    <2>2. beat'[p] # NoBeat
      BY <2>1 DEF NoBeat
    <2>3. QED
      BY <1>0, <2>1, <2>2 DEF TimeInv, Beating, Up
  <1>5. ASSUME NEW p \in Process, Beat(p) PROVE TimeInv'
    <2>1. /\ UNCHANGED <<now, state, since>> /\ beat[p] # NoBeat
          /\ row'[p].at = now /\ row'[p].status = beat[p].status
          /\ beat'[p] = NoBeat /\ (Up(p) => next'[p] = now + Interval)
          /\ \A q \in Process \ {p} : /\ beat'[q] = beat[q] /\ row'[q] = row[q]
                                      /\ next'[q] = next[q] /\ sound'[q] = sound[q]
      BY <1>5 DEF Beat, Rests, Beating, TypeInv
    <2>2. QED
      BY <1>0, <2>1 DEF TimeInv, Beating, Up
  <1>6. ASSUME NEW p \in Process, BeatFails(p) PROVE TimeInv'
    <2>1. /\ UNCHANGED <<now, state, since, row>>
          /\ beat'[p] = NoBeat /\ (Up(p) => next'[p] = now + Interval) /\ ~sound'[p]
          /\ \A q \in Process \ {p} : /\ beat'[q] = beat[q] /\ next'[q] = next[q]
                                      /\ sound'[q] = sound[q]
      BY <1>6 DEF BeatFails, Rests, TypeInv
    <2>2. QED
      BY <1>0, <2>1 DEF TimeInv, Beating, Up
  <1>7. ASSUME NEW p \in Process, Die(p) PROVE TimeInv'
    <2>1. /\ UNCHANGED <<now, beat, row>>
          /\ state[p] = "up" /\ state'[p] = "down" /\ since'[p] = now
          /\ \A q \in Process \ {p} : /\ state'[q] = state[q] /\ since'[q] = since[q]
                                      /\ next'[q] = next[q] /\ sound'[q] = sound[q]
      BY <1>7 DEF Die, Up, TypeInv
    <2>2. row[p].at <= now
      BY <1>0 DEF TimeInv, NoRow
    <2>3. QED
      BY <1>0, <2>1, <2>2 DEF TimeInv, Beating, Up
  <1>8. CASE Tick
    <2>1. /\ now' = now + 1 /\ UNCHANGED <<state, since, beat, next, row, sound>>
          /\ \A p \in Process : /\ Beating(p) => now < beat[p].at + Latency
                                /\ Up(p) /\ ~Beating(p) => now < next[p]
      BY <1>0, <1>8 DEF Tick, Due
    <2>2. QED
      BY <1>0, <2>1 DEF TimeInv, Beating, Up
  <1>9. CASE \E j \in Job : Reset(j)
    BY <1>9 DEF Reset, LoopOnly, TimeInv, Beating, Up
  <1>10. QED
    BY <1>1, <1>2, <1>3, <1>4, <1>5, <1>6, <1>7, <1>8, <1>9 DEF Next, PollStep

-----------------------------------------------------------------------------
(***************************************************************************)
(* Locks.  A process that sleeps has recovered all that had expired when   *)
(* it polled, and those that were taken since are younger.                 *)
(***************************************************************************)
WaitInv ==
  /\ \A p \in Process : ~Up(p) \/ job[p] # NoJob => wait[p] = 0
  /\ \A p \in Process : Waits(p) =>
       /\ wait[p] <= PollEvery
       /\ \A j \in Job : lock[j] # NULL =>
            now + wait[p] <= lock[j] + LockTimeout + PollEvery

\* Nothing is locked at first.
LEMMA WaitInit == Init => WaitInv
  BY DEF Init, WaitInv, Waits, Up

\* Every step leaves sleeping processes with young locks.
LEMMA WaitStep == Durations /\ TypeInv /\ WaitInv /\ [Next]_vars => WaitInv'
  <1> SUFFICES ASSUME Durations, TypeInv, WaitInv, [Next]_vars PROVE WaitInv'
    OBVIOUS
  <1>0. ASSUME NEW p \in Process, NEW j \in Job
        PROVE  /\ now \in Nat /\ wait[p] \in Nat /\ (lock[j] # NULL => lock[j] \in Nat)
               /\ LockTimeout \in Nat /\ PollEvery \in Nat
    BY DEF TypeInv, Durations
  <1>1. CASE UNCHANGED <<now, state, status, jobVars>>
    BY <1>1 DEF WaitInv, Waits, Up, jobVars
  <1>2. ASSUME NEW p \in Process, Start(p) PROVE WaitInv'
    <2>1. /\ wait[p] = 0 /\ UNCHANGED <<now, status, job, wait, lock>>
          /\ \A q \in Process \ {p} : state'[q] = state[q]
      BY <1>2 DEF Start, WaitInv, Up, TypeInv, jobVars
    <2>2. QED
      BY <2>1 DEF WaitInv, Waits, Up
  <1>3. ASSUME NEW p \in Process, PollStep(p) PROVE WaitInv'
    <2>1. /\ Up(p) /\ job[p] = NoJob /\ wait[p] = 0 /\ UNCHANGED <<now, state>>
          /\ \A q \in Process \ {p} : job'[q] = job[q] /\ wait'[q] = wait[q] /\ status'[q] = status[q]
          /\ \/ status'[p] = "processing" /\ wait'[p] = wait[p]
             \/ status'[p] = "queue_error" /\ job'[p] = job[p]
             \/ /\ status'[p] = "idle" /\ wait'[p] = PollEvery /\ job'[p] = job[p]
                /\ \A j \in Job : lock'[j] # NULL => lock'[j] = lock[j] /\ ~Stale(j)
          /\ \A j \in Job : lock'[j] \in {NULL, lock[j], now}
      BY <1>3, PollEffect DEF Polls, LoopOnly
    <2>2. ASSUME NEW q \in Process, ~Up(q)' \/ job'[q] # NoJob PROVE wait'[q] = 0
      BY <2>1, <2>2 DEF WaitInv, Up
    <2>3. ASSUME NEW q \in Process, Waits(q)', q # p
          PROVE  /\ wait'[q] <= PollEvery
                 /\ \A j \in Job : lock'[j] # NULL =>
                      now' + wait'[q] <= lock'[j] + LockTimeout + PollEvery
      <3>1. Waits(q)
        BY <2>1, <2>3 DEF Waits, Up
      <3>2. QED
        BY <1>0, <2>1, <2>3, <3>1 DEF WaitInv
    <2>4. ASSUME Waits(p)'
          PROVE  /\ wait'[p] <= PollEvery
                 /\ \A j \in Job : lock'[j] # NULL =>
                      now' + wait'[p] <= lock'[j] + LockTimeout + PollEvery
      <3>1. /\ wait'[p] = PollEvery /\ now' = now
            /\ \A j \in Job : lock'[j] # NULL => lock'[j] = lock[j] /\ ~Stale(j)
        BY <2>1, <2>4 DEF Waits
      <3>2. ASSUME NEW j \in Job, lock'[j] # NULL
            PROVE  now' + wait'[p] <= lock'[j] + LockTimeout + PollEvery
        BY <1>0, <3>1, <3>2 DEF Stale
      <3>3. PollEvery \in Nat
        BY DEF Durations
      <3>4. QED
        BY <3>1, <3>2, <3>3
    <2>5. QED
      BY <2>2, <2>3, <2>4 DEF WaitInv
  <1>4. ASSUME NEW p \in Process, NEW o \in Outcome, Record(p, o) PROVE WaitInv'
    <2>1. /\ wait[p] = 0 /\ UNCHANGED <<now, state, wait>> /\ job'[p] = NoJob
          /\ \A q \in Process \ {p} : status'[q] = status[q] /\ job'[q] = job[q]
          /\ \A j \in Job : lock'[j] \in {lock[j], NULL}
      BY <1>4 DEF Record, SetStatus, TypeInv, WaitInv
    <2>2. QED
      BY <2>1 DEF WaitInv, Waits, Up
  <1>5. ASSUME NEW p \in Process, Die(p) PROVE WaitInv'
    <2>1. /\ UNCHANGED <<now, lock>> /\ state'[p] = "down" /\ wait'[p] = 0
          /\ \A q \in Process \ {p} : /\ state'[q] = state[q] /\ wait'[q] = wait[q]
                                      /\ status'[q] = status[q] /\ job'[q] = job[q]
      BY <1>5 DEF Die, SetStatus, TypeInv
    <2>2. QED
      BY <2>1 DEF WaitInv, Waits, Up
  <1>6. ASSUME NEW j \in Job, Reset(j) PROVE WaitInv'
    <2>1. /\ UNCHANGED <<now, state, status, job, wait>>
          /\ \A k \in Job : lock'[k] \in {lock[k], NULL}
      BY <1>6 DEF Reset, LoopOnly, TypeInv
    <2>2. QED
      BY <2>1 DEF WaitInv, Waits, Up
  <1>7. CASE Tick
    <2>1. /\ now' = now + 1 /\ UNCHANGED <<state, status, job, lock>>
          /\ \A p \in Process : wait'[p] = IF wait[p] = 0 THEN 0 ELSE wait[p] - 1
      BY <1>7 DEF Tick
    <2>2. ASSUME NEW p \in Process, Waits(p)'
          PROVE  Waits(p) /\ now' + wait'[p] = now + wait[p] /\ wait'[p] <= wait[p]
      <3>1. wait[p] \in Nat /\ now \in Nat
        BY DEF TypeInv
      <3>2. QED
        BY <2>1, <2>2, <3>1 DEF Waits, Up
    <2>3. ASSUME NEW p \in Process, Waits(p)'
          PROVE  /\ wait'[p] <= PollEvery
                 /\ \A j \in Job : lock'[j] # NULL =>
                      now' + wait'[p] <= lock'[j] + LockTimeout + PollEvery
      <3>1. wait[p] \in Nat /\ wait'[p] \in Nat /\ PollEvery \in Nat
        BY <2>1 DEF TypeInv, Durations
      <3>2. QED
        BY <2>1, <2>2, <2>3, <3>1 DEF WaitInv
    <2>4. ASSUME NEW p \in Process, ~Up(p)' \/ job'[p] # NoJob PROVE wait'[p] = 0
      BY <2>1, <2>4 DEF WaitInv, Up
    <2>5. QED
      BY <2>3, <2>4 DEF WaitInv
  <1>8. CASE \E p \in Process : Take(p) \/ Beat(p) \/ BeatFails(p)
    BY <1>1, <1>8 DEF Take, Beat, BeatFails
  <1>9. QED
    BY <1>1, <1>2, <1>3, <1>4, <1>5, <1>6, <1>7, <1>8 DEF Next, PollStep, vars

\* The readiness check notices that no worker is left, takes none that runs for
\* dead, and forgets the lock of a dead or slow run one poll after it has expired
\* at the latest while some worker waits for jobs, for all durations with Timing.
THEOREM Timely == ASSUME Timing PROVE Spec => []ReadinessIsTimely
  <1>1. Init => TypeInv /\ TimeInv /\ WaitInv
    BY TypeInit, TimeInit, WaitInit
  <1>2. TypeInv /\ TimeInv /\ WaitInv /\ [Next]_vars => (TypeInv /\ TimeInv /\ WaitInv)'
    BY Timing, TypeStep, TimeStep, WaitStep DEF Timing
  <1>3. TypeInv /\ TimeInv /\ WaitInv => ReadinessIsTimely
    <2> SUFFICES ASSUME TypeInv, TimeInv, WaitInv PROVE ReadinessIsTimely
      OBVIOUS
    <2>1. ASSUME NEW p \in Process, ~Up(p), state[p] = "down" => now > since[p] + Latency + StaleAfter
          PROVE  ~Healthy(p)
      <3>1. /\ now \in Nat /\ since[p] \in Nat /\ row[p].at \in Nat
            /\ StaleAfter \in Nat /\ Latency \in Nat
        BY Timing DEF TypeInv, BeatRow, Timing, Durations
      <3>2. state[p] \in {"new", "down"}
        BY <2>1 DEF TypeInv, Up
      <3>3. QED
        BY <2>1, <3>1, <3>2 DEF TimeInv, Healthy
    <2>2. ASSUME NEW p \in Process, Sound(p) PROVE  Healthy(p)
      <3>1. /\ now \in Nat /\ next[p] \in Nat /\ row[p].at \in Nat /\ beat[p].at \in Nat
            /\ Interval \in Nat /\ StaleAfter \in Nat /\ Latency \in Nat
            /\ Interval + Latency <= StaleAfter
        BY Timing DEF TypeInv, BeatRow, Timing, Durations
      <3>2. row[p] # NoRow
        BY <2>2 DEF Sound, NoRow
      <3>3. now - row[p].at <= StaleAfter
        BY <2>2, <3>1, <3>2 DEF Sound, TimeInv, Beating
      <3>4. QED
        BY <2>2, <3>2, <3>3 DEF Sound, Healthy
    <2>3. ASSUME NEW p \in Process, Waits(p), NEW j \in Job, Stale(j)
          PROVE  now - lock[j] <= LockTimeout + PollEvery
      <3>1. /\ now \in Nat /\ wait[p] \in Nat /\ lock[j] # NULL /\ lock[j] \in Nat
            /\ LockTimeout \in Nat /\ PollEvery \in Nat
        BY <2>3, Timing DEF TypeInv, Stale, Timing, Durations
      <3>2. now + wait[p] <= lock[j] + LockTimeout + PollEvery
        BY <2>3, <3>1 DEF WaitInv
      <3>3. QED
        BY <3>1, <3>2
    <2>4. QED
      BY <2>1, <2>2, <2>3 DEF ReadinessIsTimely, Ready, QueueCheck, WorkerCheck
  <1>4. QED
    BY <1>1, <1>2, <1>3, PTL DEF Spec
=============================================================================
