--------------------------- MODULE JobQueue_proofs --------------------------
(***************************************************************************)
(* Theorems about JobQueue for every set of workers and jobs and every     *)
(* value of the bounds, and about the delay before a retry for every       *)
(* attempt number.                                                         *)
(***************************************************************************)
EXTENDS JobQueue, RetryDelay, TLAPS

\* A snapshot of a row is never the empty snapshot.
LEMMA NoRowIsNoSnapshot == NoRow \notin Snapshot
  BY ConstantsAssumption DEF NoRow, Snapshot

\* A running worker has the snapshot of a real row.
LEMMA HeldType ==
  ASSUME TypeOK, NEW w \in Worker, Running(w)
  PROVE  /\ held[w] \in Snapshot
         /\ held[w].job \in Job /\ held[w].row \in Nat
         /\ held[w].attempt_count \in Nat /\ held[w].payload \in Nat
  <1>1. held[w] \in Snapshot
    BY DEF TypeOK
  <1>2. QED
    BY <1>1 DEF Snapshot

\* Enqueueing keeps every type.
LEMMA EnqueueType ==
  ASSUME TypeOK, NEW j \in Job,
         EnqueueWebhook(j) \/ EnqueueInvite(j) \/ EnqueuePlain(j)
  PROVE  TypeOK'
  <1>1. /\ status' \in [Job -> Status] /\ attempt_count' \in [Job -> Nat]
        /\ payload' \in [Job -> Nat] /\ due' \in [Job -> BOOLEAN]
        /\ locked_by' \in [Job -> Worker \cup {NoWorker}]
        /\ expired' \in [Job -> BOOLEAN] /\ runs' \in [Job -> Nat]
    <2>1. CASE FreshRow(j)
      <3>1. payload' \in [Job -> Nat]
        BY <2>1 DEF TypeOK, FreshRow
      <3>2. attempt_count' \in [Job -> Nat] /\ runs' \in [Job -> Nat]
        BY <2>1 DEF TypeOK, FreshRow
      <3>3. /\ status' \in [Job -> Status] /\ due' \in [Job -> BOOLEAN]
            /\ locked_by' \in [Job -> Worker \cup {NoWorker}]
            /\ expired' \in [Job -> BOOLEAN]
        BY <2>1 DEF TypeOK, FreshRow, Status
      <3>4. QED
        BY <3>1, <3>2, <3>3
    <2>2. CASE EnqueueInvite(j) /\ ~FreshRow(j)
      <3>1. payload' \in [Job -> Nat]
        BY <2>2 DEF TypeOK, EnqueueInvite
      <3>2. /\ status' \in [Job -> Status] /\ due' \in [Job -> BOOLEAN]
            /\ UNCHANGED <<attempt_count, locked_by, expired, runs>>
        BY <2>2 DEF TypeOK, EnqueueInvite, Status
      <3>3. QED
        BY <3>1, <3>2 DEF TypeOK
    <2>3. CASE EnqueuePlain(j) /\ ~FreshRow(j)
      BY <2>3 DEF TypeOK, EnqueuePlain
    <2>4. QED
      BY <2>1, <2>2, <2>3 DEF EnqueueWebhook
  <1>2. requested' \in [Job -> Nat] /\ overlapped' \in [Job -> BOOLEAN]
    <2>1. InFlight(j) \in BOOLEAN
      BY DEF InFlight
    <2>2. QED
      BY <2>1 DEF TypeOK, EnqueueWebhook, EnqueueInvite, EnqueuePlain, Accept
  <1>3. UNCHANGED <<row, pc, held, crashes, served>>
    BY DEF EnqueueWebhook, EnqueueInvite, EnqueuePlain
  <1>4. QED
    BY <1>1, <1>2, <1>3 DEF TypeOK, Running

\* Every step keeps every type.
LEMMA TypeStep == TypeOK /\ [Next]_vars => TypeOK'
  <1> SUFFICES ASSUME TypeOK, [Next]_vars PROVE TypeOK'
    OBVIOUS
  <1>1. ASSUME NEW j \in Job, EnqueueWebhook(j) \/ EnqueueInvite(j) \/ EnqueuePlain(j)
        PROVE  TypeOK'
    BY <1>1, EnqueueType
  <1>2. ASSUME NEW j \in Job, DeleteInvite(j) PROVE TypeOK'
    BY <1>2 DEF TypeOK, DeleteInvite, Running, Status
  <1>3. ASSUME NEW j \in Job, BecomeDue(j) \/ Expire(j) PROVE TypeOK'
    BY <1>3 DEF TypeOK, BecomeDue, Expire, Running, history
  <1>4. ASSUME NEW w \in Worker, Poll(w) PROVE TypeOK'
    BY <1>4 DEF TypeOK, Poll, Recover, Running, history, Status, Stale
  <1>5. ASSUME NEW w \in Worker, ClaimSome(w) PROVE TypeOK'
    <2>1. PICK j \in Job : Claim(w, j)
      BY <1>5 DEF ClaimSome
    <2>2. [job |-> j, row |-> row[j], attempt_count |-> attempt_count[j],
           payload |-> payload[j]] \in Snapshot
      BY DEF TypeOK, Snapshot
    <2>3. /\ held' \in [Worker -> Snapshot \cup {NoRow}]
          /\ held'[w] # NoRow
          /\ \A v \in Worker \ {w} : held'[v] = held[v] /\ pc'[v] = pc[v]
          /\ pc'[w] = "handle"
      BY <2>1, <2>2, NoRowIsNoSnapshot DEF Claim, TypeOK
    <2>4. \A v \in Worker : Running(v)' <=> held'[v] # NoRow
      BY <2>3 DEF TypeOK, Running
    <2>5. QED
      BY <2>1, <2>3, <2>4 DEF TypeOK, Claim, Status
  <1>6. ASSUME NEW w \in Worker, ClaimNothing(w) \/ Restart(w) PROVE TypeOK'
    BY <1>6 DEF TypeOK, ClaimNothing, Restart, Running, rowVars, history
  <1>7. ASSUME NEW w \in Worker, HandleOk(w) PROVE TypeOK'
    <2>1. Running(w)
      BY <1>7 DEF HandleOk, Running
    <2>2. held[w].job \in Job /\ Sees(w) \in Nat
      BY <2>1, HeldType DEF Sees, TypeOK
    <2>3. served' \in [Job -> Nat]
      BY <1>7, <2>2 DEF HandleOk, TypeOK, Newer
    <2>4. QED
      BY <1>7, <2>3 DEF TypeOK, HandleOk, Running, rowVars
  <1>8. ASSUME NEW w \in Worker, HandleErr(w) PROVE TypeOK'
    BY <1>8 DEF TypeOK, HandleErr, Running, rowVars, history
  <1>9. ASSUME NEW w \in Worker, AfterReport(w) \/ Crash(w)
        PROVE  /\ held' \in [Worker -> Snapshot \cup {NoRow}]
               /\ pc' \in [Worker -> {"poll", "claim", "handle", "succeeded", "failed", "down"}]
               /\ \A v \in Worker : Running(v)' <=> held'[v] # NoRow
               /\ crashes' \in Nat
    BY <1>9 DEF TypeOK, AfterReport, Crash, Running
  <1>10. ASSUME NEW w \in Worker, MarkDone(w) PROVE TypeOK'
    BY <1>9, <1>10 DEF TypeOK, MarkDone, history, Status
  <1>11. ASSUME NEW w \in Worker, RescheduleFailed(w) PROVE TypeOK'
    <2>1. held[w].attempt_count \in Nat
      BY <1>11, HeldType DEF RescheduleFailed, Running
    <2>2. attempt_count' \in [Job -> Nat]
      BY <1>11, <2>1 DEF TypeOK, RescheduleFailed
    <2>3. /\ status' \in [Job -> Status] /\ due' \in [Job -> BOOLEAN]
          /\ locked_by' \in [Job -> Worker \cup {NoWorker}]
          /\ expired' \in [Job -> BOOLEAN]
      BY <1>11 DEF TypeOK, RescheduleFailed, Status
    <2>4. QED
      BY <1>9, <1>11, <2>2, <2>3 DEF TypeOK, RescheduleFailed, history
  <1>12. ASSUME NEW w \in Worker, Crash(w) PROVE TypeOK'
    BY <1>9, <1>12 DEF TypeOK, Crash, rowVars, history
  <1>13. CASE UNCHANGED vars
    BY <1>13 DEF TypeOK, vars, rowVars, history, Running
  <1>14. QED
    BY <1>1, <1>2, <1>3, <1>4, <1>5, <1>6, <1>7, <1>8, <1>10, <1>11, <1>12, <1>13
       DEF Next, Job

\* The type invariant holds in every reachable state.
THEOREM TypeCorrect == Spec => []TypeOK
  <1>1. Init => TypeOK
    BY DEF Init, TypeOK, Running, Status, NoRow
  <1>2. QED
    BY <1>1, TypeStep, PTL DEF Spec

-----------------------------------------------------------------------------
(***************************************************************************)
(* No lost request.  NoLostRequest speaks of done rows only; it is kept by *)
(* mark_done because of what holds earlier, of every worker whose report   *)
(* can still reach the row: its snapshot is the row's present payload.     *)
(***************************************************************************)

\* j's latest request did not overlap a run, or could not replace the payload.
Clean(j) == j \in PlainJob \/ ~overlapped[j]

DoneIsServed ==
  \A j \in Job : status[j] = "done" /\ Clean(j) => served[j] >= payload[j]

RequestInv ==
  /\ \A j \in Job : payload[j] <= requested[j]
  /\ \A w \in Worker : Running(w) => held[w].row <= row[held[w].job]
  /\ \A j \in Job : \A w \in Worker :
       Holds(w, j) =>
         /\ status[j] # "absent"
         /\ Clean(j) => held[w].payload = payload[j]
         /\ Clean(j) /\ pc[w] = "succeeded" => served[j] >= payload[j]
  /\ DoneIsServed

LEMMA RequestInit == Init => RequestInv
  BY DEF Init, RequestInv, DoneIsServed, Running, Holds

\* Steps that leave the workers, payloads and history alone, and turn no row
\* into an absent or a done one, keep the invariant.
LEMMA RequestFrame ==
  ASSUME TypeOK, RequestInv,
         UNCHANGED <<payload, row, held, requested, served, overlapped>>,
         \A w \in Worker : Running(w)' => Running(w) /\ pc'[w] \in {pc[w], "failed"},
         \A j \in Job : status'[j] \in {"absent", "done"} => status'[j] = status[j]
  PROVE  RequestInv'
  BY DEF RequestInv, DoneIsServed, Clean, Holds, Running, TypeOK

\* An accepted request keeps it: either no worker runs the job, and the new
\* payload is what the next run will see, or the overlap is recorded.
LEMMA RequestEnqueue ==
  ASSUME TypeOK, RequestInv, NEW j \in Job, Accept(j),
         UNCHANGED <<row, pc, held, served>>,
         \/ /\ payload' = [payload EXCEPT ![j] = requested[j] + 1]
            /\ status' = [status EXCEPT ![j] = "pending"]
            /\ j \in PlainJob => status[j] = "absent"
         \/ j \in PlainJob /\ UNCHANGED <<payload, status>>
  PROVE  RequestInv'
  <1>1. /\ requested' = [requested EXCEPT ![j] = @ + 1]
        /\ overlapped' = [overlapped EXCEPT ![j] = InFlight(j)]
    BY DEF Accept
  <1>2. \A k \in Job : payload'[k] <= requested'[k]
    BY <1>1 DEF TypeOK, RequestInv
  <1>3. \A k \in Job : \A w \in Worker : Holds(w, k)' <=> Holds(w, k)
    BY DEF Holds, Running
  <1>4. \A k \in Job \ {j} :
          /\ Clean(k)' <=> Clean(k)
          /\ payload'[k] = payload[k] /\ status'[k] = status[k]
    BY <1>1 DEF TypeOK, Clean
  <1>5. ASSUME NEW w \in Worker, Holds(w, j) PROVE
          /\ status'[j] # "absent"
          /\ Clean(j)' => UNCHANGED <<payload, status>> /\ j \in PlainJob
    <2>1. InFlight(j) /\ status[j] # "absent"
      BY <1>5 DEF InFlight, RequestInv
    <2>2. overlapped'[j]
      BY <1>1, <2>1 DEF TypeOK
    <2>3. status'[j] # "absent"
      BY <2>1 DEF TypeOK
    <2>4. Clean(j)' => UNCHANGED <<payload, status>> /\ j \in PlainJob
      BY <2>1, <2>2 DEF Clean
    <2>5. QED
      BY <2>3, <2>4
  <1>6. status'[j] = "done" => j \in PlainJob /\ UNCHANGED <<payload, status>>
    BY DEF TypeOK
  <1>7. DoneIsServed'
    BY <1>4, <1>6 DEF RequestInv, DoneIsServed, Clean
  <1>8. ASSUME NEW k \in Job, NEW w \in Worker, Holds(w, k)' PROVE
          /\ status'[k] # "absent"
          /\ Clean(k)' => held'[w].payload = payload'[k]
          /\ Clean(k)' /\ pc'[w] = "succeeded" => served'[k] >= payload'[k]
    <2>1. Holds(w, k)
      BY <1>3, <1>8
    <2>2. CASE k # j
      BY <2>1, <2>2, <1>4 DEF RequestInv
    <2>3. CASE k = j
      <3>1. status'[j] # "absent"
        BY <2>1, <2>3, <1>5
      <3>2. CASE Clean(j)'
        <4>1. UNCHANGED <<payload, status>> /\ j \in PlainJob
          BY <2>1, <2>3, <3>2, <1>5
        <4>2. Clean(j)
          BY <4>1 DEF Clean
        <4>3. QED
          BY <2>1, <2>3, <3>1, <4>1, <4>2 DEF RequestInv
      <3>3. QED
        BY <2>3, <3>1, <3>2
    <2>4. QED
      BY <2>2, <2>3
  <1>9. \A w \in Worker : Running(w)' => held'[w].row <= row'[held'[w].job]
    BY DEF RequestInv, Running
  <1>10. QED
    BY <1>2, <1>7, <1>8, <1>9 DEF RequestInv

\* Deleting the row of an invitation detaches every worker that still runs it.
LEMMA RequestDelete ==
  ASSUME TypeOK, RequestInv, NEW j \in Job, DeleteInvite(j)
  PROVE  RequestInv'
  <1>1. /\ status' = [status EXCEPT ![j] = "absent"]
        /\ row' = [row EXCEPT ![j] = @ + 1]
        /\ UNCHANGED <<payload, pc, held, requested, served, overlapped>>
    BY DEF DeleteInvite
  <1>2. ASSUME NEW w \in Worker, Running(w)
        PROVE  held[w].job \in Job /\ held[w].row \in Nat
               /\ held[w].row <= row[held[w].job]
    BY <1>2, HeldType DEF RequestInv
  <1>3. \A w \in Worker : ~Holds(w, j)'
    <2> SUFFICES ASSUME NEW w \in Worker, Holds(w, j)' PROVE FALSE
      OBVIOUS
    <2>1. Running(w) /\ held[w].job = j /\ held[w].row = row[j] + 1
      BY <1>1 DEF Holds, Running, TypeOK
    <2>2. held[w].row <= row[j] /\ row[j] \in Nat
      BY <2>1, <1>2 DEF TypeOK
    <2>3. QED
      BY <2>1, <2>2
  <1>4. \A w \in Worker : Running(w)' => held'[w].row <= row'[held'[w].job]
    BY <1>1, <1>2 DEF Running, TypeOK
  <1>5. \A k \in Job \ {j} : status'[k] = status[k] /\ row'[k] = row[k]
    BY <1>1 DEF TypeOK
  <1>6. \A k \in Job \ {j} : \A w \in Worker : Holds(w, k)' <=> Holds(w, k)
    BY <1>1, <1>5 DEF Holds, Running
  <1>7. status'[j] = "absent"
    BY <1>1 DEF TypeOK
  <1>8. QED
    BY <1>1, <1>3, <1>4, <1>5, <1>6, <1>7 DEF RequestInv, DoneIsServed, Clean

\* A claim takes a snapshot of the row as it is.
LEMMA RequestClaim ==
  ASSUME TypeOK, RequestInv, NEW w \in Worker, NEW j \in Job, Claim(w, j)
  PROVE  RequestInv'
  <1>1. /\ status[j] = "pending" /\ pc[w] = "claim"
        /\ status' = [status EXCEPT ![j] = "processing"]
        /\ held'[w].job = j /\ held'[w].row = row[j] /\ held'[w].payload = payload[j]
        /\ pc'[w] = "handle"
        /\ \A v \in Worker \ {w} : held'[v] = held[v] /\ pc'[v] = pc[v]
        /\ UNCHANGED <<payload, row, requested, served, overlapped>>
    BY DEF Claim, TypeOK
  <1>2. \A v \in Worker \ {w} : \A k \in Job : Holds(v, k)' <=> Holds(v, k)
    BY <1>1 DEF Holds, Running
  <1>3. \A k \in Job : Holds(w, k)' => k = j
    BY <1>1 DEF Holds
  <1>4. \A k \in Job : status'[k] = IF k = j THEN "processing" ELSE status[k]
    BY <1>1 DEF TypeOK
  <1>5. \A v \in Worker : Running(v)' => held'[v].row <= row'[held'[v].job]
    BY <1>1 DEF Running, RequestInv, TypeOK
  <1>6. ASSUME NEW v \in Worker, NEW k \in Job, Holds(v, k)' PROVE
          /\ status'[k] # "absent"
          /\ Clean(k)' => held'[v].payload = payload'[k]
          /\ Clean(k)' /\ pc'[v] = "succeeded" => served'[k] >= payload'[k]
    <2>1. CASE v = w
      BY <2>1, <1>1, <1>3, <1>4, <1>6
    <2>2. CASE v # w
      BY <2>2, <1>1, <1>2, <1>4, <1>6 DEF RequestInv, Clean
    <2>3. QED
      BY <2>1, <2>2
  <1>7. DoneIsServed'
    BY <1>1, <1>4 DEF RequestInv, DoneIsServed, Clean
  <1>8. (\A k \in Job : payload[k] <= requested[k])'
    BY <1>1 DEF RequestInv
  <1>9. QED
    BY <1>5, <1>6, <1>7, <1>8 DEF RequestInv

\* A successful run serves the payload the row has, or a newer request.
LEMMA RequestHandle ==
  ASSUME TypeOK, RequestInv, NEW w \in Worker, HandleOk(w)
  PROVE  RequestInv'
  <1> DEFINE j == held[w].job
  <1>1. /\ pc[w] = "handle" /\ Running(w) /\ j \in Job /\ held[w].payload \in Nat
    BY HeldType DEF HandleOk, Running
  <1>2. Sees(w) \in Nat
    BY <1>1 DEF Sees, TypeOK
  <1>3. /\ served'[j] >= served[j] /\ served'[j] >= Sees(w)
        /\ \A k \in Job \ {j} : served'[k] = served[k]
    BY <1>1, <1>2 DEF HandleOk, Newer, TypeOK
  <1>4. /\ pc'[w] = "succeeded"
        /\ \A v \in Worker \ {w} : pc'[v] = pc[v]
        /\ UNCHANGED <<status, payload, row, held, requested, overlapped>>
    BY DEF HandleOk, TypeOK, rowVars
  <1>5. \A v \in Worker : \A k \in Job : Holds(v, k)' <=> Holds(v, k)
    BY <1>1, <1>4 DEF Holds, Running
  <1>6. \A k \in Job : /\ served'[k] >= served[k]
                       /\ served[k] \in Nat /\ payload[k] \in Nat /\ served'[k] \in Nat
    BY <1>1, <1>2, <1>3 DEF HandleOk, Newer, TypeOK
  <1>7. Holds(w, j) /\ Clean(j) => Sees(w) >= payload[j]
    BY <1>1 DEF RequestInv, Sees, TypeOK
  <1>8. ASSUME NEW v \in Worker, NEW k \in Job, Holds(v, k)' PROVE
          /\ status'[k] # "absent"
          /\ Clean(k)' => held'[v].payload = payload'[k]
          /\ Clean(k)' /\ pc'[v] = "succeeded" => served'[k] >= payload'[k]
    <2>1. Holds(v, k) /\ (Clean(k)' <=> Clean(k))
      BY <1>4, <1>5, <1>8 DEF Clean
    <2>2. status'[k] # "absent" /\ (Clean(k)' => held'[v].payload = payload'[k])
      BY <2>1, <1>4 DEF RequestInv
    <2>3. CASE v = w
      <3>1. k = j
        BY <2>1, <2>3 DEF Holds
      <3>2. Clean(k)' => served'[k] >= payload'[k]
        BY <2>1, <2>3, <3>1, <1>2, <1>3, <1>4, <1>6, <1>7
      <3>3. QED
        BY <2>2, <3>2
    <2>4. CASE v # w
      <3>1. Clean(k)' /\ pc'[v] = "succeeded" => served[k] >= payload[k]
        BY <2>1, <2>4, <1>4 DEF RequestInv
      <3>2. QED
        BY <2>2, <3>1, <1>4, <1>6
    <2>5. QED
      BY <2>3, <2>4
  <1>9. DoneIsServed'
    BY <1>4, <1>6 DEF RequestInv, DoneIsServed, Clean
  <1>10. /\ (\A k \in Job : payload[k] <= requested[k])'
         /\ \A v \in Worker : Running(v)' => held'[v].row <= row'[held'[v].job]
    BY <1>1, <1>4 DEF RequestInv, Running
  <1>11. QED
    BY <1>8, <1>9, <1>10 DEF RequestInv

\* A report writes `done` only over the row its own run has served.
LEMMA RequestReport ==
  ASSUME TypeOK, RequestInv, NEW w \in Worker, MarkDone(w) \/ RescheduleFailed(w)
  PROVE  RequestInv'
  <1> DEFINE j == held[w].job
  <1>1. Running(w) /\ j \in Job
    BY HeldType DEF MarkDone, RescheduleFailed, Running
  <1>2. /\ ~Running(w)'
        /\ \A v \in Worker \ {w} : pc'[v] = pc[v] /\ held'[v] = held[v]
        /\ UNCHANGED <<payload, row, requested, served, overlapped>>
    BY DEF MarkDone, RescheduleFailed, AfterReport, TypeOK, Running, history
  <1>3. \A k \in Job : \/ status'[k] = status[k]
                       \/ Holds(w, k) /\ status'[k] = "done" /\ pc[w] = "succeeded"
                       \/ Holds(w, k) /\ status'[k] \in {"pending", "dead"}
    BY <1>1 DEF MarkDone, RescheduleFailed, TypeOK, Holds
  <1>4. \A v \in Worker : \A k \in Job : Holds(v, k)' => v # w /\ Holds(v, k)
    BY <1>2 DEF Holds, Running
  <1>5. DoneIsServed'
    BY <1>2, <1>3 DEF RequestInv, DoneIsServed, Clean
  <1>6. QED
    BY <1>2, <1>3, <1>4, <1>5 DEF RequestInv, Clean, Running

LEMMA RequestStep == TypeOK /\ RequestInv /\ [Next]_vars => RequestInv'
  <1> SUFFICES ASSUME TypeOK, RequestInv, [Next]_vars PROVE RequestInv'
    OBVIOUS
  <1>1. ASSUME NEW j \in WebhookJob, EnqueueWebhook(j) PROVE RequestInv'
    BY <1>1, RequestEnqueue, ConstantsAssumption DEF EnqueueWebhook, FreshRow, Job
  <1>2. ASSUME NEW j \in InviteJob, EnqueueInvite(j) PROVE RequestInv'
    BY <1>2, RequestEnqueue, ConstantsAssumption DEF EnqueueInvite, FreshRow, Job
  <1>3. ASSUME NEW j \in PlainJob, EnqueuePlain(j) PROVE RequestInv'
    BY <1>3, RequestEnqueue, ConstantsAssumption DEF EnqueuePlain, FreshRow, Job
  <1>4. ASSUME NEW j \in InviteJob, DeleteInvite(j) PROVE RequestInv'
    BY <1>4, RequestDelete DEF Job
  <1>5. ASSUME NEW j \in Job, BecomeDue(j) \/ Expire(j) PROVE RequestInv'
    BY <1>5, RequestFrame DEF BecomeDue, Expire, history, Running
  <1>6. ASSUME NEW w \in Worker, Poll(w) PROVE RequestInv'
    BY <1>6, RequestFrame DEF Poll, Recover, history, Running, Stale, TypeOK
  <1>7. ASSUME NEW w \in Worker, ClaimSome(w) PROVE RequestInv'
    BY <1>7, RequestClaim DEF ClaimSome
  <1>8. ASSUME NEW w \in Worker, ClaimNothing(w) \/ HandleErr(w) \/ Restart(w)
        PROVE  RequestInv'
    BY <1>8, RequestFrame
       DEF ClaimNothing, HandleErr, Restart, rowVars, history, Running, TypeOK
  <1>9. ASSUME NEW w \in Worker, HandleOk(w) PROVE RequestInv'
    BY <1>9, RequestHandle
  <1>10. ASSUME NEW w \in Worker, MarkDone(w) \/ RescheduleFailed(w) PROVE RequestInv'
    BY <1>10, RequestReport
  <1>11. ASSUME NEW w \in Worker, Crash(w) PROVE RequestInv'
    <2>1. /\ ~Running(w)' /\ UNCHANGED <<status, payload, row, requested, served, overlapped>>
          /\ \A v \in Worker \ {w} : pc'[v] = pc[v] /\ held'[v] = held[v]
      BY <1>11 DEF Crash, Running, TypeOK, rowVars, history
    <2>2. \A v \in Worker : \A k \in Job : Holds(v, k)' => v # w /\ Holds(v, k)
      BY <2>1 DEF Holds, Running
    <2>3. QED
      BY <2>1, <2>2 DEF RequestInv, DoneIsServed, Clean, Running
  <1>12. CASE UNCHANGED vars
    BY <1>12, RequestFrame DEF vars, rowVars, history, Running
  <1>13. QED
    BY <1>1, <1>2, <1>3, <1>4, <1>5, <1>6, <1>7, <1>8, <1>9, <1>10, <1>11, <1>12
       DEF Next

\* A row that enqueueing replaces carries the latest request.
LatestInv ==
  \A j \in Job \ PlainJob : status[j] # "absent" => payload[j] = requested[j]

LEMMA LatestStep == TypeOK /\ LatestInv /\ [Next]_vars => LatestInv'
  <1> SUFFICES ASSUME TypeOK, LatestInv, [Next]_vars PROVE LatestInv'
    OBVIOUS
  <1>1. ASSUME NEW j \in WebhookJob, EnqueueWebhook(j) PROVE LatestInv'
    BY <1>1 DEF EnqueueWebhook, Accept, FreshRow, LatestInv, TypeOK, Job
  <1>2. ASSUME NEW j \in InviteJob, EnqueueInvite(j) PROVE LatestInv'
    BY <1>2 DEF EnqueueInvite, Accept, FreshRow, LatestInv, TypeOK, Job
  <1>3. ASSUME NEW j \in PlainJob, EnqueuePlain(j) PROVE LatestInv'
    BY <1>3 DEF EnqueuePlain, Accept, FreshRow, LatestInv, TypeOK, Job
  <1>4. ASSUME NEW j \in InviteJob, DeleteInvite(j) PROVE LatestInv'
    BY <1>4 DEF DeleteInvite, LatestInv, TypeOK, Job
  <1>5. ASSUME UNCHANGED <<payload, requested>>,
               \A j \in Job : status[j] = "absent" => status'[j] = "absent"
        PROVE  LatestInv'
    BY <1>5 DEF LatestInv
  <1>6. ASSUME NEW j \in Job, BecomeDue(j) \/ Expire(j) PROVE LatestInv'
    BY <1>5, <1>6 DEF BecomeDue, Expire, history
  <1>7. ASSUME NEW w \in Worker, Poll(w) PROVE LatestInv'
    BY <1>5, <1>7 DEF Poll, Recover, history, Stale
  <1>8. ASSUME NEW w \in Worker, ClaimSome(w) PROVE LatestInv'
    BY <1>5, <1>8 DEF ClaimSome, Claim, TypeOK
  <1>9. ASSUME NEW w \in Worker, \/ ClaimNothing(w) \/ HandleOk(w) \/ HandleErr(w)
                                 \/ Crash(w) \/ Restart(w)
        PROVE  LatestInv'
    BY <1>5, <1>9 DEF ClaimNothing, HandleOk, HandleErr, Crash, Restart, rowVars, history
  <1>10. ASSUME NEW w \in Worker, MarkDone(w) \/ RescheduleFailed(w)
         PROVE  LatestInv'
    BY <1>5, <1>10 DEF MarkDone, RescheduleFailed, history, TypeOK
  <1>11. CASE UNCHANGED vars
    BY <1>5, <1>11 DEF vars, rowVars, history
  <1>12. QED
    BY <1>1, <1>2, <1>3, <1>4, <1>6, <1>7, <1>8, <1>9, <1>10, <1>11 DEF Next

\* A request made while nobody runs the job is never lost, for every number
\* of workers, jobs, crashes and retries, whatever handlers take.
THEOREM RequestsAreNotLost == Spec => []NoLostRequest
  <1>1. RequestInv /\ LatestInv => NoLostRequest
    BY DEF RequestInv, DoneIsServed, Clean, LatestInv, NoLostRequest, Owed
  <1>2. Init => LatestInv
    BY DEF Init, LatestInv
  <1>3. QED
    BY <1>1, <1>2, RequestInit, RequestStep, LatestStep, TypeCorrect, PTL DEF Spec

-----------------------------------------------------------------------------
(***************************************************************************)
(* Attempts.  The count of a row may be set by a worker that claimed it    *)
(* long ago: what bounds it is a bound on the snapshots.  It holds when    *)
(* handlers are slow, too.                                                 *)
(***************************************************************************)

\* A count that a run may still add one to.
Room(j, count) ==
  /\ count + 2 <= MaxAttempts + requested[j]
  /\ j \notin InviteJob => count < MaxAttempts

AttemptInv ==
  /\ \A j \in Job :
       /\ status[j] # "absent" => requested[j] >= 1
       /\ attempt_count[j] + 1 <= MaxAttempts + requested[j]
       /\ j \notin InviteJob => attempt_count[j] <= MaxAttempts
       /\ status[j] \in {"pending", "processing"} => Room(j, attempt_count[j])
  /\ \A w \in Worker : Running(w) => Room(held[w].job, held[w].attempt_count)

LEMMA AttemptInit == Init => AttemptInv
  BY ConstantsAssumption DEF Init, AttemptInv, Running, Room

\* A step that accepts nothing keeps it, if it keeps the counts that it does
\* not set to one that has room or is spent, and no worker begins to run.
LEMMA AttemptFrame ==
  ASSUME TypeOK, AttemptInv, UNCHANGED requested,
         \A w \in Worker : Running(w)' => Running(w) /\ held'[w] = held[w],
         \A j \in Job :
           /\ status'[j] # "absent" => status[j] # "absent"
           /\ \/ /\ attempt_count'[j] = attempt_count[j]
                 /\ status'[j] \in {"pending", "processing"} =>
                      status[j] \in {"pending", "processing"}
              \/ attempt_count'[j] = 0 /\ status'[j] = "absent"
              \/ \E count \in Nat :
                   /\ Room(j, count) /\ attempt_count'[j] = count + 1
                   /\ status[j] # "absent"
                   /\ status'[j] = IF count + 1 >= MaxAttempts THEN "dead" ELSE "pending"
  PROVE  AttemptInv'
  <1>1. ASSUME NEW w \in Worker, Running(w)' PROVE Room(held[w].job, held[w].attempt_count)'
    BY <1>1 DEF AttemptInv, Room
  <1>2. ASSUME NEW j \in Job
        PROVE  /\ status'[j] # "absent" => requested'[j] >= 1
               /\ attempt_count'[j] + 1 <= MaxAttempts + requested'[j]
               /\ j \notin InviteJob => attempt_count'[j] <= MaxAttempts
               /\ status'[j] \in {"pending", "processing"} => Room(j, attempt_count[j])'
    <2>0. requested[j] \in Nat /\ attempt_count[j] \in Nat /\ MaxAttempts \in Nat \ {0}
      BY ConstantsAssumption DEF TypeOK
    <2>1. CASE /\ attempt_count'[j] = attempt_count[j]
               /\ status'[j] \in {"pending", "processing"} =>
                      status[j] \in {"pending", "processing"}
      BY <2>0, <2>1 DEF AttemptInv, Room
    <2>2. CASE attempt_count'[j] = 0 /\ status'[j] = "absent"
      BY <2>0, <2>2 DEF AttemptInv
    <2>3. ASSUME NEW count \in Nat, Room(j, count), attempt_count'[j] = count + 1,
                 status[j] # "absent",
                 status'[j] = IF count + 1 >= MaxAttempts THEN "dead" ELSE "pending"
          PROVE  /\ status'[j] # "absent" => requested'[j] >= 1
                 /\ attempt_count'[j] + 1 <= MaxAttempts + requested'[j]
                 /\ j \notin InviteJob => attempt_count'[j] <= MaxAttempts
                 /\ status'[j] \in {"pending", "processing"} => Room(j, attempt_count[j])'
      BY <2>0, <2>3 DEF AttemptInv, Room
    <2>4. QED
      BY <2>1, <2>2, <2>3
  <1>3. QED
    BY <1>1, <1>2 DEF AttemptInv

\* An accepted request, which leaves room for one more attempt.
LEMMA AttemptEnqueue ==
  ASSUME TypeOK, AttemptInv, NEW j \in Job,
         \/ j \in WebhookJob /\ EnqueueWebhook(j)
         \/ j \in InviteJob /\ EnqueueInvite(j)
         \/ j \in PlainJob /\ EnqueuePlain(j)
  PROVE  AttemptInv'
  <1>1. /\ requested' = [requested EXCEPT ![j] = @ + 1]
        /\ UNCHANGED <<pc, held>>
    BY DEF EnqueueWebhook, EnqueueInvite, EnqueuePlain, Accept
  <1>2. /\ \A i \in Job : requested[i] \in Nat /\ attempt_count[i] \in Nat
        /\ MaxAttempts \in Nat \ {0}
        /\ \A i \in Job : requested'[i] \in Nat /\ requested'[i] >= requested[i]
        /\ requested'[j] = requested[j] + 1
    BY <1>1, ConstantsAssumption DEF TypeOK
  <1>3. ASSUME NEW w \in Worker, Running(w)' PROVE Room(held[w].job, held[w].attempt_count)'
    <2>1. /\ Running(w) /\ held[w].job \in Job /\ held[w].attempt_count \in Nat
          /\ held' = held
      BY <1>1, <1>3, HeldType DEF Running
    <2>2. QED
      BY <1>2, <2>1 DEF AttemptInv, Room
  <1>4. ASSUME NEW i \in Job, i # j
        PROVE  status'[i] = status[i] /\ attempt_count'[i] = attempt_count[i]
    BY <1>4 DEF EnqueueWebhook, EnqueueInvite, EnqueuePlain, FreshRow, TypeOK
  <1>5. \/ status'[j] = "pending" /\ attempt_count'[j] = 0
        \/ status'[j] = "pending" /\ attempt_count'[j] = attempt_count[j] /\ j \in InviteJob
        \/ status'[j] = status[j] /\ attempt_count'[j] = attempt_count[j]
    BY DEF EnqueueWebhook, EnqueueInvite, EnqueuePlain, FreshRow, TypeOK
  <1>6. ASSUME NEW i \in Job
        PROVE  /\ status'[i] # "absent" => requested'[i] >= 1
               /\ attempt_count'[i] + 1 <= MaxAttempts + requested'[i]
               /\ i \notin InviteJob => attempt_count'[i] <= MaxAttempts
               /\ status'[i] \in {"pending", "processing"} => Room(i, attempt_count[i])'
    <2>1. CASE i # j
      BY <1>2, <1>4, <2>1 DEF AttemptInv, Room
    <2>2. CASE i = j
      BY <1>2, <1>5, <2>2 DEF AttemptInv, Room
    <2>3. QED
      BY <2>1, <2>2
  <1>7. QED
    BY <1>3, <1>6 DEF AttemptInv

LEMMA AttemptStep == TypeOK /\ AttemptInv /\ [Next]_vars => AttemptInv'
  <1> SUFFICES ASSUME TypeOK, AttemptInv, [Next]_vars PROVE AttemptInv'
    OBVIOUS
  <1>1. ASSUME NEW j \in Job,
               \/ j \in WebhookJob /\ EnqueueWebhook(j)
               \/ j \in InviteJob /\ EnqueueInvite(j)
               \/ j \in PlainJob /\ EnqueuePlain(j)
        PROVE  AttemptInv'
    BY <1>1, AttemptEnqueue
  <1>2. ASSUME NEW j \in Job, DeleteInvite(j) PROVE AttemptInv'
    BY <1>2, AttemptFrame DEF DeleteInvite, Running, TypeOK
  <1>3. ASSUME NEW j \in Job, BecomeDue(j) \/ Expire(j) PROVE AttemptInv'
    BY <1>3, AttemptFrame DEF BecomeDue, Expire, Running, history
  <1>4. ASSUME NEW w \in Worker, Poll(w) PROVE AttemptInv'
    <2>1. \A v \in Worker : Running(v)' => Running(v) /\ held'[v] = held[v]
      BY <1>4 DEF Poll, Recover, Running, TypeOK
    <2>2. ASSUME NEW j \in Job, j \in Stale
          PROVE  /\ attempt_count[j] \in Nat /\ Room(j, attempt_count[j])
                 /\ attempt_count'[j] = attempt_count[j] + 1 /\ status[j] # "absent"
                 /\ status'[j] = IF attempt_count[j] + 1 >= MaxAttempts THEN "dead" ELSE "pending"
      BY <1>4, <2>2 DEF Poll, Recover, Stale, AttemptInv, TypeOK
    <2>3. ASSUME NEW j \in Job, j \notin Stale
          PROVE  attempt_count'[j] = attempt_count[j] /\ status'[j] = status[j]
      BY <1>4, <2>3 DEF Poll, Recover
    <2>4. requested' = requested
      BY <1>4 DEF Poll, Recover, history
    <2>5. QED
      BY <2>1, <2>2, <2>3, <2>4, AttemptFrame
  <1>5. ASSUME NEW w \in Worker, NEW j \in Job, Claim(w, j) PROVE AttemptInv'
    <2>1. /\ held'[w].job = j /\ held'[w].attempt_count = attempt_count[j]
          /\ \A v \in Worker \ {w} : held'[v] = held[v] /\ pc'[v] = pc[v]
      BY <1>5 DEF Claim, TypeOK
    <2>2. \A v \in Worker : Running(v)' => Room(held[v].job, held[v].attempt_count)'
      BY <1>5, <2>1 DEF Claim, AttemptInv, Room, Running
    <2>3. QED
      BY <1>5, <2>2 DEF Claim, AttemptInv, Room, TypeOK
  <1>6. ASSUME NEW w \in Worker,
               ClaimNothing(w) \/ Restart(w) \/ HandleOk(w) \/ HandleErr(w) \/ Crash(w)
        PROVE  AttemptInv'
    BY <1>6, AttemptFrame
       DEF ClaimNothing, Restart, HandleOk, HandleErr, Crash, Running, TypeOK, rowVars, history
  <1>7. ASSUME NEW w \in Worker, AfterReport(w)
        PROVE  \A v \in Worker : Running(v)' => Running(v) /\ held'[v] = held[v]
    BY <1>7 DEF AfterReport, Running, TypeOK
  <1>8. ASSUME NEW w \in Worker, MarkDone(w) PROVE AttemptInv'
    BY <1>7, <1>8, AttemptFrame DEF MarkDone, TypeOK, history
  <1>9. ASSUME NEW w \in Worker, RescheduleFailed(w) PROVE AttemptInv'
    <2> DEFINE j == held[w].job
               count == held[w].attempt_count
    <2>1. Running(w) /\ j \in Job /\ count \in Nat /\ Room(j, count)
      BY <1>9, HeldType DEF RescheduleFailed, Running, AttemptInv
    <2>2. \A i \in Job \ {j} : status'[i] = status[i] /\ attempt_count'[i] = attempt_count[i]
      BY <1>9 DEF RescheduleFailed, TypeOK
    <2>3. \/ status' = status /\ attempt_count' = attempt_count
          \/ /\ status[j] # "absent" /\ attempt_count'[j] = count + 1
             /\ status'[j] = IF count + 1 >= MaxAttempts THEN "dead" ELSE "pending"
      BY <1>9, <2>1 DEF RescheduleFailed, TypeOK
    <2>4. requested' = requested
      BY <1>9 DEF RescheduleFailed, history
    <2>5. \A v \in Worker : Running(v)' => Running(v) /\ held'[v] = held[v]
      BY <1>7, <1>9 DEF RescheduleFailed
    <2> HIDE DEF j, count
    <2>6. QED
      BY <2>1, <2>2, <2>3, <2>4, <2>5, AttemptFrame
  <1>10. CASE UNCHANGED vars
    BY <1>10, AttemptFrame DEF vars, rowVars, history, Running
  <1>11. QED
    BY <1>1, <1>2, <1>3, <1>4, <1>5, <1>6, <1>8, <1>9, <1>10 DEF Next, ClaimSome, Job

\* However late reports arrive and locks expire, attempt_count stays within
\* MAX_ATTEMPTS, plus one for each resend of an invitation.
THEOREM AttemptsAreBounded == Spec => []AttemptsBounded
  <1>1. TypeOK /\ AttemptInv => AttemptsBounded
    BY DEF AttemptInv, AttemptsBounded, Room, TypeOK
  <1>2. QED
    BY <1>1, AttemptInit, AttemptStep, TypeCorrect, PTL DEF Spec

\* recover_stale_processing_jobs can find every processing row.
THEOREM LocksAreKept == Spec => []ProcessingIsLocked
  <1>1. Init => ProcessingIsLocked
    BY DEF Init, ProcessingIsLocked
  <1>2. TypeOK /\ ProcessingIsLocked /\ [Next]_vars => ProcessingIsLocked'
    <2> SUFFICES ASSUME TypeOK, ProcessingIsLocked, [Next]_vars,
                        NEW j \in Job, status'[j] = "processing"
                 PROVE  locked_by'[j] # NoWorker
      BY DEF ProcessingIsLocked
    <2>1. ASSUME NEW i \in Job,
                 EnqueueWebhook(i) \/ EnqueueInvite(i) \/ EnqueuePlain(i) \/ DeleteInvite(i)
          PROVE  locked_by'[j] # NoWorker
      BY <2>1 DEF EnqueueWebhook, EnqueueInvite, EnqueuePlain, DeleteInvite, FreshRow,
                  ProcessingIsLocked, TypeOK
    <2>2. ASSUME NEW i \in Job, BecomeDue(i) \/ Expire(i) PROVE locked_by'[j] # NoWorker
      BY <2>2 DEF BecomeDue, Expire, ProcessingIsLocked
    <2>3. ASSUME NEW w \in Worker, Poll(w) PROVE locked_by'[j] # NoWorker
      BY <2>3 DEF Poll, Recover, ProcessingIsLocked
    <2>4. ASSUME NEW w \in Worker, NEW i \in Job, Claim(w, i) PROVE locked_by'[j] # NoWorker
      BY <2>4, ConstantsAssumption DEF Claim, ProcessingIsLocked, TypeOK
    <2>5. ASSUME NEW w \in Worker,
                 \/ ClaimNothing(w) \/ HandleOk(w) \/ HandleErr(w) \/ Crash(w) \/ Restart(w)
          PROVE  locked_by'[j] # NoWorker
      BY <2>5 DEF ClaimNothing, HandleOk, HandleErr, Crash, Restart, rowVars, ProcessingIsLocked
    <2>6. ASSUME NEW w \in Worker, MarkDone(w) \/ RescheduleFailed(w)
          PROVE  locked_by'[j] # NoWorker
      BY <2>6 DEF MarkDone, RescheduleFailed, ProcessingIsLocked, TypeOK
    <2>7. CASE UNCHANGED vars
      BY <2>7 DEF vars, rowVars, ProcessingIsLocked
    <2>8. QED
      BY <2>1, <2>2, <2>3, <2>4, <2>5, <2>6, <2>7 DEF Next, ClaimSome, Job
  <1>3. QED
    BY <1>1, <1>2, TypeCorrect, PTL DEF Spec

-----------------------------------------------------------------------------
(***************************************************************************)
(* The retry budget of plain jobs when no handler outlives its lock.  The  *)
(* UPDATEs of a report are unfenced; what makes them safe here is that a   *)
(* run that can still report always owns the row: the row is processing,   *)
(* locked by that worker, and carries the attempt number of its snapshot.  *)
(***************************************************************************)

\* A worker that runs job j owns its row.
Owner(j) ==
  \A w \in Worker :
    Running(w) /\ held[w].job = j =>
      /\ held[w].row = row[j]
      /\ status[j] = "processing" /\ locked_by[j] = w /\ ~expired[j]
      /\ held[w].attempt_count = attempt_count[j]

\* Attempts and runs agree in every status.
Budget(j) ==
  /\ status[j] = "absent" => attempt_count[j] = 0 /\ runs[j] = 0
  /\ status[j] = "pending" => /\ attempt_count[j] < MaxAttempts
                              /\ runs[j] = attempt_count[j]
  /\ status[j] \in {"processing", "done"} =>
       /\ attempt_count[j] < MaxAttempts
       /\ runs[j] = attempt_count[j] + 1
  /\ status[j] = "dead" => /\ attempt_count[j] = MaxAttempts
                           /\ runs[j] = MaxAttempts

BudgetInv == \A j \in PlainJob : Owner(j) /\ Budget(j)

LEMMA PlainIsJob == \A j \in PlainJob : j \in Job /\ j \notin WebhookJob /\ j \notin InviteJob
  BY ConstantsAssumption DEF Job

LEMMA BudgetInit == Init => BudgetInv
  BY PlainIsJob, ConstantsAssumption DEF Init, BudgetInv, Owner, Budget, Running

\* A step that leaves alone the row of j and the workers that run j.
LEMMA BudgetFrame ==
  ASSUME NEW j \in PlainJob, Owner(j), Budget(j),
         status'[j] = status[j], attempt_count'[j] = attempt_count[j],
         locked_by'[j] = locked_by[j], expired'[j] = expired[j],
         row'[j] = row[j], runs'[j] = runs[j],
         \A w \in Worker : Running(w)' /\ held'[w].job = j
                             => Running(w) /\ held'[w] = held[w]
  PROVE  Owner(j)' /\ Budget(j)'
  BY DEF Owner, Budget

LEMMA BudgetEnqueue ==
  ASSUME TypeOK, NEW j \in PlainJob, Owner(j), Budget(j), NEW k \in Job,
         \/ k \in WebhookJob /\ EnqueueWebhook(k)
         \/ k \in InviteJob /\ (EnqueueInvite(k) \/ DeleteInvite(k))
         \/ k \in PlainJob /\ EnqueuePlain(k)
  PROVE  Owner(j)' /\ Budget(j)'
  <1>1. UNCHANGED <<pc, held>>
    BY DEF EnqueueWebhook, EnqueueInvite, DeleteInvite, EnqueuePlain
  <1>2. j \in Job
    BY PlainIsJob
  <1>3. CASE k # j \/ UNCHANGED <<status, attempt_count, locked_by, expired, row, runs>>
    <2>1. /\ status'[j] = status[j] /\ attempt_count'[j] = attempt_count[j]
          /\ locked_by'[j] = locked_by[j] /\ expired'[j] = expired[j]
          /\ row'[j] = row[j] /\ runs'[j] = runs[j]
      BY <1>2, <1>3 DEF TypeOK, EnqueueWebhook, EnqueueInvite, DeleteInvite,
                        EnqueuePlain, FreshRow
    <2>2. QED
      BY <1>1, <2>1, BudgetFrame DEF Running
  <1>4. CASE k = j /\ status[j] = "absent" /\ FreshRow(j) /\ row' = row
    <2>1. status'[j] = "pending" /\ attempt_count'[j] = 0 /\ runs'[j] = 0
      BY <1>2, <1>4 DEF FreshRow, TypeOK
    <2>2. \A w \in Worker : ~(Running(w)' /\ held'[w].job = j)
      BY <1>1, <1>4 DEF Owner, Running
    <2>3. QED
      BY <2>1, <2>2, ConstantsAssumption DEF Owner, Budget
  <1>5. QED
    BY <1>3, <1>4, PlainIsJob DEF EnqueuePlain

LEMMA BudgetClock ==
  ASSUME TypeOK, ~SlowHandlers, NEW j \in PlainJob, Owner(j), Budget(j),
         NEW k \in Job, BecomeDue(k) \/ Expire(k)
  PROVE  Owner(j)' /\ Budget(j)'
  <1>1. /\ UNCHANGED <<status, attempt_count, locked_by, row, runs, pc, held>>
        /\ expired'[j] = expired[j] \/ (k = j /\ Expire(j))
    BY PlainIsJob DEF BecomeDue, Expire, history, TypeOK
  <1>2. CASE expired'[j] = expired[j]
    BY <1>1, <1>2, BudgetFrame DEF Running
  <1>3. CASE k = j /\ Expire(j)
    <2>1. \A w \in Worker : ~(Running(w)' /\ held'[w].job = j)
      BY <1>1, <1>3 DEF Expire, InFlight, Holds, Owner, Running
    <2>2. QED
      BY <1>1, <2>1 DEF Owner, Budget
  <1>4. QED
    BY <1>1, <1>2, <1>3

LEMMA BudgetRecover ==
  ASSUME TypeOK, NEW j \in PlainJob, Owner(j), Budget(j), NEW w \in Worker, Poll(w)
  PROVE  Owner(j)' /\ Budget(j)'
  <1>1. j \in Job
    BY PlainIsJob
  <1>2. /\ UNCHANGED <<row, held, runs>>
        /\ \A v \in Worker : Running(v)' => Running(v) /\ held'[v] = held[v]
    BY DEF Poll, Recover, history, TypeOK, Running
  <1>3. CASE j \notin Stale
    <2>1. /\ status'[j] = status[j] /\ attempt_count'[j] = attempt_count[j]
          /\ locked_by'[j] = locked_by[j]
      BY <1>1, <1>3 DEF Poll, Recover
    <2>2. expired'[j] = expired[j]
      BY <1>1, <1>3 DEF Poll, Recover, TypeOK
    <2>3. QED
      BY <1>2, <2>1, <2>2, BudgetFrame
  <1>4. CASE j \in Stale
    <2>1. \A v \in Worker : ~(Running(v)' /\ held'[v].job = j)
      BY <1>2, <1>4 DEF Stale, Owner
    <2>2. /\ status[j] = "processing"
          /\ attempt_count'[j] = attempt_count[j] + 1
          /\ status'[j] = IF attempt_count[j] + 1 >= MaxAttempts THEN "dead" ELSE "pending"
      BY <1>1, <1>4 DEF Poll, Recover, Stale
    <2>3. Budget(j)'
      BY <1>1, <1>2, <2>2, ConstantsAssumption DEF Budget, TypeOK
    <2>4. QED
      BY <2>1, <2>3 DEF Owner
  <1>5. QED
    BY <1>3, <1>4

LEMMA BudgetClaim ==
  ASSUME TypeOK, NEW j \in PlainJob, Owner(j), Budget(j),
         NEW w \in Worker, NEW k \in Job, Claim(w, k)
  PROVE  Owner(j)' /\ Budget(j)'
  <1>1. /\ status[k] = "pending"
        /\ held'[w].job = k /\ held'[w].row = row[k]
        /\ held'[w].attempt_count = attempt_count[k]
        /\ \A v \in Worker \ {w} : held'[v] = held[v] /\ (Running(v)' <=> Running(v))
        /\ UNCHANGED <<attempt_count, row>>
    BY DEF Claim, TypeOK, Running
  <1>2. CASE k # j
    <2>1. /\ status'[j] = status[j] /\ locked_by'[j] = locked_by[j]
          /\ expired'[j] = expired[j] /\ runs'[j] = runs[j]
      BY <1>2, PlainIsJob DEF Claim, TypeOK
    <2>2. QED
      BY <1>1, <1>2, <2>1, BudgetFrame
  <1>3. CASE k = j
    <2>1. /\ status'[j] = "processing" /\ locked_by'[j] = w /\ ~expired'[j]
          /\ runs'[j] = runs[j] + 1
      BY <1>3, PlainIsJob DEF Claim, TypeOK
    <2>2. \A v \in Worker \ {w} : ~(Running(v)' /\ held'[v].job = j)
      BY <1>1, <1>3 DEF Owner
    <2>3. QED
      BY <1>1, <1>3, <2>1, <2>2 DEF Owner, Budget
  <1>4. QED
    BY <1>2, <1>3

LEMMA BudgetReport ==
  ASSUME TypeOK, NEW j \in PlainJob, Owner(j), Budget(j),
         NEW w \in Worker, MarkDone(w) \/ RescheduleFailed(w)
  PROVE  Owner(j)' /\ Budget(j)'
  <1>1. Running(w) /\ held[w].job \in Job /\ held[w].attempt_count \in Nat
    BY HeldType DEF MarkDone, RescheduleFailed, Running
  <1>2. /\ ~Running(w)'
        /\ \A v \in Worker \ {w} : held'[v] = held[v] /\ (Running(v)' <=> Running(v))
        /\ UNCHANGED <<row, runs>>
    BY DEF MarkDone, RescheduleFailed, AfterReport, TypeOK, Running, history
  <1>3. CASE held[w].job # j
    <2>1. /\ status'[j] = status[j] /\ attempt_count'[j] = attempt_count[j]
          /\ locked_by'[j] = locked_by[j] /\ expired'[j] = expired[j]
      BY <1>1, <1>3, PlainIsJob DEF MarkDone, RescheduleFailed, TypeOK
    <2>2. QED
      BY <1>2, <2>1, BudgetFrame
  <1>4. CASE held[w].job = j
    <2>1. /\ status[j] = "processing" /\ held[w].row = row[j] /\ locked_by[j] = w
          /\ held[w].attempt_count = attempt_count[j]
      BY <1>1, <1>4 DEF Owner
    <2>2. \A v \in Worker : ~(Running(v)' /\ held'[v].job = j)
      BY <1>2, <2>1 DEF Owner
    <2>3. CASE MarkDone(w)
      BY <1>2, <1>4, <2>1, <2>2, <2>3, PlainIsJob DEF MarkDone, Owner, Budget, TypeOK
    <2>4. CASE RescheduleFailed(w)
      <3>1. /\ status'[j] = IF attempt_count[j] + 1 >= MaxAttempts THEN "dead" ELSE "pending"
            /\ attempt_count'[j] = attempt_count[j] + 1
        BY <1>4, <2>1, <2>4, PlainIsJob DEF RescheduleFailed, TypeOK
      <3>2. Budget(j)'
        BY <1>2, <2>1, <3>1, PlainIsJob, ConstantsAssumption DEF Budget, TypeOK
      <3>3. QED
        BY <2>2, <3>2 DEF Owner
    <2>5. QED
      BY <2>3, <2>4
  <1>5. QED
    BY <1>3, <1>4

LEMMA BudgetStep ==
  ASSUME ~SlowHandlers
  PROVE  TypeOK /\ BudgetInv /\ [Next]_vars => BudgetInv'
  <1> SUFFICES ASSUME TypeOK, BudgetInv, [Next]_vars, NEW j \in PlainJob
               PROVE  Owner(j)' /\ Budget(j)'
    BY DEF BudgetInv
  <1>0. Owner(j) /\ Budget(j)
    BY DEF BudgetInv
  <1>1. ASSUME NEW k \in WebhookJob, EnqueueWebhook(k) PROVE Owner(j)' /\ Budget(j)'
    BY <1>0, <1>1, BudgetEnqueue DEF Job
  <1>2. ASSUME NEW k \in InviteJob, EnqueueInvite(k) \/ DeleteInvite(k)
        PROVE  Owner(j)' /\ Budget(j)'
    BY <1>0, <1>2, BudgetEnqueue DEF Job
  <1>3. ASSUME NEW k \in PlainJob, EnqueuePlain(k) PROVE Owner(j)' /\ Budget(j)'
    BY <1>0, <1>3, BudgetEnqueue DEF Job
  <1>4. ASSUME NEW k \in Job, BecomeDue(k) \/ Expire(k) PROVE Owner(j)' /\ Budget(j)'
    BY <1>0, <1>4, BudgetClock
  <1>5. ASSUME NEW w \in Worker, Poll(w) PROVE Owner(j)' /\ Budget(j)'
    BY <1>0, <1>5, BudgetRecover
  <1>6. ASSUME NEW w \in Worker, ClaimSome(w) PROVE Owner(j)' /\ Budget(j)'
    BY <1>0, <1>6, BudgetClaim DEF ClaimSome
  <1>7. ASSUME NEW w \in Worker,
               ClaimNothing(w) \/ HandleOk(w) \/ HandleErr(w) \/ Crash(w) \/ Restart(w)
        PROVE  Owner(j)' /\ Budget(j)'
    <2>1. /\ UNCHANGED <<status, attempt_count, locked_by, expired, row, runs>>
          /\ \A v \in Worker : Running(v)' => Running(v) /\ held'[v] = held[v]
      BY <1>7 DEF ClaimNothing, HandleOk, HandleErr, Crash, Restart, rowVars,
                  history, TypeOK, Running
    <2>2. QED
      BY <1>0, <2>1, BudgetFrame
  <1>8. ASSUME NEW w \in Worker, MarkDone(w) \/ RescheduleFailed(w)
        PROVE  Owner(j)' /\ Budget(j)'
    BY <1>0, <1>8, BudgetReport
  <1>9. CASE UNCHANGED vars
    BY <1>0, <1>9, BudgetFrame DEF vars, rowVars, history, Running
  <1>10. QED
    BY <1>1, <1>2, <1>3, <1>4, <1>5, <1>6, <1>7, <1>8, <1>9 DEF Next

LEMMA BudgetInvariant == ASSUME ~SlowHandlers PROVE Spec => []BudgetInv
  BY BudgetInit, BudgetStep, TypeCorrect, PTL DEF Spec

\* At most one worker runs a plain job, and it holds the lock.
THEOREM PlainJobsHaveOneRunner == ASSUME ~SlowHandlers PROVE Spec => []OneRunner
  <1>1. BudgetInv => OneRunner
    BY DEF BudgetInv, Owner, OneRunner, Holds
  <1>2. QED
    BY <1>1, BudgetInvariant, PTL

\* A plain job is run at most MAX_ATTEMPTS times, and dead exactly when the
\* budget is used.
THEOREM RetriesAreBounded == ASSUME ~SlowHandlers PROVE Spec => []RetryBudget
  <1>1. TypeOK /\ BudgetInv => RetryBudget
    <2> SUFFICES ASSUME TypeOK, BudgetInv, NEW j \in PlainJob
                 PROVE  /\ runs[j] <= MaxAttempts
                        /\ status[j] = "dead" <=> attempt_count[j] = MaxAttempts
                        /\ status[j] \in {"pending", "dead"} => runs[j] = attempt_count[j]
                        /\ status[j] \in {"processing", "done"}
                             => runs[j] = attempt_count[j] + 1
      BY DEF RetryBudget
    <2>1. status[j] \in Status /\ attempt_count[j] \in Nat /\ MaxAttempts \in Nat \ {0}
      BY PlainIsJob, ConstantsAssumption DEF TypeOK
    <2>2. Budget(j)
      BY DEF BudgetInv
    <2>3. QED
      BY <2>1, <2>2 DEF Budget, Status
  <1>2. QED
    BY <1>1, BudgetInvariant, TypeCorrect, PTL

\* Only a row that some worker or a poll owns as `processing` can be settled.
LEMMA SettledStep ==
  ASSUME ~SlowHandlers, TypeOK, BudgetInv, Next,
         NEW j \in PlainJob, status[j] \in {"done", "dead"}
  PROVE  status'[j] = status[j]
  <1>1. j \in Job /\ Owner(j)
    BY PlainIsJob DEF BudgetInv
  <1>2. ASSUME NEW k \in Job, k # j, EnqueueWebhook(k) \/ EnqueueInvite(k) \/ DeleteInvite(k)
        PROVE  status'[j] = status[j]
    BY <1>1, <1>2 DEF EnqueueWebhook, EnqueueInvite, DeleteInvite, FreshRow, TypeOK
  <1>3. ASSUME NEW k \in PlainJob, EnqueuePlain(k) PROVE status'[j] = status[j]
    BY <1>1, <1>3, PlainIsJob DEF EnqueuePlain, FreshRow, TypeOK
  <1>4. ASSUME NEW k \in Job, BecomeDue(k) \/ Expire(k) PROVE status'[j] = status[j]
    BY <1>4 DEF BecomeDue, Expire
  <1>5. ASSUME NEW w \in Worker, Poll(w) PROVE status'[j] = status[j]
    BY <1>1, <1>5 DEF Poll, Recover, Stale
  <1>6. ASSUME NEW w \in Worker, ClaimSome(w) PROVE status'[j] = status[j]
    BY <1>1, <1>6 DEF ClaimSome, Claim, TypeOK
  <1>7. ASSUME NEW w \in Worker,
               ClaimNothing(w) \/ HandleOk(w) \/ HandleErr(w) \/ Crash(w) \/ Restart(w)
        PROVE  status'[j] = status[j]
    BY <1>7 DEF ClaimNothing, HandleOk, HandleErr, Crash, Restart, rowVars
  <1>8. ASSUME NEW w \in Worker, MarkDone(w) \/ RescheduleFailed(w)
        PROVE  status'[j] = status[j]
    <2>1. Running(w)
      BY <1>8 DEF MarkDone, RescheduleFailed, Running
    <2>2. held[w].job # j
      BY <1>1, <2>1 DEF Owner
    <2>3. QED
      BY <1>1, <1>8, <2>2 DEF MarkDone, RescheduleFailed, TypeOK
  <1>9. QED
    BY <1>2, <1>3, <1>4, <1>5, <1>6, <1>7, <1>8, PlainIsJob DEF Next, Job

\* done and dead are final for a plain job: no late report, retry or recovery
\* brings it back.
THEOREM SettledJobsStay == ASSUME ~SlowHandlers PROVE Spec => SettledIsFinal
  <1>1. TypeOK /\ BudgetInv /\ [Next]_vars =>
          [\A j \in PlainJob :
             status[j] \in {"done", "dead"} => status'[j] = status[j]]_vars
    BY SettledStep
  <1>2. QED
    BY <1>1, BudgetInvariant, TypeCorrect, PTL DEF Spec, SettledIsFinal

-----------------------------------------------------------------------------
(***************************************************************************)
(* Plain jobs implement BoundedRetry.                                      *)
(***************************************************************************)

\* The row of a plain job carries its request.
PayloadInv == \A j \in PlainJob : status[j] # "absent" => payload[j] > 0

LEMMA PayloadInvariant == Spec => []PayloadInv
  <1>1. Init => PayloadInv
    BY PlainIsJob DEF Init, PayloadInv
  <1>2. TypeOK /\ PayloadInv /\ [Next]_vars => PayloadInv'
    <2> SUFFICES ASSUME TypeOK, PayloadInv, [Next]_vars, NEW j \in PlainJob,
                        status'[j] # "absent"
                 PROVE  payload'[j] > 0
      BY DEF PayloadInv
    <2>1. j \in Job /\ (status[j] # "absent" => payload[j] > 0)
      BY PlainIsJob DEF PayloadInv
    <2>2. ASSUME NEW k \in Job, FreshRow(k) PROVE payload'[j] > 0
      BY <2>1, <2>2 DEF FreshRow, TypeOK
    <2>3. ASSUME NEW k \in InviteJob, EnqueueInvite(k) \/ DeleteInvite(k)
          PROVE  payload'[j] > 0
      BY <2>1, <2>2, <2>3, PlainIsJob DEF EnqueueInvite, DeleteInvite, Job, TypeOK
    <2>4. ASSUME UNCHANGED payload, status[j] = "absent" => status'[j] = "absent"
          PROVE  payload'[j] > 0
      BY <2>1, <2>4
    <2>5. ASSUME NEW w \in Worker, MarkDone(w) \/ RescheduleFailed(w) PROVE payload'[j] > 0
      <3>1. UNCHANGED payload
        BY <2>5 DEF MarkDone, RescheduleFailed
      <3>2. status[j] = "absent" => status'[j] = "absent"
        BY <2>5, <2>1 DEF MarkDone, RescheduleFailed, TypeOK
      <3>3. QED
        BY <2>4, <3>1, <3>2
    <2>6. ASSUME NEW w \in Worker, Poll(w) \/ ClaimSome(w) PROVE payload'[j] > 0
      <3>1. UNCHANGED payload
        BY <2>6 DEF Poll, Recover, ClaimSome, Claim
      <3>2. CASE Poll(w)
        BY <2>4, <3>1, <3>2, <2>1 DEF Poll, Recover, Stale
      <3>3. CASE ClaimSome(w)
        BY <2>4, <3>1, <3>3, <2>1 DEF ClaimSome, Claim, TypeOK
      <3>4. QED
        BY <2>6, <3>2, <3>3
    <2>7. ASSUME NEW w \in Worker,
                 ClaimNothing(w) \/ HandleOk(w) \/ HandleErr(w) \/ Crash(w) \/ Restart(w)
          PROVE  payload'[j] > 0
      BY <2>4, <2>7 DEF ClaimNothing, HandleOk, HandleErr, Crash, Restart, rowVars
    <2>8. ASSUME NEW k \in Job, BecomeDue(k) \/ Expire(k) PROVE payload'[j] > 0
      BY <2>4, <2>8 DEF BecomeDue, Expire
    <2>9. ASSUME NEW k \in PlainJob, EnqueuePlain(k) PROVE payload'[j] > 0
      BY <2>2, <2>4, <2>9, PlainIsJob DEF EnqueuePlain
    <2>10. ASSUME NEW k \in WebhookJob, EnqueueWebhook(k) PROVE payload'[j] > 0
      BY <2>2, <2>10 DEF EnqueueWebhook, Job
    <2>11. CASE UNCHANGED vars
      BY <2>4, <2>11 DEF vars, rowVars
    <2>12. QED
      BY <2>3, <2>5, <2>6, <2>7, <2>8, <2>9, <2>10, <2>11 DEF Next
  <1>3. QED
    BY <1>1, <1>2, TypeCorrect, PTL DEF Spec

\* What a step leaves alone on the plain rows is a stutter of the promise.
LEMMA RetryStutter ==
  ASSUME \A j \in PlainJob : /\ Phase(status[j])' = Phase(status[j])
                             /\ runs'[j] = runs[j]
                             /\ (status[j] = "processing")' <=> (status[j] = "processing")
                             /\ (served[j] > 0)' <=> (served[j] > 0)
  PROVE  UNCHANGED Retry!vars
  BY DEF Retry!vars

\* Enqueueing a plain job is Submit, or nothing when the key has a row.
LEMMA RetryEnqueue ==
  ASSUME TypeOK, BudgetInv, NEW j \in PlainJob, EnqueuePlain(j)
  PROVE  Retry!Submit(j) \/ UNCHANGED Retry!vars
  <1>1. UNCHANGED served /\ j \in Job /\ Budget(j)
    BY PlainIsJob DEF EnqueuePlain, BudgetInv
  <1>2. CASE UNCHANGED <<status, runs>>
    BY <1>1, <1>2, RetryStutter
  <1>3. CASE status[j] = "absent" /\ FreshRow(j)
    <2>1. /\ status' = [status EXCEPT ![j] = "pending"]
          /\ runs' = [runs EXCEPT ![j] = 0] /\ runs[j] = 0
      BY <1>1, <1>3 DEF FreshRow, Budget
    <2>2. runs' = runs
      BY <2>1, <1>1 DEF TypeOK
    <2>3. \A i \in PlainJob : status'[i] = IF i = j THEN "pending" ELSE status[i]
      BY <2>1, PlainIsJob DEF TypeOK
    <2>4. [i \in PlainJob |-> Phase(status[i])]'
            = [[i \in PlainJob |-> Phase(status[i])] EXCEPT ![j] = "open"]
      BY <2>3 DEF Phase
    <2>5. [i \in PlainJob |-> status[i] = "processing"]'
            = [i \in PlainJob |-> status[i] = "processing"]
      BY <2>3, <1>3
    <2>6. QED
      BY <1>1, <1>3, <2>2, <2>4, <2>5 DEF Retry!Submit, Phase
  <1>4. QED
    BY <1>2, <1>3 DEF EnqueuePlain

\* A poll ends the tries of all plain rows whose lock has expired.
LEMMA RetryPoll ==
  ASSUME TypeOK, BudgetInv, NEW w \in Worker, Poll(w),
         NEW S \in SUBSET PlainJob, S = Stale \cap PlainJob
  PROVE  Retry!Fail(S)
  <1>1. \A i \in PlainJob :
          /\ i \in Job /\ attempt_count[i] \in Nat
          /\ i \in Stale => status[i] = "processing" /\ runs[i] = attempt_count[i] + 1
    BY PlainIsJob DEF Stale, BudgetInv, Budget, TypeOK
  <1>2. \A i \in PlainJob :
          status'[i] = IF i \notin Stale THEN status[i]
                       ELSE IF attempt_count[i] + 1 >= MaxAttempts THEN "dead" ELSE "pending"
    BY <1>1 DEF Poll, Recover
  <1>3. \A i \in PlainJob :
          /\ Phase(status[i])' = IF i \in S /\ runs[i] >= MaxAttempts THEN "dead"
                                 ELSE Phase(status[i])
          /\ (status[i] = "processing")' <=> i \notin S /\ status[i] = "processing"
    BY <1>1, <1>2 DEF Phase
  <1>4. \A i \in S : status[i] = "processing"
    BY <1>1
  <1>5. UNCHANGED <<runs, served>>
    BY DEF Poll, Recover, history
  <1>6. [i \in PlainJob |-> Phase(status[i])]' =
          [i \in PlainJob |-> IF i \in S /\ [k \in PlainJob |-> runs[k]][i] >= MaxAttempts
                              THEN "dead" ELSE [k \in PlainJob |-> Phase(status[k])][i]]
    BY <1>3
  <1>7. [i \in PlainJob |-> status[i] = "processing"]' =
          [i \in PlainJob |-> i \notin S /\ [k \in PlainJob |-> status[k] = "processing"][i]]
    BY <1>3
  <1>8. QED
    BY <1>4, <1>5, <1>6, <1>7 DEF Retry!Fail

\* Claiming a plain job starts a try.
LEMMA RetryClaim ==
  ASSUME TypeOK, BudgetInv, NEW w \in Worker, NEW j \in PlainJob, Claim(w, j)
  PROVE  Retry!Start(j)
  <1>1. /\ status[j] = "pending" /\ UNCHANGED served
        /\ runs[j] < MaxAttempts
    BY DEF Claim, BudgetInv, Budget
  <1>2. \A i \in PlainJob : /\ status'[i] = IF i = j THEN "processing" ELSE status[i]
                            /\ runs'[i] = IF i = j THEN runs[j] + 1 ELSE runs[i]
    BY PlainIsJob DEF Claim, TypeOK
  <1>3. [i \in PlainJob |-> Phase(status[i])]' = [i \in PlainJob |-> Phase(status[i])]
    BY <1>1, <1>2 DEF Phase
  <1>4. [i \in PlainJob |-> runs[i]]'
          = [[i \in PlainJob |-> runs[i]] EXCEPT ![j] = @ + 1]
    BY <1>2
  <1>5. [i \in PlainJob |-> status[i] = "processing"]'
          = [[i \in PlainJob |-> status[i] = "processing"] EXCEPT ![j] = TRUE]
    BY <1>2
  <1>6. QED
    BY <1>1, <1>3, <1>4, <1>5 DEF Retry!Start, Phase

\* A successful handler run is the work, done while the item is busy.
LEMMA RetryWork ==
  ASSUME TypeOK, BudgetInv, RequestInv, PayloadInv,
         NEW w \in Worker, HandleOk(w), NEW j \in PlainJob, held[w].job = j
  PROVE  Retry!Work(j)
  <1>1. /\ Running(w) /\ j \in Job /\ j \notin WebhookJob /\ held[w].payload \in Nat
    BY HeldType, PlainIsJob DEF HandleOk, Running
  <1>2. Holds(w, j) /\ status[j] = "processing"
    BY <1>1 DEF BudgetInv, Owner, Holds
  <1>3. held[w].payload = payload[j] /\ payload[j] > 0
    BY <1>1, <1>2 DEF RequestInv, Clean, PayloadInv
  <1>4. served[j] \in Nat /\ payload[j] \in Nat
    BY <1>1 DEF TypeOK
  <1>5. \A i \in PlainJob : served'[i] = IF i = j THEN Newer(served[j], payload[j])
                                         ELSE served[i]
    BY <1>1, <1>3, PlainIsJob DEF HandleOk, Sees, TypeOK
  <1>6. \A i \in PlainJob : (served[i] > 0)' <=> (i = j \/ served[i] > 0)
    BY <1>3, <1>4, <1>5 DEF Newer
  <1>7. [i \in PlainJob |-> served[i] > 0]'
          = [[i \in PlainJob |-> served[i] > 0] EXCEPT ![j] = TRUE]
    <2> DEFINE W == [i \in PlainJob |-> served[i] > 0]
               V == [W EXCEPT ![j] = TRUE]
    <2>1. \A i \in PlainJob : W'[i] = V[i]
      <3> SUFFICES ASSUME NEW i \in PlainJob PROVE W'[i] = V[i]
        OBVIOUS
      <3>1. W'[i] = (i = j \/ served[i] > 0)
        BY <1>6
      <3>2. CASE i = j
        BY <3>1, <3>2
      <3>3. CASE i # j
        BY <3>1, <3>3
      <3>4. QED
        BY <3>2, <3>3
    <2>2. V = [i \in PlainJob |-> V[i]] /\ W' = [i \in PlainJob |-> W'[i]]
      OBVIOUS
    <2> HIDE DEF V, W
    <2>3. QED
      BY <2>1, <2>2 DEF V, W
  <1>8. UNCHANGED <<status, runs>>
    BY DEF HandleOk, rowVars
  <1>9. QED
    BY <1>2, <1>7, <1>8 DEF Retry!Work

\* mark_done closes a try whose work was done.
LEMMA RetryComplete ==
  ASSUME TypeOK, BudgetInv, RequestInv, PayloadInv,
         NEW w \in Worker, MarkDone(w), NEW j \in PlainJob, held[w].job = j
  PROVE  Retry!Complete(j)
  <1>1. Running(w) /\ pc[w] = "succeeded" /\ j \in Job
    BY PlainIsJob DEF MarkDone, Running
  <1>2. Holds(w, j) /\ status[j] = "processing"
    BY <1>1 DEF BudgetInv, Owner, Holds
  <1>3. served[j] > 0
    BY <1>1, <1>2 DEF RequestInv, Clean, PayloadInv, TypeOK
  <1>4. \A i \in PlainJob : status'[i] = IF i = j THEN "done" ELSE status[i]
    BY <1>1, <1>2, PlainIsJob DEF MarkDone, Holds, TypeOK
  <1>5. [i \in PlainJob |-> Phase(status[i])]'
          = [[i \in PlainJob |-> Phase(status[i])] EXCEPT ![j] = "done"]
    BY <1>4 DEF Phase
  <1>6. [i \in PlainJob |-> status[i] = "processing"]'
          = [[i \in PlainJob |-> status[i] = "processing"] EXCEPT ![j] = FALSE]
    BY <1>4
  <1>7. UNCHANGED <<runs, served>>
    BY DEF MarkDone, history
  <1>8. QED
    BY <1>2, <1>3, <1>5, <1>6, <1>7 DEF Retry!Complete

\* reschedule_failed ends one try.
LEMMA RetryFail ==
  ASSUME TypeOK, BudgetInv, NEW w \in Worker, RescheduleFailed(w),
         NEW j \in PlainJob, held[w].job = j
  PROVE  Retry!Fail({j})
  <1>1. Running(w) /\ j \in Job
    BY PlainIsJob DEF RescheduleFailed, Running
  <1>2. /\ status[j] = "processing" /\ held[w].row = row[j]
        /\ held[w].attempt_count + 1 = runs[j]
    BY <1>1 DEF BudgetInv, Owner, Budget
  <1>3. \A i \in PlainJob : status'[i] = IF i # j THEN status[i]
                              ELSE IF runs[j] >= MaxAttempts THEN "dead" ELSE "pending"
    BY <1>1, <1>2, PlainIsJob DEF RescheduleFailed, TypeOK
  <1>4. [i \in PlainJob |-> Phase(status[i])]' =
          [i \in PlainJob |-> IF i \in {j} /\ [k \in PlainJob |-> runs[k]][i] >= MaxAttempts
                              THEN "dead" ELSE [k \in PlainJob |-> Phase(status[k])][i]]
    BY <1>2, <1>3 DEF Phase
  <1>5. [i \in PlainJob |-> status[i] = "processing"]' =
          [i \in PlainJob |-> i \notin {j} /\ [k \in PlainJob |-> status[k] = "processing"][i]]
    BY <1>3
  <1>6. UNCHANGED <<runs, served>>
    BY DEF RescheduleFailed, history
  <1>7. QED
    BY <1>2, <1>4, <1>5, <1>6 DEF Retry!Fail

\* Steps on other keys are stutters.
LEMMA RetryOther ==
  ASSUME TypeOK, NEW k \in Job \ PlainJob,
         \/ EnqueueWebhook(k) \/ EnqueueInvite(k) \/ DeleteInvite(k)
         \/ \E w \in Worker : Claim(w, k)
         \/ \E w \in Worker : /\ held[w].job = k
                              /\ HandleOk(w) \/ MarkDone(w) \/ RescheduleFailed(w)
  PROVE  UNCHANGED Retry!vars
  <1>1. \A i \in PlainJob : i \in Job /\ i # k
    BY PlainIsJob
  <1>2. \A i \in PlainJob : status'[i] = status[i]
    BY <1>1 DEF EnqueueWebhook, EnqueueInvite, DeleteInvite, FreshRow, Claim,
                HandleOk, MarkDone, RescheduleFailed, rowVars, TypeOK
  <1>3. \A i \in PlainJob : runs'[i] = runs[i] /\ served'[i] = served[i]
    BY <1>1 DEF EnqueueWebhook, EnqueueInvite, DeleteInvite, FreshRow, Claim,
                HandleOk, MarkDone, RescheduleFailed, history, TypeOK
  <1>4. QED
    BY <1>2, <1>3, RetryStutter

LEMMA RetryStep ==
  ASSUME TypeOK, BudgetInv, RequestInv, PayloadInv, [Next]_vars
  PROVE  [Retry!Next]_(Retry!vars)
  <1>1. ASSUME NEW k \in WebhookJob, EnqueueWebhook(k) PROVE UNCHANGED Retry!vars
    BY <1>1, RetryOther, ConstantsAssumption DEF Job
  <1>2. ASSUME NEW k \in InviteJob, EnqueueInvite(k) \/ DeleteInvite(k)
        PROVE  UNCHANGED Retry!vars
    BY <1>2, RetryOther, ConstantsAssumption DEF Job
  <1>3. ASSUME NEW k \in PlainJob, EnqueuePlain(k) PROVE [Retry!Next]_(Retry!vars)
    BY <1>3, RetryEnqueue DEF Retry!Next
  <1>4. ASSUME NEW w \in Worker, Poll(w) PROVE [Retry!Next]_(Retry!vars)
    <2>1. PICK S \in SUBSET PlainJob : S = Stale \cap PlainJob
      OBVIOUS
    <2>2. Retry!Fail(S)
      BY <1>4, <2>1, RetryPoll
    <2>3. QED
      BY <2>2 DEF Retry!Next
  <1>5. ASSUME NEW w \in Worker, NEW k \in Job, Claim(w, k)
        PROVE  [Retry!Next]_(Retry!vars)
    BY <1>5, RetryClaim, RetryOther DEF Retry!Next
  <1>6. ASSUME NEW w \in Worker, HandleOk(w) \/ MarkDone(w) \/ RescheduleFailed(w)
        PROVE  [Retry!Next]_(Retry!vars)
    <2>1. held[w].job \in Job
      BY <1>6, HeldType DEF HandleOk, MarkDone, RescheduleFailed, Running
    <2>2. ASSUME NEW j \in PlainJob, held[w].job = j PROVE Retry!Next
      <3>1. Retry!Work(j) \/ Retry!Complete(j) \/ Retry!Fail({j})
        BY <1>6, <2>2, RetryWork, RetryComplete, RetryFail
      <3>2. QED
        BY <3>1 DEF Retry!Next
    <2>3. CASE held[w].job \notin PlainJob
      BY <1>6, <2>1, <2>3, RetryOther
    <2>4. QED
      BY <2>2, <2>3
  <1>7. ASSUME UNCHANGED <<status, runs, served>> PROVE UNCHANGED Retry!vars
    BY <1>7, RetryStutter
  <1>8. ASSUME NEW w \in Worker, ClaimNothing(w) \/ HandleErr(w) \/ Crash(w) \/ Restart(w)
        PROVE  UNCHANGED Retry!vars
    BY <1>7, <1>8 DEF ClaimNothing, HandleErr, Crash, Restart, rowVars, history
  <1>9. ASSUME NEW k \in Job, BecomeDue(k) \/ Expire(k) PROVE UNCHANGED Retry!vars
    BY <1>7, <1>9 DEF BecomeDue, Expire, history
  <1>10. CASE UNCHANGED vars
    BY <1>7, <1>10 DEF vars, rowVars, history
  <1>11. QED
    BY <1>1, <1>2, <1>3, <1>4, <1>5, <1>6, <1>8, <1>9, <1>10 DEF Next, ClaimSome

\* The queue implements the abstract promise for its plain jobs.
THEOREM PlainJobsAreRetriedFaithfully ==
  ASSUME ~SlowHandlers PROVE Spec => ImplementsBoundedRetry
  <1>1. Init => Retry!Init
    <2> SUFFICES ASSUME Init PROVE Retry!Init
      OBVIOUS
    <2>1. \A j \in PlainJob : /\ Phase(status[j]) = "none" /\ runs[j] = 0
                              /\ (status[j] = "processing") = FALSE
                              /\ (served[j] > 0) = FALSE
      BY PlainIsJob DEF Init, Phase
    <2>2. QED
      BY <2>1, Zenon DEF Retry!Init
  <1>2. Spec => []RequestInv
    BY RequestInit, RequestStep, TypeCorrect, PTL DEF Spec
  <1>3. TypeOK /\ BudgetInv /\ RequestInv /\ PayloadInv /\ [Next]_vars
          => [Retry!Next]_(Retry!vars)
    BY RetryStep
  <1>4. QED
    BY <1>1, <1>2, <1>3, TypeCorrect, BudgetInvariant, PayloadInvariant, PTL
       DEF Spec, Retry!Spec, ImplementsBoundedRetry

-----------------------------------------------------------------------------
LEMMA ExponentIsClamped ==
  ASSUME NEW attempt \in Int
  PROVE  /\ Exponent(attempt) \in 0 .. 5
         /\ attempt <= 1 => Exponent(attempt) = 0
         /\ attempt \in 1 .. 6 => Exponent(attempt) = attempt - 1
         /\ attempt >= 6 => Exponent(attempt) = 5
BY DEF Exponent

\* The delay is what it says for each exponent, whatever the attempt.
LEMMA DelayOf ==
  ASSUME NEW attempt \in Int
  PROVE  LET e == Exponent(attempt)
             d == retry_delay_seconds(attempt)
         IN  \/ e = 0 /\ d = 10
             \/ e = 1 /\ d = 20
             \/ e = 2 /\ d = 40
             \/ e = 3 /\ d = 80
             \/ e = 4 /\ d = 160
             \/ e = 5 /\ d = 300
<1> DEFINE e == Exponent(attempt)
<1>1. e \in 0 .. 5
  BY ExponentIsClamped
<1>2. /\ PowerOfTwo[1] = 1 /\ PowerOfTwo[2] = 2 /\ PowerOfTwo[3] = 4
      /\ PowerOfTwo[4] = 8 /\ PowerOfTwo[5] = 16 /\ PowerOfTwo[6] = 32
  BY DEF PowerOfTwo
<1> HIDE DEF e
<1>3. \/ e = 0 /\ Smaller(10 * PowerOfTwo[e + 1], 300) = 10
      \/ e = 1 /\ Smaller(10 * PowerOfTwo[e + 1], 300) = 20
      \/ e = 2 /\ Smaller(10 * PowerOfTwo[e + 1], 300) = 40
      \/ e = 3 /\ Smaller(10 * PowerOfTwo[e + 1], 300) = 80
      \/ e = 4 /\ Smaller(10 * PowerOfTwo[e + 1], 300) = 160
      \/ e = 5 /\ Smaller(10 * PowerOfTwo[e + 1], 300) = 300
  BY <1>1, <1>2 DEF Smaller
<1> QED
  BY <1>3 DEF e, retry_delay_seconds

\* queue.rs retry_delay_seconds is exponential backoff: it starts with ten
\* seconds, every failure doubles it, up to the cap, where it stays for all
\* later attempts; and no attempt number that a row may hold, zero and below
\* included, makes a job due at once or never.
THEOREM DelayIsBackoff ==
  ASSUME NEW attempt \in Int
  PROVE  /\ retry_delay_seconds(attempt) \in 10 .. 300
         /\ attempt <= 1 => retry_delay_seconds(attempt) = 10
         /\ attempt >= 1 =>
              retry_delay_seconds(attempt + 1) = Smaller(2 * retry_delay_seconds(attempt), 300)
<1>1. attempt + 1 \in Int
  OBVIOUS
<1>2. /\ retry_delay_seconds(attempt) \in 10 .. 300
      /\ attempt <= 1 => retry_delay_seconds(attempt) = 10
  BY DelayOf, ExponentIsClamped
<1>3. ASSUME attempt >= 1
      PROVE  retry_delay_seconds(attempt + 1) = Smaller(2 * retry_delay_seconds(attempt), 300)
  <2>1. CASE attempt \in 1 .. 5
    <3>1. Exponent(attempt) = attempt - 1 /\ Exponent(attempt + 1) = attempt
      BY <2>1, <1>1, ExponentIsClamped
    <3> QED
      BY <3>1, <2>1, <1>1, DelayOf DEF Smaller
  <2>2. CASE attempt >= 6
    <3>1. Exponent(attempt) = 5 /\ Exponent(attempt + 1) = 5
      BY <2>2, <1>1, ExponentIsClamped
    <3> QED
      BY <3>1, <1>1, DelayOf DEF Smaller
  <2> QED
    BY <1>3, <2>1, <2>2
<1> QED
  BY <1>2, <1>3
=============================================================================
