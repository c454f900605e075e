------------------------------ MODULE IssueSync ------------------------------
(***************************************************************************)
(* The issues of one project and their GitLab counterparts: what the API   *)
(* (routes/issues.rs) and the worker's handlers (handlers/sync.rs) read    *)
(* and write, call by call.  One action is one SQL statement or one GitLab *)
(* request; between two of them GitLab users, other requests and other     *)
(* workers act, and the activity may fail or its process may die.          *)
(*                                                                         *)
(* The text of an issue is its state (open or closed) and its body: title  *)
(* and description, as the number of the edit that wrote them.  The queue  *)
(* is abstracted to what JobQueue shows of it: a job that is due is run at *)
(* least once, perhaps while another run for the same issue is under way,  *)
(* and may get lost.                                                       *)
(*                                                                         *)
(* Definitions marked `Slip` are not used by the specification: each is    *)
(* the next definition with one plausible mistake, and shows which         *)
(* property would notice it.                                               *)
(***************************************************************************)
EXTENDS Naturals, FiniteSets

CONSTANTS
  Proc,         \* API requests and worker handlers that can be under way at once
  ApiIssue,     \* ids of the rows that create_issue inserts
  MaxIid,       \* bound: issues of the GitLab project
  MaxEdits,     \* bound: texts that users write, on either side
  MaxFailures,  \* bound: activities that fail or die
  NoIssue

Iid == 1..MaxIid

\* The row that a pull of GitLab issue i inserts, at most once, has the id i.
Issue == ApiIssue \cup Iid

Text == [body : Nat, open : BOOLEAN]
NoText == [body |-> 0, open |-> TRUE]

ASSUME ConstantsAssumption ==
  /\ MaxIid \in Nat /\ MaxEdits \in Nat /\ MaxFailures \in Nat
  /\ ApiIssue \cap Iid = {}
  /\ NoIssue \notin Issue

VARIABLES
  enabled,     \* the integration exists and has sync_enabled
  gitlab,      \* text of each GitLab issue, NoText when it does not exist
  iid,         \* gitlab_issue_iid of each local row, 0 for NULL
  text,        \* text of each local row
  sync_state,  \* sync_state of each local row, "absent" when it does not exist
  ref,         \* external_issue_id in issue_external_refs, 0 without a row
  pull_due,    \* a webhook, pull or reconcile job for the GitLab issue is due
  missed,      \* history: such a job was lost or skipped since the last fetch
  push_due,    \* an issue.sync.push job for the local row is due
  op,          \* the activity of each Proc
  maker,       \* history: the row whose push job created the GitLab issue
  doubled,     \* history: rows without a number that two pushes had at once
  crossed,     \* history: activities that others have shared an issue with
  blurred,     \* history: rows that a crossed activity was the last to write
  edits, failures

rowVars == <<iid, text, sync_state, ref>>
queueVars == <<pull_due, missed, push_due>>
history == <<maker, doubled, crossed, blurred>>
vars == <<enabled, gitlab, rowVars, queueVars, op, history, edits, failures>>

Idle == [kind |-> "none", at |-> "idle", issue |-> NoIssue, iid |-> 0,
         text |-> NoText, event |-> FALSE]

Kind == {"pull", "push", "create", "update"}

\* What an activity has read or been asked for; `event`: state_event is sent.
Op == [kind : Kind,
       at : {"load", "remote", "local", "store", "link", "insert", "ref"},
       issue : Issue \cup {NoIssue}, iid : Iid \cup {0}, text : Text, event : BOOLEAN]

Exists(r) == sync_state[r] # "absent"

\* Activity q works on row r or on GitLab issue i.
Touches(q, r, i) ==
  \/ r # NoIssue /\ op[q].issue = r
  \/ i # 0 /\ op[q].iid = i
  \/ i # 0 /\ op[q].issue # NoIssue /\ iid[op[q].issue] = i

\* Another row is mapped to GitLab issue i: UNIQUE (project_id, gitlab_issue_iid).
Taken(i, r) == \E s \in Issue \ {r} : iid[s] = i

-----------------------------------------------------------------------------
Init ==
  /\ enabled = TRUE
  /\ gitlab = [i \in Iid |-> NoText]
  /\ iid = [r \in Issue |-> 0]
  /\ text = [r \in Issue |-> NoText]
  /\ sync_state = [r \in Issue |-> "absent"]
  /\ ref = [r \in Issue |-> 0]
  /\ pull_due = [i \in Iid |-> FALSE]
  /\ missed = [i \in Iid |-> FALSE]
  /\ push_due = [r \in Issue |-> FALSE]
  /\ op = [p \in Proc |-> Idle]
  /\ maker = [i \in Iid |-> NoIssue]
  /\ doubled = {} /\ crossed = {} /\ blurred = {}
  /\ edits = 0
  /\ failures = 0

(***************************************************************************)
(* GitLab and the administrator.                                           *)
(***************************************************************************)

\* GitLab stores text t for issue i and calls the project's webhook.
GitlabWrites(i, t) ==
  /\ gitlab' = [gitlab EXCEPT ![i] = t]
  /\ pull_due' = [pull_due EXCEPT ![i] = TRUE]

\* The number that GitLab gives to the next issue of the project.
NextIid(i) == \A k \in Iid : gitlab[k] # NoText <=> k < i

\* A user changes the body of text t, its state, or both.
Edited(t) == [body : {t.body, edits + 1}, open : BOOLEAN] \ {t}

GitlabEdit(i) ==
  /\ edits < MaxEdits
  /\ edits' = edits + 1
  /\ \/ gitlab[i] # NoText /\ \E t \in Edited(gitlab[i]) : GitlabWrites(i, t)
     \/ NextIid(i) /\ GitlabWrites(i, [body |-> edits + 1, open |-> TRUE])
  /\ UNCHANGED <<enabled, rowVars, missed, push_due, op, history, failures>>

\* upsert_gitlab_integration, delete_gitlab_integration.
Toggle ==
  /\ enabled' = ~enabled
  /\ UNCHANGED <<gitlab, rowVars, queueVars, op, history, edits, failures>>

\* The administrator enqueues a pull, a reconcile or a push job.
RequestPull(i) ==
  /\ gitlab[i] # NoText
  /\ pull_due' = [pull_due EXCEPT ![i] = TRUE]
  /\ UNCHANGED <<enabled, gitlab, rowVars, missed, push_due, op, history, edits, failures>>

RequestPush(r) ==
  /\ Exists(r)
  /\ push_due' = [push_due EXCEPT ![r] = TRUE]
  /\ UNCHANGED <<enabled, gitlab, rowVars, pull_due, missed, op, history, edits, failures>>

\* The webhook is not delivered, or its job dies or is closed unprocessed.
LosePull(i) ==
  /\ pull_due[i]
  /\ pull_due' = [pull_due EXCEPT ![i] = FALSE]
  /\ missed' = [missed EXCEPT ![i] = TRUE]
  /\ UNCHANGED <<enabled, gitlab, rowVars, push_due, op, history, edits, failures>>

(***************************************************************************)
(* An activity begins by reading the row it is about, and then the         *)
(* integration.                                                            *)
(***************************************************************************)
Begin(p, kind, r, i, t, event) ==
  /\ op[p] = Idle
  /\ op' = [op EXCEPT ![p] = [kind |-> kind, at |-> "load", issue |-> r, iid |-> i,
                              text |-> t, event |-> event]]
  /\ LET others == {q \in Proc : Touches(q, r, i)}
     IN  crossed' = crossed \cup others \cup (IF others = {} THEN {} ELSE {p})

BeginPull(p, i) ==
  /\ pull_due[i]
  /\ Begin(p, "pull", NoIssue, i, NoText, FALSE)
  /\ pull_due' = [pull_due EXCEPT ![i] = FALSE]
  /\ UNCHANGED <<enabled, gitlab, rowVars, missed, push_due, maker, doubled, blurred, edits, failures>>

\* The row is read once; a push always sends its state.
BeginPush(p, r) ==
  /\ push_due[r] /\ Exists(r)
  /\ Begin(p, "push", r, iid[r], text[r], TRUE)
  /\ push_due' = [push_due EXCEPT ![r] = FALSE]
  /\ doubled' = IF iid[r] = 0 /\ \E q \in Proc : op[q].kind = "push" /\ op[q].issue = r
                 THEN doubled \cup {r} ELSE doubled
  /\ UNCHANGED <<enabled, gitlab, rowVars, pull_due, missed, maker, blurred, edits, failures>>

\* An update sends the state only when it differs from the row's.
BeginUpdate(p, r) ==
  /\ Exists(r) /\ edits < MaxEdits
  /\ \E t \in Edited(text[r]) :
       Begin(p, "update", r, iid[r], t, t.open # text[r].open)
  /\ edits' = edits + 1
  /\ UNCHANGED <<enabled, gitlab, rowVars, queueVars, maker, doubled, blurred, failures>>

\* The new row's id is chosen now; the row does not exist before its INSERT.
BeginCreate(p, r) ==
  /\ ~Exists(r) /\ edits < MaxEdits
  /\ \A q \in Proc : op[q].issue # r
  /\ Begin(p, "create", r, 0, [body |-> edits + 1, open |-> TRUE], FALSE)
  /\ edits' = edits + 1
  /\ UNCHANGED <<enabled, gitlab, rowVars, queueVars, maker, doubled, blurred, failures>>

At(p, kind, at) == op[p].kind = kind /\ op[p].at = at
Continue(p, at) == op' = [op EXCEPT ![p].at = at]

\* Slip: the activity's record is not cleared.
FinishKeeping(p) == op' = [op EXCEPT ![p].at = "idle"] /\ crossed' = crossed \ {p}
Finish(p) == op' = [op EXCEPT ![p] = Idle] /\ crossed' = crossed \ {p}

\* A statement of the activity sets the row's sync_state.
Writes(p, r, state) ==
  /\ sync_state' = [sync_state EXCEPT ![r] = state]
  /\ blurred' = IF p \in crossed THEN blurred \cup {r} ELSE blurred \ {r}

\* The integration was read and sync is on: the activity goes to GitLab.
GoRemote(p) ==
  /\ op[p].at = "load"
  /\ enabled
  /\ op[p].kind = "update" => op[p].iid # 0
  /\ Continue(p, "remote")
  /\ UNCHANGED <<enabled, gitlab, rowVars, queueVars, history, edits, failures>>

\* Sync is off, or the row has no GitLab issue: the API works on the row alone.
GoLocal(p) ==
  /\ \/ At(p, "create", "load") /\ ~enabled
     \/ At(p, "update", "load") /\ (~enabled \/ op[p].iid = 0)
  /\ Continue(p, "local")
  /\ UNCHANGED <<enabled, gitlab, rowVars, queueVars, history, edits, failures>>

\* Sync is off: the handler records that it skipped the job and returns Ok.
Skip(p) ==
  /\ op[p].kind \in {"pull", "push"} /\ op[p].at = "load" /\ ~enabled
  /\ Finish(p)
  /\ missed' = IF op[p].kind = "pull" THEN [missed EXCEPT ![op[p].iid] = TRUE] ELSE missed
  /\ UNCHANGED <<enabled, gitlab, rowVars, pull_due, push_due, maker, doubled, blurred, edits, failures>>

(***************************************************************************)
(* The GitLab requests.                                                    *)
(***************************************************************************)

\* fetch_issue
Fetch(p) ==
  /\ At(p, "pull", "remote")
  /\ op' = [op EXCEPT ![p].at = "store", ![p].text = gitlab[op[p].iid]]
  /\ missed' = [missed EXCEPT ![op[p].iid] = FALSE]
  /\ UNCHANGED <<enabled, gitlab, rowVars, pull_due, push_due, history, edits, failures>>

\* update_project_issue with the text read (push) or requested (update);
\* without a state_event GitLab keeps its state.  The answer is GitLab's text.
Put(p) ==
  /\ op[p].kind \in {"push", "update"} /\ op[p].at = "remote" /\ op[p].iid # 0
  /\ LET i == op[p].iid
         t == IF op[p].event THEN op[p].text ELSE [op[p].text EXCEPT !.open = gitlab[i].open]
     IN  /\ GitlabWrites(i, t)
         /\ op' = [op EXCEPT ![p].at = "store", ![p].text = t]
  /\ UNCHANGED <<enabled, rowVars, missed, push_due, history, edits, failures>>

\* Slip: without the test that the row has no GitLab issue yet.
PostAgain(p) ==
  /\ op[p].kind \in {"push", "create"} /\ op[p].at = "remote"
  /\ \E i \in Iid :
       /\ NextIid(i)
       /\ GitlabWrites(i, [op[p].text EXCEPT !.open = TRUE])
       /\ op' = [op EXCEPT ![p].iid = i,
                           ![p].at = IF op[p].kind = "push" THEN "link" ELSE "insert"]
       /\ maker' = IF op[p].kind = "push" THEN [maker EXCEPT ![i] = op[p].issue] ELSE maker
  /\ UNCHANGED <<enabled, rowVars, missed, push_due, doubled, crossed, blurred, edits, failures>>

\* create_project_issue: the new GitLab issue is open, whatever the row says.
Post(p) ==
  /\ op[p].kind \in {"push", "create"} /\ op[p].at = "remote" /\ op[p].iid = 0
  /\ \E i \in Iid :
       /\ NextIid(i)
       /\ GitlabWrites(i, [op[p].text EXCEPT !.open = TRUE])
       /\ op' = [op EXCEPT ![p].iid = i,
                           ![p].at = IF op[p].kind = "push" THEN "link" ELSE "insert"]
       /\ maker' = IF op[p].kind = "push" THEN [maker EXCEPT ![i] = op[p].issue] ELSE maker
  /\ UNCHANGED <<enabled, rowVars, missed, push_due, doubled, crossed, blurred, edits, failures>>

(***************************************************************************)
(* The database writes that follow.                                        *)
(***************************************************************************)

\* Slip: without upsert_issue_external_ref.
StorePullWithoutRef(p) ==
  /\ At(p, "pull", "store")
  /\ \E r \in Issue :
       /\ \/ iid[r] = op[p].iid
          \/ r = op[p].iid /\ ~Exists(r) /\ ~Taken(op[p].iid, r)
       /\ iid' = [iid EXCEPT ![r] = op[p].iid]
       /\ text' = [text EXCEPT ![r] = op[p].text]
       /\ Writes(p, r, "idle")
  /\ Finish(p)
  /\ UNCHANGED <<enabled, gitlab, ref, queueVars, maker, doubled, edits, failures>>

\* upsert_gitlab_issue_row, its upsert of the row
StorePull(p) ==
  /\ At(p, "pull", "store")
  /\ \E r \in Issue :
       /\ \/ iid[r] = op[p].iid
          \/ r = op[p].iid /\ ~Exists(r) /\ ~Taken(op[p].iid, r)
       /\ iid' = [iid EXCEPT ![r] = op[p].iid]
       /\ text' = [text EXCEPT ![r] = op[p].text]
       /\ Writes(p, r, "idle")
       /\ op' = [op EXCEPT ![p].at = "ref", ![p].issue = r]
  /\ UNCHANGED <<enabled, gitlab, ref, queueVars, maker, doubled, crossed, edits, failures>>

\* handle_sync_push after a PUT
StorePush(p) ==
  /\ At(p, "push", "store")
  /\ Writes(p, op[p].issue, "idle")
  /\ Finish(p)
  /\ UNCHANGED <<enabled, gitlab, iid, text, ref, queueVars, maker, doubled, edits, failures>>

\* Slip: the row is not given the number of its GitLab issue.
LinkWithoutIid(p) ==
  /\ At(p, "push", "link") /\ ~Taken(op[p].iid, op[p].issue)
  /\ Writes(p, op[p].issue, "idle")
  /\ Continue(p, "ref")
  /\ UNCHANGED <<enabled, gitlab, iid, text, ref, queueVars, maker, doubled, crossed, edits,
                 failures>>

\* handle_sync_push after a POST
Link(p) ==
  /\ At(p, "push", "link") /\ ~Taken(op[p].iid, op[p].issue)
  /\ iid' = [iid EXCEPT ![op[p].issue] = op[p].iid]
  /\ Writes(p, op[p].issue, "idle")
  /\ Continue(p, "ref")
  /\ UNCHANGED <<enabled, gitlab, text, ref, queueVars, maker, doubled, crossed, edits, failures>>

\* upsert_issue_external_ref; UNIQUE (project_id, provider, external_issue_id)
StoreRef(p) ==
  /\ op[p].at = "ref"
  /\ \A s \in Issue \ {op[p].issue} : ref[s] # op[p].iid
  /\ ref' = [ref EXCEPT ![op[p].issue] = op[p].iid]
  /\ Finish(p)
  /\ UNCHANGED <<enabled, gitlab, iid, text, sync_state, queueVars, maker, doubled, blurred, edits,
                 failures>>

\* update_issue after a PUT: the row gets what GitLab answered.
StoreUpdate(p) ==
  /\ At(p, "update", "store")
  /\ text' = [text EXCEPT ![op[p].issue] = op[p].text]
  /\ Writes(p, op[p].issue, "idle")
  /\ Finish(p)
  /\ UNCHANGED <<enabled, gitlab, iid, ref, queueVars, maker, doubled, edits, failures>>

\* create_issue after a POST: a plain INSERT, without an external reference.
Insert(p) ==
  /\ At(p, "create", "insert") /\ ~Taken(op[p].iid, op[p].issue)
  /\ iid' = [iid EXCEPT ![op[p].issue] = op[p].iid]
  /\ text' = [text EXCEPT ![op[p].issue] = op[p].text]
  /\ Writes(p, op[p].issue, "idle")
  /\ Finish(p)
  /\ UNCHANGED <<enabled, gitlab, ref, queueVars, maker, doubled, edits, failures>>

\* Slip: a row that GitLab has not seen is called idle.
LocalWriteIdle(p) ==
  /\ op[p].at = "local"
  /\ text' = [text EXCEPT ![op[p].issue] = op[p].text]
  /\ Writes(p, op[p].issue, "idle")
  /\ Finish(p)
  /\ UNCHANGED <<enabled, gitlab, iid, ref, queueVars, maker, doubled, edits, failures>>

\* create_issue and update_issue without GitLab.
LocalWrite(p) ==
  /\ op[p].at = "local"
  /\ text' = [text EXCEPT ![op[p].issue] = op[p].text]
  /\ Writes(p, op[p].issue, "local")
  /\ Finish(p)
  /\ UNCHANGED <<enabled, gitlab, iid, ref, queueVars, maker, doubled, edits, failures>>

(***************************************************************************)
(* An activity ends without finishing; a job is then due again.            *)
(***************************************************************************)
\* Slip: the interrupted job is not due again.
AbortForgetting(p) ==
  /\ Finish(p)
  /\ UNCHANGED <<enabled, gitlab, rowVars, queueVars, maker, doubled, blurred, edits>>

Abort(p) ==
  /\ Finish(p)
  /\ pull_due' = [i \in Iid |-> pull_due[i] \/ (op[p].kind = "pull" /\ op[p].iid = i)]
  /\ push_due' = [r \in Issue |-> push_due[r] \/ (op[p].kind = "push" /\ op[p].issue = r)]
  /\ UNCHANGED <<enabled, gitlab, rowVars, missed, maker, doubled, blurred, edits>>

\* A request to GitLab or the database fails, or the process dies.
Fail(p) ==
  /\ op[p] # Idle
  /\ failures < MaxFailures
  /\ failures' = failures + 1
  /\ Abort(p)

\* The database rejects a row because of one of the two unique constraints.
Reject(p) ==
  /\ \/ op[p].at \in {"link", "insert"} /\ Taken(op[p].iid, op[p].issue)
     \/ op[p].at = "ref" /\ \E s \in Issue \ {op[p].issue} : ref[s] = op[p].iid
  /\ Abort(p)
  /\ UNCHANGED failures
-----------------------------------------------------------------------------
Work(p) ==
  \/ GoRemote(p) \/ GoLocal(p) \/ Skip(p)
  \/ Fetch(p) \/ Put(p) \/ Post(p)
  \/ StorePull(p) \/ StorePush(p) \/ Link(p) \/ StoreRef(p)
  \/ StoreUpdate(p) \/ Insert(p) \/ LocalWrite(p)
  \/ Reject(p)

Next ==
  \/ Toggle
  \/ \E i \in Iid : GitlabEdit(i) \/ RequestPull(i) \/ LosePull(i)
  \/ \E r \in Issue : RequestPush(r)
  \/ \E p \in Proc :
       \/ \E i \in Iid : BeginPull(p, i)
       \/ \E r \in Issue : BeginPush(p, r) \/ BeginUpdate(p, r)
       \/ \E r \in ApiIssue : BeginCreate(p, r)
       \/ Work(p) \/ Fail(p)

Spec == Init /\ [][Next]_vars

\* Due jobs are run, and an activity that has begun goes on.
Fairness ==
  /\ \A i \in Iid : SF_vars(\E p \in Proc : BeginPull(p, i))
  /\ \A p \in Proc : WF_vars(Work(p))

FairSpec == Spec /\ Fairness

-----------------------------------------------------------------------------
\* Rows, references and activities have their types.
TypeOK ==
  /\ enabled \in BOOLEAN
  /\ gitlab \in [Iid -> Text]
  /\ iid \in [Issue -> Iid \cup {0}]
  /\ text \in [Issue -> Text]
  /\ sync_state \in [Issue -> {"absent", "local", "idle"}]
  /\ ref \in [Issue -> Iid \cup {0}]
  /\ pull_due \in [Iid -> BOOLEAN]
  /\ missed \in [Iid -> BOOLEAN]
  /\ push_due \in [Issue -> BOOLEAN]
  /\ op \in [Proc -> Op \cup {Idle}]
  /\ maker \in [Iid -> Issue \cup {NoIssue}]
  /\ doubled \subseteq Issue /\ blurred \subseteq Issue /\ crossed \subseteq Proc
  /\ edits \in Nat /\ failures \in Nat

\* sync_state 'idle' means what it says: unless a job for the GitLab issue is
\* due (or was lost), or something is under way, the row has GitLab's text.
\* GitLab users write, and activities die, between any two steps.  Exempt are
\* the rows that an activity was the last to write that did not have its issue
\* for itself: it may have stored an answer older than another's.
IdleMeansSynced ==
  \A r \in Issue \ blurred :
    /\ sync_state[r] = "idle" /\ iid[r] # 0
    /\ ~pull_due[iid[r]] /\ ~missed[iid[r]]
    /\ \A p \in Proc : ~Touches(p, r, iid[r])
    => text[r] = gitlab[iid[r]]

\* The GitLab issues that pushes of row r created and that are no other row's.
Copies(r) == {i \in Iid : maker[i] = r /\ ~Taken(i, r)}

\* A second GitLab issue for the same row is the price of a failure, of two
\* pushes at once, or of a pull that gave the first one a row of its own.
DuplicatesNeedFailures == \A r \in Issue \ doubled : Cardinality(Copies(r)) <= 1 + failures

\* A row that has a GitLab issue keeps it, whatever runs at once and whatever is
\* retried, unless two pushes found it without one.
MappingIsStable ==
  [][\A r \in Issue \ doubled : iid[r] # 0 => iid'[r] = iid[r]]_vars

\* ... and the two places that map a row to its GitLab issue never disagree.
RefAgrees == \A r \in Issue \ doubled : ref[r] \in {0, iid[r]}

\* A GitLab issue that no job, due or under way or lost, will look at any more
\* has a row, and a reference to it, unless it came of two pushes at once.
EveryIssueIsMapped ==
  \A i \in Iid :
    /\ gitlab[i] # NoText /\ ~pull_due[i] /\ ~missed[i]
    /\ \A p \in Proc : op[p].iid # i
    /\ maker[i] \notin doubled
    => \E r \in Issue : iid[r] = i /\ ref[r] = i

\* GitLab issue i has a row, and that row its text.
Synced(i) == \E r \in Issue : iid[r] = i /\ (sync_state[r] = "idle" => text[r] = gitlab[i])

\* No activity that shared i was the last to write its row or created it twice.
Undisturbed(i) == maker[i] \notin doubled /\ \A r \in blurred : iid[r] # i

\* So does every GitLab issue end up, once sync stays on and no webhook is lost
\* any more, whatever failed before.
EventuallySynced ==
  \A i \in Iid :
    <>[](enabled /\ gitlab[i] # NoText /\ ~missed[i] /\ Undisturbed(i)) => <>[]Synced(i)

-----------------------------------------------------------------------------

=============================================================================
