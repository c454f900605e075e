------------------------------- MODULE Uploads -------------------------------
(***************************************************************************)
(* Temporary uploads of one project: their files and rows, the comments    *)
(* and new issues that consume them (routes/issues.rs), and the clean-up   *)
(* in the worker's loop (handlers/sync.rs).  A file and its row are        *)
(* changed one after the other; one action is one SQL statement, one       *)
(* operation on a file or one GitLab request.                              *)
(*                                                                         *)
(* A request runs once; an attachment has a fresh id in each request, so   *)
(* it is the pair of the request and the upload it comes from.  All        *)
(* uploads and requests are those of one user and, except drafts, of one   *)
(* issue: fetch_referenced_uploads finds no others.  Definitions marked    *)
(* `Slip` are the next definition with one plausible mistake.              *)
(***************************************************************************)
EXTENDS Naturals, FiniteSets

CONSTANTS
  Upload,       \* ids of issue_uploads
  Req,          \* requests that post a comment or create an issue
  MaxFailures   \* bound: requests, uploads, deletions and clean-ups that fail or die

ASSUME ConstantsAssumption ==
  IsFiniteSet(Upload) /\ IsFiniteSet(Req) /\ MaxFailures \in Nat

Attachment == Req \X Upload

\* With an active integration the uploads go to GitLab.
Kind == {"comment", "issue", "gitlab comment", "gitlab issue"}

VARIABLES
  row,       \* each row of issue_uploads; consumed: consumed_at is set
  draft,     \* uploads without an issue (issue_id IS NULL)
  expired,   \* uploads older than temp_upload_retention_hours
  temp,      \* files in the upload directory
  stored,    \* files in the attachment store
  attached,  \* rows of issue_attachments with storage_backend 'local'
  linked,    \* ... those with a comment_id
  sent,      \* files uploaded to GitLab
  upload,    \* the request that uploads or deletes each upload
  sweep,     \* what the clean-up has done with each upload
  pc, kind,  \* where each request is, and what it does
  found,     \* the rows it read
  todo,      \* uploads that the current loop of the request has still to handle
  number,    \* local note number it will use, without the minus sign
  comment,   \* local note number of its comment, 0 when there is none
  failures

fileVars == <<temp, stored, sent>>
rowVars == <<row, draft, attached, linked, comment>>
reqVars == <<pc, kind, found, todo, number>>
vars == <<fileVars, rowVars, reqVars, expired, upload, sweep, failures>>

-----------------------------------------------------------------------------
Init ==
  /\ row = [u \in Upload |-> "none"]
  /\ draft = {} /\ expired = {}
  /\ temp = {} /\ stored = {} /\ attached = {} /\ linked = {} /\ sent = {}
  /\ upload = [u \in Upload |-> "none"]
  /\ sweep = [u \in Upload |-> "no"]
  /\ pc = [r \in Req |-> "idle"]
  /\ kind = [r \in Req |-> "none"]
  /\ found = [r \in Req |-> {}]
  /\ todo = [r \in Req |-> {}]
  /\ number = [r \in Req |-> 0]
  /\ comment = [r \in Req |-> 0]
  /\ failures = 0

(***************************************************************************)
(* Uploading and deleting.                                                 *)
(***************************************************************************)

\* upload_issue_attachment, upload_project_issue_attachment: file, then row.
WriteFile(u) ==
  /\ upload[u] = "none"
  /\ upload' = [upload EXCEPT ![u] = "writing"]
  /\ temp' = temp \cup {u}
  /\ UNCHANGED <<rowVars, reqVars, stored, sent, expired, sweep, failures>>

InsertRow(u) ==
  /\ upload[u] = "writing"
  /\ upload' = [upload EXCEPT ![u] = "idle"]
  /\ row' = [row EXCEPT ![u] = "live"]
  /\ draft' \in {draft, draft \cup {u}}
  /\ UNCHANGED <<fileVars, attached, linked, comment, reqVars, expired, sweep, failures>>

\* The clock passes the row's retention window.
Expire(u) ==
  /\ row[u] # "none"
  /\ expired' = expired \cup {u}
  /\ UNCHANGED <<fileVars, rowVars, reqVars, upload, sweep, failures>>

\* delete_issue_upload reads the row ...
BeginDelete(u) ==
  /\ upload[u] = "idle" /\ row[u] = "live"
  /\ upload' = [upload EXCEPT ![u] = "deleting"]
  /\ UNCHANGED <<fileVars, rowVars, reqVars, expired, sweep, failures>>

Delete(u) == row' = [row EXCEPT ![u] = IF @ = "live" THEN "gone" ELSE @]

\* Slip: nothing is left to be done after the DELETE.
DeleteRowOnly(u) ==
  /\ upload[u] = "deleting"
  /\ Delete(u)
  /\ upload' = [upload EXCEPT ![u] = "idle"]
  /\ UNCHANGED <<fileVars, draft, attached, linked, comment, reqVars, expired, sweep, failures>>

\* ... deletes it unless it has been consumed meanwhile ...
DeleteRow(u) ==
  /\ upload[u] = "deleting"
  /\ Delete(u)
  /\ upload' = [upload EXCEPT ![u] = "removing"]
  /\ UNCHANGED <<fileVars, draft, attached, linked, comment, reqVars, expired, sweep, failures>>

\* ... and removes the file in any case.
RemoveFile(u) ==
  /\ upload[u] = "removing"
  /\ temp' = temp \ {u}
  /\ upload' = [upload EXCEPT ![u] = "idle"]
  /\ UNCHANGED <<rowVars, reqVars, stored, sent, expired, sweep, failures>>

\* An upload or a deletion fails or dies after its first step.
FailUpload(u) ==
  /\ upload[u] \in {"writing", "deleting", "removing"}
  /\ failures < MaxFailures
  /\ failures' = failures + 1
  /\ upload' = [upload EXCEPT ![u] = IF @ = "writing" THEN "lost" ELSE "idle"]
  /\ UNCHANGED <<fileVars, rowVars, reqVars, expired, sweep>>

(***************************************************************************)
(* The clean-up.  Its steps are idempotent, so that the sweep of a second  *)
(* worker could do nothing else.                                           *)
(***************************************************************************)
Expirable(u) == row[u] = "live" /\ u \in expired

\* Slip: the retention window is not looked at.
SweepListAll ==
  /\ \A u \in Upload : sweep[u] = "no"
  /\ sweep' = [u \in Upload |-> IF row[u] = "live" THEN "listed" ELSE "no"]
  /\ UNCHANGED <<fileVars, rowVars, reqVars, expired, upload, failures>>

SweepList ==
  /\ \A u \in Upload : sweep[u] = "no"
  /\ sweep' = [u \in Upload |-> IF Expirable(u) THEN "listed" ELSE "no"]
  /\ UNCHANGED <<fileVars, rowVars, reqVars, expired, upload, failures>>

\* Slip: a missing file is an error.
SweepRemoveStrict(u) ==
  /\ sweep[u] = "listed" /\ u \in temp
  /\ \A v \in Upload : sweep[v] # "removed"
  /\ sweep' = [sweep EXCEPT ![u] = "removed"]
  /\ temp' = temp \ {u}
  /\ UNCHANGED <<rowVars, reqVars, stored, sent, expired, upload, failures>>

\* The file goes first; that it is missing is no error.
SweepRemove(u) ==
  /\ sweep[u] = "listed"
  /\ \A v \in Upload : sweep[v] # "removed"
  /\ sweep' = [sweep EXCEPT ![u] = "removed"]
  /\ temp' = temp \ {u}
  /\ UNCHANGED <<rowVars, reqVars, stored, sent, expired, upload, failures>>

SweepDelete(u) ==
  /\ sweep[u] = "removed"
  /\ sweep' = [sweep EXCEPT ![u] = "no"]
  /\ Delete(u)
  /\ UNCHANGED <<fileVars, draft, attached, linked, comment, reqVars, expired, upload, failures>>

\* A DELETE fails, which ends the sweep, or the worker dies.
FailSweep ==
  /\ \E u \in Upload : sweep[u] # "no"
  /\ failures < MaxFailures
  /\ failures' = failures + 1
  /\ sweep' = [u \in Upload |-> "no"]
  /\ UNCHANGED <<fileVars, rowVars, reqVars, expired, upload>>

(***************************************************************************)
(* Comments and new issues.                                                *)
(***************************************************************************)
Goto(r, at) == pc' = [pc EXCEPT ![r] = at]

\* Slip: the loop ends after its first round.
HandledAll(r, u, loop, next, nextTodo) ==
  Goto(r, next) /\ todo' = [todo EXCEPT ![r] = nextTodo]

\* The request has handled upload u and goes on when no other is left.
Handled(r, u, loop, next, nextTodo) ==
  IF todo[r] = {u}
    THEN Goto(r, next) /\ todo' = [todo EXCEPT ![r] = nextTodo]
    ELSE Goto(r, loop) /\ todo' = [todo EXCEPT ![r] = @ \ {u}]

\* fetch_referenced_uploads; the body names at least one upload.
Find(r, k, named) ==
  /\ pc[r] = "idle"
  /\ LET us == {u \in named : row[u] = "live" /\ (u \in draft <=> k \in {"issue", "gitlab issue"})}
     IN  /\ us # {}
         /\ found' = [found EXCEPT ![r] = us]
         /\ todo' = [todo EXCEPT ![r] = us]
  /\ kind' = [kind EXCEPT ![r] = k]
  /\ Goto(r, CASE k = "comment" -> "number"
               [] k = "issue" -> "move"
               [] OTHER -> "send")
  /\ UNCHANGED <<fileVars, rowVars, number, expired, upload, sweep, failures>>

\* Slip: the numbers go up, to those of GitLab.
NumberUp(r) ==
  /\ pc[r] = "number"
  /\ LET last == CHOOSE n \in {comment[s] : s \in Req} : \A s \in Req : comment[s] <= n
     IN  number' = [number EXCEPT ![r] = last - 1]
  /\ Goto(r, "move")
  /\ UNCHANGED <<fileVars, rowVars, kind, found, todo, expired, upload, sweep, failures>>

\* next_local_note_id: one less than the least, GitLab's being positive
Number(r) ==
  /\ pc[r] = "number"
  /\ LET last == CHOOSE n \in {comment[s] : s \in Req} : \A s \in Req : comment[s] <= n
     IN  number' = [number EXCEPT ![r] = last + 1]
  /\ Goto(r, "move")
  /\ UNCHANGED <<fileVars, rowVars, kind, found, todo, expired, upload, sweep, failures>>

\* Slip: the file is copied.
Copy(r, u) ==
  /\ pc[r] = "move" /\ u \in todo[r] /\ u \in temp
  /\ stored' = stored \cup {<<r, u>>}
  /\ Goto(r, "attach")
  /\ UNCHANGED <<rowVars, kind, found, todo, number, temp, sent, expired, upload, sweep, failures>>

\* persist_local_comment_attachments, persist_local_issue_attachments: rename ...
Move(r, u) ==
  /\ pc[r] = "move" /\ u \in todo[r] /\ u \in temp
  /\ temp' = temp \ {u}
  /\ stored' = stored \cup {<<r, u>>}
  /\ Goto(r, "attach")
  /\ UNCHANGED <<rowVars, kind, found, todo, number, sent, expired, upload, sweep, failures>>

\* ... and insert the attachment.
Attach(r, u) ==
  /\ pc[r] = "attach" /\ u \in todo[r] /\ <<r, u>> \in stored
  /\ attached' = attached \cup {<<r, u>>}
  /\ Handled(r, u, "move", IF kind[r] = "comment" THEN "comment" ELSE "consume", found[r])
  /\ UNCHANGED <<fileVars, row, draft, linked, comment, kind, found, number, expired, upload,
                 sweep, failures>>

\* The INSERT of the local comment; UNIQUE (issue_id, gitlab_note_id).
Comment(r) ==
  /\ pc[r] = "comment"
  /\ \A s \in Req : comment[s] # number[r]
  /\ comment' = [comment EXCEPT ![r] = number[r]]
  /\ Goto(r, "link")
  /\ UNCHANGED <<fileVars, row, draft, attached, linked, kind, found, todo, number, expired,
                 upload, sweep, failures>>

\* attach_local_attachments_to_comment
Link(r, u) ==
  /\ pc[r] = "link" /\ u \in todo[r]
  /\ linked' = linked \cup {<<r, u>>}
  /\ Handled(r, u, "link", "consume", found[r])
  /\ UNCHANGED <<fileVars, row, draft, attached, comment, kind, found, number, expired, upload,
                 sweep, failures>>

\* replace_temp_uploads_with_gitlab_uploads: the file is read and sent.
Send(r, u) ==
  /\ pc[r] = "send" /\ u \in todo[r] /\ u \in temp
  /\ sent' = sent \cup {u}
  /\ Handled(r, u, "send", "post", found[r])
  /\ UNCHANGED <<rowVars, kind, found, number, temp, stored, expired, upload, sweep, failures>>

\* GitLab gets the comment or issue; its row is stored (see IssueSync).
Post(r) ==
  /\ pc[r] = "post"
  /\ Goto(r, "consume")
  /\ UNCHANGED <<fileVars, rowVars, kind, found, todo, number, expired, upload, sweep, failures>>

\* cleanup_consumed_uploads; a row that was deleted meanwhile stays so.
Consume(r, u) ==
  /\ pc[r] = "consume" /\ u \in todo[r]
  /\ row' = [row EXCEPT ![u] = IF @ = "live" THEN "consumed" ELSE @]
  /\ Handled(r, u, "consume", "done", {})
  /\ UNCHANGED <<fileVars, draft, attached, linked, comment, kind, found, number, expired,
                 upload, sweep, failures>>

\* The file has been moved or removed meanwhile, or the number given away.
Refuse(r) ==
  /\ \/ pc[r] \in {"move", "send"} /\ ~(todo[r] \subseteq temp)
     \/ pc[r] = "comment" /\ \E s \in Req : comment[s] = number[r]
  /\ Goto(r, "failed")
  /\ UNCHANGED <<fileVars, rowVars, kind, found, todo, number, expired, upload, sweep, failures>>

\* The database or GitLab fails, or the API dies.
Fail(r) ==
  /\ pc[r] \notin {"idle", "done", "failed"}
  /\ failures < MaxFailures
  /\ failures' = failures + 1
  /\ Goto(r, "failed")
  /\ UNCHANGED <<fileVars, rowVars, kind, found, todo, number, expired, upload, sweep>>

-----------------------------------------------------------------------------
Next ==
  \/ \E u \in Upload :
       \/ WriteFile(u) \/ InsertRow(u) \/ Expire(u)
       \/ BeginDelete(u) \/ DeleteRow(u) \/ RemoveFile(u) \/ FailUpload(u)
       \/ SweepRemove(u) \/ SweepDelete(u)
  \/ SweepList \/ FailSweep
  \/ \E r \in Req :
       \/ \E k \in Kind, named \in SUBSET Upload : Find(r, k, named)
       \/ Number(r) \/ Comment(r) \/ Post(r) \/ Refuse(r) \/ Fail(r)
       \/ \E u \in Upload :
            Move(r, u) \/ Attach(r, u) \/ Link(r, u) \/ Send(r, u) \/ Consume(r, u)

Spec == Init /\ [][Next]_vars

\* The worker's loop calls the clean-up every 15 minutes.
Fairness ==
  /\ WF_vars(SweepList)
  /\ \A u \in Upload : WF_vars(SweepRemove(u)) /\ WF_vars(SweepDelete(u))

FairSpec == Spec /\ Fairness

-----------------------------------------------------------------------------
\* Rows, files and requests have their types.
TypeOK ==
  /\ row \in [Upload -> {"none", "live", "consumed", "gone"}]
  /\ draft \subseteq Upload /\ expired \subseteq Upload
  /\ temp \subseteq Upload /\ sent \subseteq Upload
  /\ stored \subseteq Attachment /\ attached \subseteq Attachment /\ linked \subseteq Attachment
  /\ upload \in [Upload -> {"none", "writing", "idle", "deleting", "removing", "lost"}]
  /\ sweep \in [Upload -> {"no", "listed", "removed"}]
  /\ pc \in [Req -> {"idle", "number", "move", "attach", "comment", "link", "send", "post",
                    "consume", "done", "failed"}]
  /\ kind \in [Req -> Kind \cup {"none"}]
  /\ found \in [Req -> SUBSET Upload] /\ todo \in [Req -> SUBSET Upload]
  /\ number \in [Req -> Nat] /\ comment \in [Req -> Nat]
  /\ failures \in Nat

\* An attachment has its file, and no upload becomes two attachments, although
\* two requests may find the same row and a sweep or deletion may be under way.
AttachedOnce ==
  /\ attached \subseteq stored
  /\ \A r, s \in Req, u \in Upload : <<r, u>> \in attached /\ <<s, u>> \in attached => r = s

\* Request r has moved the file of u and is about to insert the attachment.
Moving(r, u) == pc[r] = "attach" /\ u \in todo[r] /\ <<r, u>> \in stored

\* A file whose row has not expired, nor been deleted, and that nobody has.
Lost(u) ==
  /\ row[u] \in {"live", "consumed"} /\ u \notin expired
  /\ u \notin temp /\ u \notin sent
  /\ \A r \in Req : <<r, u>> \notin attached /\ ~Moving(r, u)

\* What was uploaded is in the upload directory, in GitLab or in an attachment
\* until it expires or the user deletes it; a request, a deletion and a sweep
\* that meet on it lose nothing.  Only a failure between two steps does.
BytesAreKept == Cardinality({u \in Upload : Lost(u)}) <= failures

\* Files that no row will ever lead to and nobody is working on.
Orphans ==
  {u \in temp : row[u] \in {"none", "gone"} /\ upload[u] \notin {"writing", "removing"}}
  \cup {a \in stored \ attached : ~Moving(a[1], a[2])}

\* Each of them is the price of a failure.
OrphansNeedFailures == Cardinality(Orphans) <= failures

\* A request that succeeds has given all its uploads to its comment or issue,
\* and no later request finds one of them again.
SuccessIsComplete ==
  \A r \in Req : pc[r] = "done" =>
    \A u \in found[r] :
      /\ row[u] # "live"
      /\ \/ kind[r] \in {"gitlab comment", "gitlab issue"} /\ u \in sent
         \/ kind[r] = "issue" /\ <<r, u>> \in attached
         \/ kind[r] = "comment" /\ <<r, u>> \in attached \cap linked

\* The row of an upload that was never sent goes away, even if its file did
\* so before, in an attempt that failed.
ExpiredAreRemoved == \A u \in Upload : Expirable(u) ~> row[u] # "live"
=============================================================================
