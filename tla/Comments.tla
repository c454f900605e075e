------------------------------- MODULE Comments -------------------------------
(***************************************************************************)
(* The comments of one GitLab issue: GitLab's discussions, the rows of     *)
(* issue_comments with a GitLab note, and the calls that carry notes from  *)
(* one to the other.                                                       *)
(*                                                                         *)
(* An import reads the discussions page by page and then upserts a row for *)
(* every note, each in a statement of its own; a comment is posted to      *)
(* GitLab and upserted from the answer.  Rows are never deleted.  The      *)
(* users of GitLab may add, edit and delete notes between any two          *)
(* requests.  Definitions marked `Slip` are the next definition with one   *)
(* plausible mistake.                                                      *)
(***************************************************************************)
EXTENDS Integers, Sequences, SequencesExt

CONSTANTS
  MaxNotes,    \* notes that are ever created, ids 1 .. MaxNotes
  MaxChanges,  \* changes in GitLab
  PageSize,    \* discussions in a page
  Run,         \* concurrent imports
  Call         \* concurrent calls of create_issue_comment_handler

Note == 1 .. MaxNotes
NoNote == 0
NoRow == [thread |-> NoNote, reply |-> NoNote, at |-> 0]

VARIABLES
  threads,   \* GitLab's discussions, each a sequence of notes
  owner,     \* the discussion in which a note was created: its first note
  at,        \* when each note was last changed
  notes, now,          \* notes and changes so far
  rows,      \* issue_comments: discussion_id, reply_to_gitlab_note_id, body_raw
  activity,  \* issues.updated_at
  rpc, page, got,      \* an import: its step, the next page, the discussions still to be saved
  last,      \* ... and the last change among the notes it has saved
  cpc, posted,         \* a call: its step and GitLab's answer
  quiet,     \* imports since whose start nothing has changed
  mirrored   \* such an import was the last thing to happen

gitlab == <<threads, owner, at, notes, now>>
runVars == <<rpc, page, got, last>>
callVars == <<cpc, posted>>
vars == <<gitlab, rows, activity, runVars, callVars, quiet, mirrored>>

Init ==
  /\ threads = <<>>
  /\ owner = [n \in Note |-> NoNote]
  /\ at = [n \in Note |-> 0]
  /\ notes = 0 /\ now = 0
  /\ rows = [n \in Note |-> NoRow]
  /\ activity = 0
  /\ rpc = [r \in Run |-> "idle"]
  /\ page = [r \in Run |-> 0]
  /\ got = [r \in Run |-> <<>>]
  /\ last = [r \in Run |-> 0]
  /\ cpc = [c \in Call |-> "idle"]
  /\ posted = [c \in Call |-> <<>>]
  /\ quiet = {}
  /\ mirrored = FALSE

Disturb == quiet' = {} /\ mirrored' = FALSE

(***************************************************************************)
(* GitLab.                                                                 *)
(***************************************************************************)
\* A note in a new discussion, or at the end of discussion d.
Grow(d) ==
  /\ notes < MaxNotes /\ now < MaxChanges
  /\ notes' = notes + 1 /\ now' = now + 1
  /\ at' = [at EXCEPT ![notes + 1] = now + 1]
  /\ IF d = NoNote
       THEN /\ threads' = Append(threads, <<notes + 1>>)
            /\ owner' = [owner EXCEPT ![notes + 1] = notes + 1]
       ELSE \E k \in DOMAIN threads :
            /\ owner[threads[k][1]] = d
            /\ threads' = [threads EXCEPT ![k] = Append(@, notes + 1)]
            /\ owner' = [owner EXCEPT ![notes + 1] = d]
  /\ Disturb

Elsewhere(d) ==
  /\ Grow(d)
  /\ UNCHANGED <<rows, activity, runVars, callVars>>

Edit(n) ==
  /\ now < MaxChanges
  /\ \E k \in DOMAIN threads : Contains(threads[k], n)
  /\ now' = now + 1
  /\ at' = [at EXCEPT ![n] = now + 1]
  /\ Disturb
  /\ UNCHANGED <<threads, owner, notes, rows, activity, runVars, callVars>>

\* A discussion without notes is gone, and those after it move up.
Delete(n) ==
  /\ now < MaxChanges
  /\ now' = now + 1
  /\ \E k \in DOMAIN threads : \E j \in DOMAIN threads[k] :
       /\ threads[k][j] = n
       /\ threads' = IF Len(threads[k]) = 1 THEN RemoveAt(threads, k)
                     ELSE [threads EXCEPT ![k] = RemoveAt(@, j)]
  /\ Disturb
  /\ UNCHANGED <<owner, at, notes, rows, activity, runVars, callVars>>

(***************************************************************************)
(* Imports: sync_issue_comments_for_issue and the worker's                 *)
(* sync_issue_from_gitlab.                                                 *)
(***************************************************************************)
Begin(r) ==
  /\ rpc[r] = "idle"
  /\ rpc' = [rpc EXCEPT ![r] = "fetch"]
  /\ page' = [page EXCEPT ![r] = 1]
  /\ last' = [last EXCEPT ![r] = activity]
  /\ quiet' = IF (\E s \in Run : rpc[s] # "idle") \/ (\E c \in Call : cpc[c] # "idle")
              THEN {} ELSE {r}
  /\ UNCHANGED <<gitlab, rows, activity, got, callVars, mirrored>>

\* The summaries of a discussion: all but the first note reply to the first.
Summaries(thread) ==
  [k \in DOMAIN thread |->
    [note |-> thread[k], thread |-> owner[thread[k]], at |-> at[thread[k]],
     reply |-> IF k > 1 THEN thread[1] ELSE NoNote]]

PageOf(k) == SubSeq(threads, (k - 1) * PageSize + 1,
                    IF k * PageSize < Len(threads) THEN k * PageSize ELSE Len(threads))

\* import_issue_comments: one page; the last has no next one
FetchPage(r, isLast) ==
  /\ rpc[r] = "fetch"
  /\ got' = [got EXCEPT ![r] =
       @ \o [k \in DOMAIN PageOf(page[r]) |-> Summaries(PageOf(page[r])[k])]]
  /\ rpc' = [rpc EXCEPT ![r] = IF isLast THEN "save" ELSE "fetch"]
  /\ page' = [page EXCEPT ![r] = IF isLast THEN 0 ELSE @ + 1]
  /\ UNCHANGED <<gitlab, rows, activity, last, callVars, quiet, mirrored>>

\* Slip: x-next-page is not followed.
FetchOnce(r) == FetchPage(r, TRUE)

Fetch(r) == FetchPage(r, page[r] * PageSize >= Len(threads))

\* INSERT ... ON CONFLICT (issue_id, gitlab_note_id) DO UPDATE
Upsert(s) ==
  rows' = [rows EXCEPT ![s.note] = [thread |-> s.thread, reply |-> s.reply, at |-> s.at]]

\* persist_gitlab_comment_and_attachments of one note, which is the last change
\* so far unless an earlier one is later
SaveNote(r, s) ==
  /\ Upsert(s)
  /\ last' = [last EXCEPT ![r] = IF s.at > @ THEN s.at ELSE @]
  /\ UNCHANGED <<gitlab, activity, rpc, page, callVars, quiet, mirrored>>

\* Slip: each discussion from its newest note to its oldest.
SaveBackwards(r) ==
  /\ rpc[r] = "save" /\ got[r] # <<>>
  /\ SaveNote(r, Last(got[r][1]))
  /\ got' = [got EXCEPT ![r] = IF Len(@[1]) = 1 THEN Tail(@)
                               ELSE [@ EXCEPT ![1] = Front(got[r][1])]]

\* Each note in turn.
Save(r) ==
  /\ rpc[r] = "save" /\ got[r] # <<>>
  /\ SaveNote(r, got[r][1][1])
  /\ got' = [got EXCEPT ![r] = IF Len(@[1]) = 1 THEN Tail(@)
                               ELSE [@ EXCEPT ![1] = Tail(got[r][1])]]

Ends(r) ==
  /\ rpc' = [rpc EXCEPT ![r] = "idle"]
  /\ page' = [page EXCEPT ![r] = 0]
  /\ got' = [got EXCEPT ![r] = <<>>]
  /\ last' = [last EXCEPT ![r] = 0]
  /\ quiet' = quiet \ {r}

\* updated_at = GREATEST(updated_at, ...)
Finish(r) ==
  /\ rpc[r] = "save" /\ got[r] = <<>>
  /\ activity' = IF last[r] > activity THEN last[r] ELSE activity
  /\ mirrored' = (mirrored \/ r \in quiet)
  /\ Ends(r)
  /\ UNCHANGED <<gitlab, rows, callVars>>

\* A request or a statement fails, or the process stops; what has been saved
\* stays.
FailRun(r) ==
  /\ rpc[r] # "idle"
  /\ Ends(r)
  /\ UNCHANGED <<gitlab, rows, activity, callVars, mirrored>>

(***************************************************************************)
(* create_issue_comment_handler of a linked issue.                         *)
(***************************************************************************)
\* The discussion of the row replied to, then POST; GitLab refuses a reply in a
\* discussion that is gone.
Post(c, to) ==
  /\ cpc[c] = "idle"
  /\ to # NoNote => rows[to] # NoRow
  /\ Grow(IF to = NoNote THEN NoNote ELSE rows[to].thread)
  /\ cpc' = [cpc EXCEPT ![c] = "save"]
  /\ posted' = [posted EXCEPT ![c] =
       <<[note |-> notes + 1, thread |-> owner'[notes + 1], at |-> now + 1, reply |-> to]>>]
  /\ UNCHANGED <<rows, activity, runVars>>

SavePosted(c) ==
  /\ cpc[c] = "save"
  /\ Upsert(posted[c][1])
  /\ cpc' = [cpc EXCEPT ![c] = "touch"]
  /\ UNCHANGED <<gitlab, activity, runVars, posted>>
  /\ Disturb

Touch(c) ==
  /\ cpc[c] = "touch"
  /\ activity' = IF posted[c][1].at > activity THEN posted[c][1].at ELSE activity
  /\ cpc' = [cpc EXCEPT ![c] = "idle"]
  /\ posted' = [posted EXCEPT ![c] = <<>>]
  /\ UNCHANGED <<gitlab, rows, runVars, quiet, mirrored>>

\* The note is in GitLab, its row is not: the next import brings it.
FailCall(c) ==
  /\ cpc[c] # "idle"
  /\ cpc' = [cpc EXCEPT ![c] = "idle"]
  /\ posted' = [posted EXCEPT ![c] = <<>>]
  /\ UNCHANGED <<gitlab, rows, activity, runVars, quiet, mirrored>>

-----------------------------------------------------------------------------
Next ==
  \/ \E d \in Note \cup {NoNote} : Elsewhere(d)
  \/ \E n \in Note : Edit(n) \/ Delete(n)
  \/ \E r \in Run : Begin(r) \/ Fetch(r) \/ Save(r) \/ Finish(r) \/ FailRun(r)
  \/ \E c \in Call :
       \/ \E to \in Note \cup {NoNote} : Post(c, to)
       \/ SavePosted(c) \/ Touch(c) \/ FailCall(c)

Spec == Init /\ [][Next]_vars

-----------------------------------------------------------------------------
\* A reply that is shown has its parent in the same discussion, also halfway
\* through an import and after the parent was deleted in GitLab.
RepliesHaveParents ==
  \A n \in Note : rows[n].reply # NoNote =>
    /\ rows[rows[n].reply] # NoRow
    /\ rows[rows[n].reply].thread = rows[n].thread

\* An import during which nothing changed has brought every note on every page
\* as it is in GitLab, and the issue is as recent as they are.
ImportIsComplete ==
  mirrored =>
    \A k \in DOMAIN threads : \A j \in DOMAIN threads[k] :
      LET s == Summaries(threads[k])[j]
      IN  /\ rows[s.note] = [thread |-> s.thread, reply |-> s.reply, at |-> s.at]
          /\ activity >= s.at
=============================================================================
