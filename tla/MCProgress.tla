------------------------------ MODULE MCProgress ------------------------------
(***************************************************************************)
(* The liveness of IssueSync and of Uploads.  The two share no table here: *)
(* one of them, chosen in the initial state, runs under its own fairness,  *)
(* and the other stays as it starts.                                       *)
(***************************************************************************)
EXTENDS Integers, FiniteSets

CONSTANTS Proc, ApiIssue, NoIssue, Upload, Req

VARIABLES
  which, failures,
  enabled, gitlab, iid, text, sync_state, ref, pull_due, missed, push_due, op, maker,
  doubled, crossed, blurred, edits, row, draft, expired, temp, stored, attached, linked, sent, upload, sweep, pc, kind, found,
  todo, number, comment

Sync == INSTANCE IssueSync WITH
          MaxIid <- 1, MaxEdits <- 2, MaxFailures <- 1
Files == INSTANCE Uploads WITH MaxFailures <- 2

syncOnly == <<enabled, gitlab, iid, text, sync_state, ref, pull_due, missed, push_due, op,
              maker, doubled, crossed, blurred, edits>>
filesOnly == <<row, draft, expired, temp, stored, attached, linked, sent, upload, sweep, pc,
               kind, found, todo, number, comment>>
vars == <<which, failures, syncOnly, filesOnly>>

Init == which \in {"IssueSync", "Uploads"} /\ Sync!Init /\ Files!Init

\* GitLab has one number here, so that of two pushes of a row without one the
\* second would wait for ever: they are left out.  Only pulls share an issue, and
\* only before the second edit.
Few ==
  /\ doubled = {}
  /\ crossed # {} => edits < 2 /\ \A p \in crossed : op[p].kind = "pull"

Next ==
  /\ UNCHANGED which
  /\ \/ which = "IssueSync" /\ Sync!Next /\ Few' /\ UNCHANGED filesOnly
     \/ which = "Uploads" /\ Files!Next /\ UNCHANGED syncOnly

Fairness ==
  /\ which = "IssueSync" => Sync!Fairness
  /\ which = "Uploads" => Files!Fairness

FairSpec == Init /\ [][Next]_vars /\ Fairness

-----------------------------------------------------------------------------
\* Every GitLab issue ends up in a row with its text.
EventuallySynced == Sync!EventuallySynced

\* The row of an expired upload that nobody sent goes away.
ExpiredAreRemoved == which = "Uploads" => Files!ExpiredAreRemoved
=============================================================================
