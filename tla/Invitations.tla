----------------------------- MODULE Invitations -----------------------------
(***************************************************************************)
(* The invitations of one email: rows of user_invitations, the job that    *)
(* mails each of them (its payload holds the link; sending it is           *)
(* JobQueue's), and the user that accepting creates.                       *)
(*                                                                         *)
(* create_invitation and resend_invitation are statements without a        *)
(* transaction; acceptance is a transaction whose INSERT holds the email   *)
(* until it ends.  A statement that waits for another transaction's row is *)
(* one whose action comes after that transaction's.  A token is a number:  *)
(* the newest has the greatest.  Definitions marked `Slip` are the next    *)
(* definition with one plausible mistake.                                  *)
(***************************************************************************)
EXTENDS Integers, FiniteSets

CONSTANTS
  MaxRows,     \* rows that are ever inserted, ids 1 .. MaxRows
  MaxTokens,   \* tokens that are ever issued
  Request,     \* concurrent calls of create_invitation or resend_invitation
  Visitor      \* concurrent calls of accept_invitation

Row == 1 .. MaxRows
NoRow == 0

VARIABLES
  status,    \* of each row: "absent", "pending" or "accepted"
  token, expired,
  mail,      \* the token in the payload of the row's mail job; 0: no job
  user,      \* whether a user with the email exists
  rows, tokens,      \* rows inserted and tokens issued so far
  pc, on, held,      \* of a request: its step, its row and its token
  vpc, reads,        \* of a visitor: its step and the row it has read
  vanished,          \* the row was deleted while its acceptance was under way
  undisturbed        \* rows last written by a request that nothing overlapped

rowVars == <<status, token, expired, rows, tokens>>
requestVars == <<pc, on, held>>
visitorVars == <<user, vpc, reads, vanished>>
vars == <<rowVars, mail, requestVars, visitorVars, undisturbed>>

Init ==
  /\ status = [i \in Row |-> "absent"]
  /\ token = [i \in Row |-> 0]
  /\ expired = [i \in Row |-> FALSE]
  /\ mail = [i \in Row |-> 0]
  /\ user = FALSE
  /\ rows = 0 /\ tokens = 0
  /\ pc = [r \in Request |-> "idle"]
  /\ on = [r \in Request |-> NoRow]
  /\ held = [r \in Request |-> 0]
  /\ vpc = [v \in Visitor |-> "idle"]
  /\ reads = [v \in Visitor |-> NoRow]
  /\ vanished = FALSE
  /\ undisturbed = {}

Mailing(i) == \E r \in Request : pc[r] = "mail" /\ on[r] = i

\* What a write of row i with a new token leaves to be done.
Write(r, i) ==
  /\ tokens < MaxTokens
  /\ tokens' = tokens + 1
  /\ token' = [token EXCEPT ![i] = tokens + 1]
  /\ expired' = [expired EXCEPT ![i] = FALSE]
  /\ pc' = [pc EXCEPT ![r] = "mail"]
  /\ on' = [on EXCEPT ![r] = i]
  /\ held' = [held EXCEPT ![r] = tokens + 1]
  /\ undisturbed' = IF Mailing(i) THEN undisturbed \ {i} ELSE undisturbed \cup {i}

Ends(r) ==
  /\ pc' = [pc EXCEPT ![r] = "idle"]
  /\ on' = [on EXCEPT ![r] = NoRow]
  /\ held' = [held EXCEPT ![r] = 0]

\* create_invitation: no user has the email
Check(r) ==
  /\ pc[r] = "idle" /\ ~user
  /\ pc' = [pc EXCEPT ![r] = "select"]
  /\ UNCHANGED <<rowVars, mail, on, held, visitorVars, undisturbed>>

\* ... and the newest pending row, if there is one,
Select(r) ==
  /\ pc[r] = "select"
  /\ LET found == {i \in Row : status[i] = "pending"}
     IN  on' = [on EXCEPT ![r] = IF found = {} THEN NoRow
                                 ELSE CHOOSE i \in found : \A j \in found : j <= i]
  /\ pc' = [pc EXCEPT ![r] = "write"]
  /\ UNCHANGED <<rowVars, mail, held, visitorVars, undisturbed>>

\* ... is updated, whatever its status has become, unless it is gone,
Renew(r) ==
  /\ pc[r] = "write" /\ on[r] # NoRow /\ status[on[r]] # "absent"
  /\ Write(r, on[r])
  /\ UNCHANGED <<status, rows, mail, visitorVars>>

\* ... or a row is inserted.
Insert(r) ==
  /\ pc[r] = "write" /\ on[r] = NoRow /\ rows < MaxRows
  /\ rows' = rows + 1
  /\ status' = [status EXCEPT ![rows + 1] = "pending"]
  /\ Write(r, rows + 1)
  /\ UNCHANGED <<mail, visitorVars>>

\* Slip: without AND accepted_at IS NULL.
ResendAny(r, i) ==
  /\ pc[r] = "idle" /\ status[i] # "absent"
  /\ status' = [status EXCEPT ![i] = "pending"]
  /\ Write(r, i)
  /\ UNCHANGED <<rows, mail, visitorVars>>

\* resend_invitation
Resend(r, i) ==
  /\ pc[r] = "idle" /\ status[i] = "pending"
  /\ status' = [status EXCEPT ![i] = "pending"]
  /\ Write(r, i)
  /\ UNCHANGED <<rows, mail, visitorVars>>

\* Slip: ON CONFLICT (dedupe_key) DO NOTHING.
EnqueueOnce(r) ==
  /\ pc[r] = "mail"
  /\ mail' = [mail EXCEPT ![on[r]] = IF @ = 0 THEN held[r] ELSE @]
  /\ Ends(r)
  /\ UNCHANGED <<rowVars, visitorVars, undisturbed>>

\* enqueue_invitation_email
Enqueue(r) ==
  /\ pc[r] = "mail"
  /\ mail' = [mail EXCEPT ![on[r]] = held[r]]
  /\ Ends(r)
  /\ UNCHANGED <<rowVars, visitorVars, undisturbed>>

\* A statement fails, or the row to be updated is gone.
RequestFails(r) ==
  /\ pc[r] # "idle"
  /\ Ends(r)
  /\ undisturbed' = IF pc[r] = "mail" THEN undisturbed \ {on[r]} ELSE undisturbed
  /\ UNCHANGED <<rowVars, mail, visitorVars>>

\* delete_invitation: the row and its job, in a transaction
Delete(i) ==
  /\ status[i] = "pending"
  /\ status' = [status EXCEPT ![i] = "absent"]
  /\ mail' = [mail EXCEPT ![i] = 0]
  /\ undisturbed' = IF Mailing(i) THEN undisturbed \ {i} ELSE undisturbed \cup {i}
  /\ UNCHANGED <<token, expired, rows, tokens, requestVars, visitorVars>>

\* Seven days pass.
Expire(i) ==
  /\ status[i] = "pending" /\ ~expired[i]
  /\ expired' = [expired EXCEPT ![i] = TRUE]
  /\ UNCHANGED <<status, token, rows, tokens, mail, requestVars, visitorVars, undisturbed>>

-----------------------------------------------------------------------------
\* accept_invitation: the row is read with the token of a link, without a lock
Read(v, i) ==
  /\ vpc[v] = "idle" /\ status[i] = "pending" /\ ~expired[i] /\ ~user
  /\ vpc' = [vpc EXCEPT ![v] = "insert"]
  /\ reads' = [reads EXCEPT ![v] = i]
  /\ UNCHANGED <<rowVars, mail, requestVars, user, vanished, undisturbed>>

\* Slip: the row of a user with the email is taken over.
InsertAnyUser(v) ==
  /\ vpc[v] = "insert"
  /\ vpc' = [vpc EXCEPT ![v] = "commit"]
  /\ UNCHANGED <<rowVars, mail, requestVars, user, reads, vanished, undisturbed>>

\* ... the user is inserted: the email is unique, and another transaction that
\* has inserted it is waited for,
InsertUser(v) ==
  /\ vpc[v] = "insert" /\ ~user
  /\ \A w \in Visitor : vpc[w] # "commit"
  /\ vpc' = [vpc EXCEPT ![v] = "commit"]
  /\ UNCHANGED <<rowVars, mail, requestVars, user, reads, vanished, undisturbed>>

Leaves(v) ==
  /\ vpc' = [vpc EXCEPT ![v] = "idle"]
  /\ reads' = [reads EXCEPT ![v] = NoRow]

\* ... the row, if it is still there, is marked whatever its token, COMMIT.
Commit(v) ==
  /\ vpc[v] = "commit"
  /\ status' = [status EXCEPT ![reads[v]] = IF @ = "absent" THEN "absent" ELSE "accepted"]
  /\ user' = TRUE
  /\ vanished' = (status[reads[v]] = "absent")
  /\ Leaves(v)
  /\ UNCHANGED <<token, expired, rows, tokens, mail, requestVars, undisturbed>>

\* The email is taken, or a statement fails: ROLLBACK.
VisitFails(v) ==
  /\ vpc[v] # "idle"
  /\ Leaves(v)
  /\ UNCHANGED <<rowVars, mail, requestVars, user, vanished, undisturbed>>

-----------------------------------------------------------------------------
Next ==
  \/ \E r \in Request :
       \/ Check(r) \/ Select(r) \/ Renew(r) \/ Insert(r) \/ Enqueue(r) \/ RequestFails(r)
       \/ \E i \in Row : Resend(r, i)
  \/ \E i \in Row : Delete(i) \/ Expire(i)
  \/ \E v \in Visitor :
       \/ \E i \in Row : Read(v, i)
       \/ InsertUser(v) \/ Commit(v) \/ VisitFails(v)

Spec == Init /\ [][Next]_vars

-----------------------------------------------------------------------------
\* One invitation of an email is accepted, exactly when the user exists, however
\* many are pending and however many visitors there are, and it stays accepted;
\* only a deletion that overtakes the acceptance leaves a user without one.
AcceptedOnce ==
  LET accepted == {i \in Row : status[i] = "accepted"}
  IN  /\ Cardinality(accepted) <= 1
      /\ accepted # {} => user
      /\ user /\ ~vanished => accepted # {}

\* The link that is queued for an invitation is the one that works, and none is
\* queued for a deleted one, unless requests have overlapped or failed.
QueuedLinkWorks ==
  \A i \in undisturbed : ~Mailing(i) =>
    mail[i] = IF status[i] = "absent" THEN 0 ELSE token[i]
=============================================================================
