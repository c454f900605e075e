------------------------------- MODULE Sessions -------------------------------
(***************************************************************************)
(* The password, the sessions and the password reset tokens of one user.   *)
(* The handlers of routes/auth.rs call the statements of                   *)
(* repositories/auth.rs one after the other, without a transaction: each   *)
(* statement is an action.  A password is the number of times it has been  *)
(* set.  Definitions marked `Slip` are the next definition with one        *)
(* plausible mistake.                                                      *)
(***************************************************************************)
EXTENDS Integers

CONSTANTS
  Call,         \* concurrent calls of login, change_password, reset_password
  Session,      \* rows of user_sessions, each inserted once
  Token,        \* rows of password_reset_tokens, each inserted once
  MaxPassword   \* how often the password may be set

None == -1      \* no row

VARIABLES
  active,       \* users.active
  password,     \* users.password_hash
  session,      \* the password with which each was opened, or None
  opened,       \* sessions that have been inserted
  token,        \* "absent", "valid", "used" or "expired"
  pc,           \* the step of each call
  with,         \* the password that the call has checked
  reset,        \* the token that the call has found
  swept,        \* the password when a reset was last completed
  sets,         \* how often a token has set the password
  overtaken,    \* logins during which a reset was completed
  late,         \* the sessions that they have opened
  failed        \* tokens whose reset has failed, or was asked for twice at once

vars == <<active, password, session, opened, token, pc, with, reset, swept, sets,
          overtaken, late, failed>>

Init ==
  /\ active = TRUE /\ password = 0
  /\ session = [s \in Session |-> None] /\ opened = {}
  /\ token = [k \in Token |-> "absent"]
  /\ pc = [c \in Call |-> "idle"]
  /\ with = [c \in Call |-> None]
  /\ reset = [c \in Call |-> {}]
  /\ swept = 0 /\ overtaken = {} /\ late = {}
  /\ sets = [k \in Token |-> 0] /\ failed = {}

\* Slip: the sessions are deleted first.
ThenSweepFirst(step) ==
  CASE step = "find"  -> "sweep"
    [] step = "sweep" -> "set"
    [] step = "set"   -> "mark"
    [] step = "mark"  -> "idle"

\* The order of the statements of reset_password.
Then(step) ==
  CASE step = "find"  -> "set"
    [] step = "set"   -> "mark"
    [] step = "mark"  -> "sweep"
    [] step = "sweep" -> "idle"

Forget(c) ==
  /\ with' = [with EXCEPT ![c] = None]
  /\ reset' = [reset EXCEPT ![c] = {}]

\* Call c, unless it ends here, goes on; logins under way are overtaken by the
\* end of a reset.
Goes(c, step) ==
  /\ pc' = [pc EXCEPT ![c] = step]
  /\ IF step = "idle"
       THEN /\ swept' = password'
            /\ overtaken' = {d \in Call : pc[d] = "open"}
            /\ Forget(c)
       ELSE UNCHANGED <<swept, overtaken, with, reset>>

Ends(c) ==
  /\ pc' = [pc EXCEPT ![c] = "idle"]
  /\ overtaken' = overtaken \ {c}
  /\ Forget(c)

Checks(c, step) ==
  /\ pc' = [pc EXCEPT ![c] = step]
  /\ with' = [with EXCEPT ![c] = password]

\* current_user_from_headers: the session of an active user
LoggedIn(s) == active /\ session[s] # None

\* login: find_active_user_by_credentials, create_session; also the session that
\* follows an accepted invitation
Login(c) ==
  /\ pc[c] = "idle" /\ active
  /\ Checks(c, "open")
  /\ UNCHANGED <<active, password, session, opened, token, reset, swept, sets, overtaken, late, failed>>

Open(c, s) ==
  /\ pc[c] = "open" /\ s \notin opened
  /\ session' = [session EXCEPT ![s] = with[c]]
  /\ opened' = opened \cup {s}
  /\ late' = IF c \in overtaken THEN late \cup {s} ELSE late
  /\ Ends(c)
  /\ UNCHANGED <<active, password, token, swept, sets, failed>>

\* logout; a session also ends after thirty days
Logout(s) ==
  /\ session[s] # None
  /\ session' = [session EXCEPT ![s] = None]
  /\ UNCHANGED <<active, password, opened, token, pc, with, reset, swept, sets,
                 overtaken, late, failed>>

\* change_password: verify_user_password, update_user_password; every session
\* is kept
Verify(c, s) ==
  /\ pc[c] = "idle" /\ LoggedIn(s)
  /\ Checks(c, "change")
  /\ UNCHANGED <<active, password, session, opened, token, reset, swept, sets, overtaken, late, failed>>

Change(c) ==
  /\ pc[c] = "change" /\ password < MaxPassword
  /\ password' = password + 1
  /\ Ends(c)
  /\ UNCHANGED <<active, session, opened, token, swept, sets, late, failed>>

\* request_password_recovery: a token, whatever others there are
Recover(k) ==
  /\ active /\ token[k] = "absent"
  /\ token' = [token EXCEPT ![k] = "valid"]
  /\ UNCHANGED <<active, password, session, opened, pc, with, reset, swept, sets,
                 overtaken, late, failed>>

\* Two hours pass.
Expire(k) ==
  /\ token[k] = "valid"
  /\ token' = [token EXCEPT ![k] = "expired"]
  /\ UNCHANGED <<active, password, session, opened, pc, with, reset, swept, sets,
                 overtaken, late, failed>>

\* Slip: without used_at IS NULL.
FindAny(c, k) ==
  /\ pc[c] = "idle" /\ token[k] \in {"valid", "used"}
  /\ pc' = [pc EXCEPT ![c] = Then("find")]
  /\ reset' = [reset EXCEPT ![c] = {k}]
  /\ failed' = IF \E d \in Call : reset[d] = {k} THEN failed \cup {k} ELSE failed
  /\ UNCHANGED <<active, password, session, opened, token, with, swept, sets, overtaken, late>>

\* reset_password: find_valid_password_reset_token; the user may be inactive
Find(c, k) ==
  /\ pc[c] = "idle" /\ token[k] = "valid"
  /\ pc' = [pc EXCEPT ![c] = Then("find")]
  /\ reset' = [reset EXCEPT ![c] = {k}]
  /\ failed' = IF \E d \in Call : reset[d] = {k} THEN failed \cup {k} ELSE failed
  /\ UNCHANGED <<active, password, session, opened, token, with, swept, sets, overtaken, late>>

\* ... update_user_password,
Set(c) ==
  /\ pc[c] = "set" /\ password < MaxPassword
  /\ password' = password + 1
  /\ sets' = [k \in Token |-> IF reset[c] = {k} THEN sets[k] + 1 ELSE sets[k]]
  /\ Goes(c, Then(pc[c]))
  /\ UNCHANGED <<active, session, opened, token, late, failed>>

\* ... mark_password_reset_token_used,
Mark(c) ==
  /\ pc[c] = "mark"
  /\ token' = [k \in Token |-> IF reset[c] = {k} THEN "used" ELSE token[k]]
  /\ UNCHANGED <<active, password, session, opened, sets, late, failed>>
  /\ Goes(c, Then(pc[c]))

\* ... delete_sessions_for_user.
Sweep(c) ==
  /\ pc[c] = "sweep"
  /\ session' = [s \in Session |-> None]
  /\ UNCHANGED <<active, password, opened, token, sets, late, failed>>
  /\ Goes(c, Then(pc[c]))

\* A statement fails: those before it stay done.
Fail(c) ==
  /\ pc[c] # "idle"
  /\ failed' = failed \cup reset[c]
  /\ Ends(c)
  /\ UNCHANGED <<active, password, session, opened, token, swept, sets, late>>

\* update_user
SetActive ==
  /\ active' = ~active
  /\ UNCHANGED <<password, session, opened, token, pc, with, reset, swept, sets,
                 overtaken, late, failed>>

-----------------------------------------------------------------------------
Next ==
  \/ \E c \in Call :
       \/ Login(c) \/ Change(c) \/ Set(c) \/ Mark(c) \/ Sweep(c) \/ Fail(c)
       \/ \E s \in Session : Open(c, s) \/ Verify(c, s)
       \/ \E k \in Token : Find(c, k)
  \/ \E s \in Session : Logout(s)
  \/ \E k \in Token : Recover(k) \/ Expire(k)
  \/ SetActive

Spec == Init /\ [][Next]_vars
-----------------------------------------------------------------------------
\* After a reset no session is left that was opened with an older password,
\* except by logins that were under way.
ResetEndsSessions ==
  \A s \in Session \ late : session[s] # None => session[s] >= swept

\* A token sets the password once, unless it was used twice at once or a later
\* step of its reset failed.
TokenIsSpent == \A k \in Token \ failed : sets[k] <= 1
=============================================================================
