------------------------------ MODULE MCServices ------------------------------
(***************************************************************************)
(* Five components that share no table, side by side: one of them, chosen  *)
(* in the initial state, runs, and the others stay as they start.          *)
(***************************************************************************)
EXTENDS Integers, FiniteSets

CONSTANTS
  Request, Visitor, MaxRows, MaxTokens,               \* Invitations
  Call, Session, Token, MaxPassword,                  \* Sessions
  Run, Commenter, MaxNotes, MaxChanges, PageSize,     \* Comments
  Process, Outcome, Interval, StaleAfter, Job, LockTimeout, PollEvery, ErrorWait,
  Latency, MaxTime, MaxJobs,                          \* Heartbeat
  Server, MaxSettings                                 \* Integrations, with Call

VARIABLES
  which,
  \* Invitations
  istatus, itoken, expired, mail, user, irows, tokens, ipc, on, held, vpc, reads,
  vanished, undisturbed,
  \* Sessions
  active, password, session, opened, token, pc, with, reset, swept, sets,
  overtaken, late, failed,
  \* Comments
  threads, owner, at, notes, now, rows, activity, rpc, page, got, last, cpc,
  posted, quiet, mirrored,
  \* Heartbeat
  hnow, state, since, job, wait, lock, status, delta, beat, next, row, ended, lost, sound,
  \* Integrations
  project, legacy, neutral, migrated, server, saw, gpc, gwith, settings, crossed,
  settled

iVars == <<istatus, itoken, expired, mail, user, irows, tokens, ipc, on, held, vpc, reads,
           vanished, undisturbed>>
sVars == <<active, password, session, opened, token, pc, with, reset, swept, sets,
           overtaken, late, failed>>
cVars == <<threads, owner, at, notes, now, rows, activity, rpc, page, got, last, cpc,
           posted, quiet, mirrored>>
hVars == <<hnow, state, since, job, wait, lock, status, delta, beat, next, row, ended, lost, sound>>
gVars == <<project, legacy, neutral, migrated, server, saw, gpc, gwith, settings, crossed,
           settled>>

I == INSTANCE Invitations WITH status <- istatus, token <- itoken, rows <- irows, pc <- ipc
S == INSTANCE Sessions
C == INSTANCE Comments WITH Call <- Commenter
H == INSTANCE Heartbeat WITH now <- hnow
G == INSTANCE Integrations WITH pc <- gpc, with <- gwith

ASSUME Bounds ==
  /\ MaxRows \in Nat /\ MaxNotes \in Nat /\ PageSize \in Nat \ {0}
  /\ Interval \in Nat /\ StaleAfter \in Nat /\ Latency \in Nat
  /\ LockTimeout \in Nat /\ PollEvery \in Nat /\ ErrorWait \in Nat

\* What the worker is assumed to be run with: the defaults of config.rs are a
\* heartbeat every 15 seconds, stale after 60.
ASSUME Timing == Interval + Latency <= StaleAfter

Init ==
  /\ I!Init /\ S!Init /\ C!Init /\ H!Init /\ G!Init
  /\ which \in {"Invitations", "Sessions", "Comments", "Heartbeat", "Integrations"}
  /\ which # "Integrations" => project = "new"

\* Worker processes run one after the other, as docker-compose restarts them.
InTurn == \A p, q \in Process : p < q /\ state[q] # "new" => state[p] = "down"

\* Two imports overlap only before the last change.
Overlap == (\A r \in Run : rpc[r] # "idle") => now < MaxChanges

Next ==
  /\ UNCHANGED which
  /\ \/ which = "Invitations" /\ I!Next /\ UNCHANGED <<sVars, cVars, hVars, gVars>>
     \/ which = "Sessions" /\ S!Next /\ UNCHANGED <<iVars, cVars, hVars, gVars>>
     \/ which = "Comments" /\ C!Next /\ Overlap' /\ UNCHANGED <<iVars, sVars, hVars, gVars>>
     \/ which = "Heartbeat" /\ H!Next /\ InTurn' /\ UNCHANGED <<iVars, sVars, cVars, gVars>>
     \/ which = "Integrations" /\ G!Next /\ UNCHANGED <<iVars, sVars, cVars, hVars>>

vars == <<which, iVars, sVars, cVars, hVars, gVars>>

Spec == Init /\ [][Next]_vars

-----------------------------------------------------------------------------
\* Invitations: exactly one is accepted, once the user exists.
AcceptedOnce == I!AcceptedOnce
\* ... and the queued link is the one that works.
QueuedLinkWorks == I!QueuedLinkWorks

\* Sessions: a reset ends those opened with an older password.
ResetEndsSessions == S!ResetEndsSessions
\* ... and a token is used once.
TokenIsSpent == S!TokenIsSpent

\* Comments: the parent of a reply is there, in its discussion.
RepliesHaveParents == C!RepliesHaveParents
\* ... and an undisturbed import brings everything.
ImportIsComplete == C!ImportIsComplete

\* Heartbeat: jobs are counted once or known to be lost.
CountsAddUp == H!CountsAddUp
\* ... and readiness follows the workers.
ReadinessIsTimely == H!ReadinessIsTimely

\* Integrations: both tables hold the same.
TablesAgree == G!TablesAgree
=============================================================================
