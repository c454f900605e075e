----------------------------- MODULE Integrations -----------------------------
(***************************************************************************)
(* The GitLab integration of one project, which is stored twice: the row   *)
(* of project_gitlab_integrations that every handler reads, and the row of *)
(* project_integrations that is to replace it.  The handlers write one     *)
(* after the other without a transaction.                                  *)
(*                                                                         *)
(* A server that starts first runs the migrations (014 copies the old row  *)
(* to the new table) and then encrypts the secrets that older versions     *)
(* have stored in the old table in plain text.  The settings of one call   *)
(* are a number: the later the call, the greater.  Definitions marked      *)
(* `Slip` are the next definition with one plausible mistake.              *)
(***************************************************************************)
EXTENDS Integers

CONSTANTS
  Server,      \* API processes
  Call,        \* concurrent calls of the two integration handlers
  MaxSettings  \* calls that store settings

None == 0
NoRow == [id |-> None, settings |-> None, secret |-> None, plain |-> None]

VARIABLES
  project,     \* whether the project exists: "new", "exists" or "deleted"
  legacy,      \* project_gitlab_integrations
  neutral,     \* project_integrations; its secrets are never in plain text
  migrated,    \* migration 014 has run
  server,      \* the step of each server: "down", "read", "update", "up"
  saw,         \* the row that a starting server has read
  pc, with,    \* the step of each call and its settings
  settings,    \* settings stored or about to be
  crossed,     \* calls that something has overlapped
  settled      \* the last call to change a table was overlapped by nothing and ended well

tables == <<legacy, neutral>>
starts == <<migrated, server, saw>>
vars == <<project, tables, starts, pc, with, settings, crossed, settled>>

Init ==
  /\ project \in {"new", "exists"}
  /\ \/ legacy = NoRow
     \/ project = "exists" /\ legacy = [id |-> 1, settings |-> 1, secret |-> None, plain |-> 1]
     \/ project = "exists" /\ legacy = [id |-> 1, settings |-> 1, secret |-> 1, plain |-> None]
  /\ neutral = NoRow
  /\ migrated = FALSE
  /\ server = [p \in Server |-> "down"]
  /\ saw = [p \in Server |-> NoRow]
  /\ pc = [c \in Call |-> "idle"]
  /\ with = [c \in Call |-> None]
  /\ settings = 1
  /\ crossed = {} /\ settled = TRUE

Running == \E p \in Server : server[p] = "up"

(***************************************************************************)
(* migrate_and_backfill                                                    *)
(***************************************************************************)
\* The migrations, once, under their lock: 014 copies the encrypted secrets.
Migrate(p) ==
  /\ server[p] = "down"
  /\ neutral' = IF migrated THEN neutral ELSE [legacy EXCEPT !.plain = None]
  /\ migrated' = TRUE
  /\ server' = [server EXCEPT ![p] = "read"]
  /\ UNCHANGED <<project, legacy, saw, pc, with, settings, crossed, settled>>

\* backfill_encrypted_gitlab_secrets: a row with plain secrets is to be updated,
Backfill(p) ==
  /\ server[p] = "read"
  /\ IF legacy.plain = None
       THEN /\ server' = [server EXCEPT ![p] = "up"]
            /\ UNCHANGED <<saw, crossed>>
       ELSE /\ server' = [server EXCEPT ![p] = "update"]
            /\ saw' = [saw EXCEPT ![p] = legacy]
            /\ crossed' = crossed \cup {c \in Call : pc[c] # "idle"}
  /\ UNCHANGED <<project, tables, migrated, pc, with, settings, settled>>

\* Slip: the plain secrets are cleared only.
EncryptNothing(p) ==
  /\ server[p] = "update"
  /\ legacy' = [legacy EXCEPT !.plain = None]
  /\ server' = [server EXCEPT ![p] = "up"]
  /\ saw' = [saw EXCEPT ![p] = NoRow]
  /\ UNCHANGED <<project, neutral, migrated, pc, with, settings, crossed, settled>>

\* ... with the secrets that were read, though it may have been written since,
\* WHERE id = $1.
Encrypt(p) ==
  /\ server[p] = "update"
  /\ legacy' = IF legacy.id # saw[p].id THEN legacy
               ELSE [legacy EXCEPT !.secret = saw[p].plain, !.plain = None]
  /\ server' = [server EXCEPT ![p] = "up"]
  /\ saw' = [saw EXCEPT ![p] = NoRow]
  /\ UNCHANGED <<project, neutral, migrated, pc, with, settings, crossed, settled>>

\* A server stops, or its start fails; the calls end with the last one.
Stop(p) ==
  /\ server[p] # "down"
  /\ server' = [server EXCEPT ![p] = "down"]
  /\ saw' = [saw EXCEPT ![p] = NoRow]
  /\ IF \E q \in Server \ {p} : server[q] = "up"
       THEN UNCHANGED <<pc, with>>
       ELSE /\ pc' = [c \in Call |-> "idle"]
            /\ with' = [c \in Call |-> None]
  /\ UNCHANGED <<project, tables, migrated, settings, crossed, settled>>

(***************************************************************************)
(* The handlers.                                                           *)
(***************************************************************************)
\* create_project
Create ==
  /\ Running /\ project = "new"
  /\ project' = "exists"
  /\ UNCHANGED <<tables, starts, pc, with, settings, crossed, settled>>

\* Call c starts: it and the others under way, if there are any, overlap.
Starts(c, step) ==
  /\ Running /\ pc[c] = "idle"
  /\ pc' = [pc EXCEPT ![c] = step]
  /\ LET others == {d \in Call : pc[d] # "idle"}
     IN  crossed' = (crossed \ {c}) \cup others \cup
           (IF others # {} \/ \E p \in Server : server[p] = "update" THEN {c} ELSE {})

Ends(c) ==
  /\ pc' = [pc EXCEPT ![c] = "idle"]
  /\ with' = [with EXCEPT ![c] = None]

\* upsert_gitlab_integration: the project exists
Upsert(c) ==
  /\ project = "exists" /\ settings < MaxSettings
  /\ settings' = settings + 1
  /\ with' = [with EXCEPT ![c] = settings + 1]
  /\ Starts(c, "legacy")
  /\ UNCHANGED <<project, tables, starts, settled>>

\* What an upsert leaves in a row: its settings with its token, encrypted.
Whole(c, row) == [id |-> IF row = NoRow THEN with[c] ELSE row.id,
                  settings |-> with[c], secret |-> with[c], plain |-> None]

\* INSERT ... ON CONFLICT (project_id) DO UPDATE, if the project still exists
WriteLegacy(c) ==
  /\ pc[c] = "legacy" /\ project = "exists"
  /\ legacy' = Whole(c, legacy)
  /\ pc' = [pc EXCEPT ![c] = "neutral"]
  /\ settled' = FALSE
  /\ UNCHANGED <<project, neutral, starts, with, settings, crossed>>

\* Slip: ON CONFLICT DO NOTHING.
WriteNeutralOnce(c) ==
  /\ pc[c] = "neutral" /\ project = "exists"
  /\ neutral' = IF neutral # NoRow THEN neutral
                ELSE Whole(c, neutral)
  /\ settled' = (c \notin crossed)
  /\ Ends(c)
  /\ UNCHANGED <<project, legacy, starts, settings, crossed>>

\* INSERT ... ON CONFLICT (project_id, provider) DO UPDATE
WriteNeutral(c) ==
  /\ pc[c] = "neutral" /\ project = "exists"
  /\ neutral' = Whole(c, neutral)
  /\ settled' = (c \notin crossed)
  /\ Ends(c)
  /\ UNCHANGED <<project, legacy, starts, settings, crossed>>

\* delete_gitlab_integration: without a legacy row it answers 404 and stops,
Delete(c) ==
  /\ legacy # NoRow
  /\ legacy' = NoRow
  /\ settled' = FALSE
  /\ Starts(c, "delete")
  /\ UNCHANGED <<project, neutral, starts, with, settings>>

\* ... and the other row may be there or not.
DeleteNeutral(c) ==
  /\ pc[c] = "delete"
  /\ neutral' = NoRow
  /\ settled' = (c \notin crossed)
  /\ Ends(c)
  /\ UNCHANGED <<project, legacy, starts, settings, crossed>>

\* A statement fails (also because the project is gone), or the server stops.
Fail(c) ==
  /\ pc[c] # "idle"
  /\ Ends(c)
  /\ UNCHANGED <<project, tables, starts, settings, crossed, settled>>

\* delete_project: ON DELETE CASCADE
DeleteProject ==
  /\ Running /\ project = "exists"
  /\ project' = "deleted"
  /\ legacy' = NoRow /\ neutral' = NoRow
  /\ settled' = TRUE
  /\ UNCHANGED <<starts, pc, with, settings, crossed>>

-----------------------------------------------------------------------------
Next ==
  \/ \E p \in Server : Migrate(p) \/ Backfill(p) \/ Encrypt(p) \/ Stop(p)
  \/ \E c \in Call :
       \/ Upsert(c) \/ WriteLegacy(c) \/ WriteNeutral(c)
       \/ Delete(c) \/ DeleteNeutral(c) \/ Fail(c)
  \/ Create \/ DeleteProject

Spec == Init /\ [][Next]_vars

-----------------------------------------------------------------------------
\* Once a server runs, both tables hold the same settings and the token saved
\* with them, or nothing, unless the last call was overlapped by another (or by
\* the backfill of a second server) or failed half-way.  Only the token that was
\* encrypted after it was migrated is missing in the new table.
TablesAgree ==
  Running /\ settled =>
    /\ neutral.settings = legacy.settings
    /\ legacy.secret = legacy.settings
    /\ neutral.secret = legacy.secret \/ (neutral.secret = None /\ legacy.settings = 1)
=============================================================================
