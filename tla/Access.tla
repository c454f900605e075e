-------------------------------- MODULE Access --------------------------------
(***************************************************************************)
(* Who may do what: the grants of project_permissions and                  *)
(* issue_permissions, every query that reads them, and the transactions    *)
(* that replace them.  PostgreSQL runs those at READ COMMITTED: a DELETE   *)
(* takes the rows its snapshot holds, waiting for those that another       *)
(* transaction has deleted and not yet committed.  Its INSERTs become      *)
(* visible with the COMMIT, which is one action with them.                 *)
(*                                                                         *)
(* The application's administrators may start any of them at any time.     *)
(* A transaction runs once.  Definitions marked `Slip` are the next        *)
(* definition with one plausible mistake.                                  *)
(***************************************************************************)
CONSTANTS
  User, Project, Issue,
  ProjectOf,    \* the project of each issue
  Tx            \* transactions that change grants

ASSUME ConstantsAssumption ==
  /\ ProjectOf \in [Issue -> Project]
  /\ Project \cap Issue = {}

ProjectPermission == {"view", "create_issue", "admin"}   \* PROJECT_PERMISSION_OPTIONS
ReadPermission == {"read", "comment", "edit", "admin"}   \* also MANAGEABLE_PERMISSIONS
CommentPermission == {"comment", "edit", "admin"}
EditPermission == {"edit", "admin"}

\* subject_type and subject_id; issues are granted to users only, as nothing
\* inserts an issue permission of an email.
Subject == {"user", "email"} \X User
ById(u) == <<"user", u>>
ByEmail(u) == <<"email", u>>

\* What a request asks for; in a row also the transaction that inserted it.
Entry == [on : Project, subject : Subject, permission : ProjectPermission]
         \cup [on : Issue, subject : {"user"} \X User, permission : ReadPermission]
Row(t, e) == [on |-> e.on, subject |-> e.subject, permission |-> e.permission, by |-> t]
EntryOf(g) == [on |-> g.on, subject |-> g.subject, permission |-> g.permission]
Grant == {Row(t, e) : t \in Tx, e \in Entry}

Kind == {"project", "issue", "user", "user and issues", "remove", "create", "accept"}

VARIABLES
  grants,    \* committed rows
  member,    \* users that exist; the others have an invitation
  active, admin,
  pc, kind, target,
  list,      \* the entries that a transaction will insert
  snap,      \* the rows that its running DELETE has seen
  locked,    \* the rows it has deleted
  solo,      \* the last transaction, while no other has overlapped it
  was        \* the grants when it began

txVars == <<pc, kind, target, list, snap, locked>>
userVars == <<member, active, admin>>
vars == <<grants, userVars, txVars, solo, was>>

Init ==
  /\ grants = {}
  /\ member \in SUBSET User
  /\ active \in SUBSET member
  /\ admin \in SUBSET member
  /\ pc = [t \in Tx |-> "idle"]
  /\ kind = [t \in Tx |-> "project"]
  /\ target = [t \in Tx |-> {}]
  /\ list = [t \in Tx |-> {}]
  /\ snap = [t \in Tx |-> {}]
  /\ locked = [t \in Tx |-> {}]
  /\ solo = {}
  /\ was = {}

(***************************************************************************)
(* The queries.                                                            *)
(***************************************************************************)

\* has_project_permission, also as LEFT JOIN ... IS NOT NULL
HasProject(u, p, perms) ==
  \E g \in grants :
    g.on = p /\ g.subject \in {ById(u), ByEmail(u)} /\ g.permission \in perms

HasIssue(u, i, perms) ==
  \E g \in grants : g.on = i /\ g.subject = ById(u) /\ g.permission \in perms

\* list_issues
Listed(u) ==
  {i \in Issue : \/ u \in admin
                 \/ HasProject(u, ProjectOf[i], {"view", "admin"})
                 \/ HasIssue(u, i, ReadPermission)}

\* fetch_authorized_issue: GET of an issue, its comments and uploads
Fetched(u, i) ==
  \/ u \in admin
  \/ HasProject(u, ProjectOf[i], {"view", "admin"})
  \/ HasIssue(u, i, ReadPermission)

\* download_attachment
Downloads(u, i) ==
  \/ u \in admin
  \/ HasProject(u, ProjectOf[i], {"view", "admin"})
  \/ HasIssue(u, i, {"read", "comment", "edit", "admin"})

\* Slip: the join on the project is the one for reading.
CommentsOnView(u, i) ==
  u \in admin \/ HasProject(u, ProjectOf[i], {"view", "admin"}) \/ HasIssue(u, i, CommentPermission)

\* fetch_authorized_issue_for_comment: comments and uploads
Comments(u, i) ==
  u \in admin \/ HasProject(u, ProjectOf[i], {"admin"}) \/ HasIssue(u, i, CommentPermission)

\* ensure_issue_edit_access, ensure_issue_state_access
Edits(u, i) ==
  u \in admin \/ HasIssue(u, i, EditPermission) \/ HasProject(u, ProjectOf[i], {"admin"})

\* ensure_issue_manage_access, ensure_issue_sync_access
Manages(u, i) ==
  u \in admin \/ HasIssue(u, i, {"admin"}) \/ HasProject(u, ProjectOf[i], {"admin"})

\* ensure_project_issue_write_access
CreatesIn(u, p) == u \in admin \/ HasProject(u, p, {"create_issue", "admin"})

\* issue_capabilities_for_user: what the client is told
Capabilities(u, i) ==
  LET mayAdmin == HasProject(u, ProjectOf[i], {"admin"})
  IN  [view    |-> \/ u \in admin
                   \/ HasProject(u, ProjectOf[i], {"view", "admin"})
                   \/ HasIssue(u, i, ReadPermission),
       comment |-> u \in admin \/ HasIssue(u, i, CommentPermission) \/ mayAdmin,
       edit    |-> u \in admin \/ HasIssue(u, i, EditPermission) \/ mayAdmin,
       manage  |-> u \in admin \/ HasIssue(u, i, {"admin"}) \/ mayAdmin]

\* list_projects
ListedProjects(u) ==
  {p \in Project : \/ u \in admin
                   \/ HasProject(u, p, {"view", "create_issue", "admin"})
                   \/ \E i \in Issue : ProjectOf[i] = p /\ HasIssue(u, i, ReadPermission)}

\* Slip: invitations are left out.
ProjectOverviewOfUsers(p) ==
  {EntryOf(g) : g \in {h \in grants : h.on = p /\ \E u \in active : h.subject = ById(u)}}

\* get_project_access: the assignments of active users and of emails.
ProjectOverview(p) ==
  {EntryOf(g) : g \in {h \in grants :
     h.on = p /\ (h.subject[1] = "email" \/ \E u \in active : h.subject = ById(u))}}

\* available_subjects: without the emails of pending invitations, which may
\* be those of existing users
AvailableUsers(p) == {u \in active : \A g \in grants : g.on = p => g.subject # ById(u)}

\* get_issue_access: the first row of each active user, here any
IssueOverviews(i) ==
  LET held == {u \in active : HasIssue(u, i, ReadPermission)}
      first == [held -> {g \in grants : g.on = i}]
  IN  {{EntryOf(f[u]) : u \in held} : f \in {g \in first : \A u \in held : g[u].subject = ById(u)}}

\* get_user_access, for any user
UserOverview(u) == {EntryOf(g) : g \in {h \in grants : h.subject = ById(u)}}

(***************************************************************************)
(* The transactions.                                                       *)
(***************************************************************************)
Running(t) == pc[t] \notin {"idle", "done", "failed"}

\* The rows that the DELETE of t is about; a user's issues come second.
Doomed(t, g) ==
  CASE kind[t] = "project" -> g.on = target[t]
    [] kind[t] = "issue"   -> g.on = target[t] /\ g.subject[1] = "user"
    [] kind[t] = "remove"  -> g.on = target[t] /\ \E e \in list[t] : e.subject = g.subject
    [] kind[t] = "accept"  -> g.subject = ByEmail(target[t])
    [] kind[t] = "create"  -> FALSE
    [] OTHER -> /\ g.subject = ById(target[t])
                /\ IF pc[t] = "delete" THEN g.on \in Project ELSE g.on \in Issue

\* Lists of entries on x that name no subject twice.
Lists(x, subjects, perms) ==
  UNION {{{[on |-> x, subject |-> s, permission |-> f[s]] : s \in some} : f \in [some -> perms]} :
           some \in SUBSET subjects}

\* Lists for user u that name no project or issue twice.
UserLists(u, ons, perms) ==
  UNION {{{[on |-> x, subject |-> ById(u), permission |-> f[x]] : x \in some} :
            f \in [some -> perms]} : some \in SUBSET ons}

\* What a request that has passed its checks may ask for.
Requests(k, x) ==
  CASE k = "project" -> Lists(x, {ById(u) : u \in member} \cup {ByEmail(u) : u \in User}, ProjectPermission)
    [] k = "issue" -> Lists(x, {ById(u) : u \in active}, ReadPermission)
    [] k = "user" -> UserLists(x, Project, ProjectPermission)
    [] k = "user and issues" ->
         {both[1] \cup both[2] :
            both \in UserLists(x, Project, ProjectPermission) \X UserLists(x, Issue, ReadPermission)}
    [] k = "remove" -> {{[on |-> x, subject |-> ById(u), permission |-> "read"]} : u \in member}
    [] k = "create" -> {{[on |-> x, subject |-> ById(u), permission |-> "admin"]} : u \in active}
    [] k = "accept" -> {{}}

IsTarget(k, x) ==
  CASE k = "project" -> x \in Project
    [] k \in {"issue", "remove"} -> x \in Issue
    [] k = "create" -> x \in Issue /\ \A g \in grants : g.on # x
    [] k \in {"user", "user and issues"} -> x \in member
    [] k = "accept" -> x \in User \ member

\* Requests that have ended are forgotten.
WithRequest(f, t, v, none) == [s \in Tx |-> IF s = t THEN v ELSE IF Running(s) THEN f[s] ELSE none]

\* BEGIN of update_project_access, update_issue_access, update_user_access and
\* accept_invitation; remove_issue_permission and create_issue are one statement.
Begin(t, k, x, es) ==
  /\ pc[t] = "idle"
  /\ pc' = [pc EXCEPT ![t] = IF k = "accept" THEN "copy" ELSE "delete"]
  /\ kind' = WithRequest(kind, t, k, "project")
  /\ target' = WithRequest(target, t, x, {})
  /\ list' = WithRequest(list, t, es, {})
  /\ solo' = IF \E s \in Tx : Running(s) THEN {} ELSE {t}
  /\ was' = IF solo' = {} THEN {} ELSE {EntryOf(g) : g \in grants}
  /\ UNCHANGED <<grants, userVars, snap, locked>>

\* Slip: without the effect and permission columns of the SELECT.
CopyAsView(t) ==
  /\ pc[t] = "copy"
  /\ pc' = [pc EXCEPT ![t] = "delete"]
  /\ list' = [list EXCEPT ![t] =
       {[on |-> g.on, subject |-> ById(target[t]), permission |-> "view"] :
          g \in {h \in grants : h.subject = ByEmail(target[t])}}]
  /\ UNCHANGED <<grants, userVars, kind, target, snap, locked, solo, was>>

\* accept_invitation: INSERT ... SELECT of the grants to the email; the user is
\* new, so that no row of his can be in conflict.
Copy(t) ==
  /\ pc[t] = "copy"
  /\ pc' = [pc EXCEPT ![t] = "delete"]
  /\ list' = [list EXCEPT ![t] =
       {[on |-> g.on, subject |-> ById(target[t]), permission |-> g.permission] :
          g \in {h \in grants : h.subject = ByEmail(target[t])}}]
  /\ UNCHANGED <<grants, userVars, kind, target, snap, locked, solo, was>>

\* Slip: the list is added to what is there.
DeleteNothing(t) ==
  /\ pc[t] \in {"delete", "delete issues"}
  /\ snap' = [snap EXCEPT ![t] = {}]
  /\ pc' = [pc EXCEPT ![t] = IF pc[t] = "delete" THEN "lock" ELSE "lock issues"]
  /\ UNCHANGED <<grants, userVars, kind, target, list, locked, solo, was>>

\* A DELETE takes its snapshot ...
Delete(t) ==
  /\ pc[t] \in {"delete", "delete issues"}
  /\ snap' = [snap EXCEPT ![t] = {g \in grants : Doomed(t, g)}]
  /\ pc' = [pc EXCEPT ![t] = IF pc[t] = "delete" THEN "lock" ELSE "lock issues"]
  /\ UNCHANGED <<grants, userVars, kind, target, list, locked, solo, was>>

\* ... and ends when none of its rows is locked; those that went meanwhile are
\* skipped.
Lock(t) ==
  /\ pc[t] \in {"lock", "lock issues"}
  /\ \A s \in Tx \ {t} : Running(s) => locked[s] \cap snap[t] = {}
  /\ locked' = [locked EXCEPT ![t] = @ \cup (snap[t] \cap grants)]
  /\ snap' = [snap EXCEPT ![t] = {}]
  /\ pc' = [pc EXCEPT ![t] =
       IF pc[t] = "lock" /\ kind[t] = "user and issues" THEN "delete issues" ELSE "insert"]
  /\ UNCHANGED <<grants, userVars, kind, target, list, solo, was>>

\* Rows of project_permissions with the key of an entry: UNIQUE (project_id,
\* subject_type, subject_id).
Keyed(t) ==
  {g \in grants \ locked[t] :
     g.on \in Project /\ \E e \in list[t] : e.on = g.on /\ e.subject = g.subject}

Inserted(t) == IF kind[t] = "remove" THEN {} ELSE {Row(t, e) : e \in list[t]}

\* INSERTs and COMMIT.
Commit(t) ==
  /\ pc[t] = "insert" /\ Keyed(t) = {}
  /\ kind[t] = "accept" => target[t] \notin member   \* UNIQUE (email)
  /\ grants' = (grants \ locked[t]) \cup Inserted(t)
  /\ IF kind[t] = "accept"
       THEN /\ member' = member \cup {target[t]}
            /\ active' = active \cup {target[t]}
       ELSE UNCHANGED <<member, active>>
  /\ pc' = [pc EXCEPT ![t] = "done"]
  /\ locked' = [locked EXCEPT ![t] = {}]
  /\ UNCHANGED <<admin, kind, target, list, snap, solo, was>>

\* An INSERT meets the key of a committed row, or the connection is lost:
\* ROLLBACK.  A row that another transaction has locked is waited for.
Abort(t) ==
  /\ Running(t)
  /\ pc' = [pc EXCEPT ![t] = "failed"]
  /\ snap' = [snap EXCEPT ![t] = {}]
  /\ locked' = [locked EXCEPT ![t] = {}]
  /\ UNCHANGED <<grants, userVars, kind, target, list, solo, was>>

\* update_user; accept_invitation copies is_admin.
UpdateUser(u) ==
  /\ u \in member
  /\ active' \in {active \cup {u}, active \ {u}}
  /\ admin' \in {admin \cup {u}, admin \ {u}}
  /\ UNCHANGED <<grants, member, txVars, solo, was>>

-----------------------------------------------------------------------------
Next ==
  \/ \E t \in Tx :
       \/ \E k \in Kind, x \in Project \cup Issue \cup User :
            IsTarget(k, x) /\ \E es \in Requests(k, x) : Begin(t, k, x, es)
       \/ Copy(t) \/ Delete(t) \/ Lock(t) \/ Commit(t) \/ Abort(t)
  \/ \E u \in User : UpdateUser(u)

Spec == Init /\ [][Next]_vars

-----------------------------------------------------------------------------
\* Grants, members and transactions have their types.
TypeOK ==
  /\ grants \subseteq Grant
  /\ member \subseteq User /\ active \subseteq member /\ admin \subseteq member
  /\ pc \in [Tx -> {"idle", "copy", "delete", "lock", "delete issues", "lock issues", "insert",
                    "done", "failed"}]
  /\ kind \in [Tx -> Kind]
  /\ list \in [Tx -> SUBSET Entry]
  /\ \A t \in Tx : snap[t] \subseteq Grant /\ locked[t] \subseteq grants
  /\ solo \subseteq Tx

\* The capabilities that the client is told are those that each handler grants
\* in a query of its own, and they are nested; a project is listed with each of
\* its listed issues.
CapabilitiesAreEnforced ==
  \A u \in active, i \in Issue :
    LET c == Capabilities(u, i)
    IN  /\ c.view <=> i \in Listed(u)
        /\ c.view <=> Fetched(u, i)
        /\ c.view <=> Downloads(u, i)
        /\ c.comment <=> Comments(u, i)
        /\ c.edit <=> Edits(u, i)
        /\ c.manage <=> Manages(u, i)
        /\ (c.manage => c.edit) /\ (c.edit => c.comment) /\ (c.comment => c.view)
        /\ i \in Listed(u) => ProjectOf[i] \in ListedProjects(u)

\* Nobody has a right that the overviews hide: whoever holds a grant on a project
\* or an issue is in its overview, by id or by email, or may be added to it, and
\* an overview of an issue shows one permission of each user.
NobodyIsHidden ==
  \A u \in active :
    /\ \A p \in Project :
         LET shown == {e.subject : e \in ProjectOverview(p)}
         IN  /\ HasProject(u, p, ProjectPermission) => shown \cap {ById(u), ByEmail(u)} # {}
             /\ u \in AvailableUsers(p) <=> ById(u) \notin shown
    /\ \A i \in Issue : \A es \in IssueOverviews(i) :
         /\ HasIssue(u, i, ReadPermission) <=> \E e \in es : e.subject = ById(u)
         /\ \A e, f \in es : e.subject = f.subject => e = f
         /\ {e \in es : e.subject = ById(u)} \subseteq UserOverview(u)

\* The part of the tables that a list replaces.
InScope(t, e) ==
  CASE kind[t] = "project" -> e.on = target[t]
    [] kind[t] = "issue" -> e.on = target[t] /\ e.subject[1] = "user"
    [] kind[t] = "user" -> e.on \in Project /\ e.subject = ById(target[t])
    [] kind[t] = "user and issues" -> e.subject = ById(target[t])
    [] OTHER -> FALSE

\* A list that was saved while nothing else was is what is in force, and
\* nothing beside it has changed.
ListsAreReplaced ==
  \A t \in solo : pc[t] = "done" /\ kind[t] \in {"project", "issue", "user", "user and issues"} =>
    {EntryOf(g) : g \in grants} = {e \in was : ~InScope(t, e)} \cup list[t]

\* Who accepts an invitation has the rights that his email had, by id, and the
\* email has none left that a later change of the user's access would not reach.
AcceptanceKeepsRights ==
  \A t \in solo : pc[t] = "done" /\ kind[t] = "accept" =>
    /\ \A p \in Project, m \in ProjectPermission :
         [on |-> p, subject |-> ByEmail(target[t]), permission |-> m] \in was
           <=> [on |-> p, subject |-> ById(target[t]), permission |-> m]
                 \in {EntryOf(g) : g \in grants}
    /\ \A g \in grants : g.subject # ByEmail(target[t])
=============================================================================
