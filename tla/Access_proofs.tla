---------------------------- MODULE Access_proofs ----------------------------
(***************************************************************************)
(* Theorems about Access for all users, projects, issues and transactions. *)
(***************************************************************************)
EXTENDS Access, TLAPS

-----------------------------------------------------------------------------
(***************************************************************************)
(* Types.                                                                  *)
(***************************************************************************)
ProjectEntry == [on : Project, subject : Subject, permission : ProjectPermission]
IssueEntry == [on : Issue, subject : {"user"} \X User, permission : ReadPermission]

LEMMA Entries == Entry = ProjectEntry \cup IssueEntry
  BY DEF Entry, ProjectEntry, IssueEntry

LEMMA Subjects ==
  /\ \A u \in User : ById(u) \in {"user"} \X User /\ ById(u) \in Subject /\ ByEmail(u) \in Subject
  /\ \A u, v : (ById(u) = ById(v) => u = v) /\ (ByEmail(u) = ByEmail(v) => u = v)
  /\ \A u, v : ById(u) # ByEmail(v)
  /\ \A u : ById(u)[1] = "user" /\ ByEmail(u)[1] = "email"
  BY DEF ById, ByEmail, Subject

\* A row is an entry and the transaction that inserted it.
LEMMA Grants ==
  ASSUME NEW g \in Grant
  PROVE  /\ EntryOf(g) \in Entry
         /\ EntryOf(g).on = g.on /\ EntryOf(g).subject = g.subject
         /\ EntryOf(g).permission = g.permission
  <1>1. PICK t \in Tx, e \in Entry : g = Row(t, e)
    BY DEF Grant
  <1>2. e = [on |-> e.on, subject |-> e.subject, permission |-> e.permission]
    BY DEF Entry
  <1>3. QED
    BY <1>1, <1>2 DEF Row, EntryOf

LEMMA Rows ==
  ASSUME NEW t \in Tx, NEW e \in Entry
  PROVE  Row(t, e) \in Grant /\ EntryOf(Row(t, e)) = e
  <1>1. e = [on |-> e.on, subject |-> e.subject, permission |-> e.permission]
    BY DEF Entry
  <1>2. QED
    BY <1>1 DEF Row, EntryOf, Grant

\* What a checked list holds.
LEMMA ListsHold ==
  ASSUME NEW x, NEW subjects, NEW perms, NEW es \in Lists(x, subjects, perms), NEW e \in es
  PROVE  \E s \in subjects, m \in perms : e = [on |-> x, subject |-> s, permission |-> m]
  <1>1. PICK some \in SUBSET subjects :
          es \in {{[on |-> x, subject |-> s, permission |-> f[s]] : s \in some} :
                    f \in [some -> perms]}
    BY DEF Lists
  <1>2. PICK f \in [some -> perms] :
          es = {[on |-> x, subject |-> s, permission |-> f[s]] : s \in some}
    BY <1>1
  <1>3. QED
    BY <1>2

LEMMA UserListsHold ==
  ASSUME NEW u, NEW ons, NEW perms, NEW es \in UserLists(u, ons, perms), NEW e \in es
  PROVE  \E x \in ons, m \in perms : e = [on |-> x, subject |-> ById(u), permission |-> m]
  <1>1. PICK some \in SUBSET ons :
          es \in {{[on |-> x, subject |-> ById(u), permission |-> f[x]] : x \in some} :
                    f \in [some -> perms]}
    BY DEF UserLists
  <1>2. PICK f \in [some -> perms] :
          es = {[on |-> x, subject |-> ById(u), permission |-> f[x]] : x \in some}
    BY <1>1
  <1>3. QED
    BY <1>2

Steps == {"idle", "copy", "delete", "lock", "delete issues", "lock issues", "insert",
          "done", "failed"}

\* Users by id in a grant or a list exist, or are about to.
Known(t, e) ==
  \A u \in User : e.subject = ById(u) => u \in member \/ (kind[t] = "accept" /\ u = target[t])

TypeInv ==
  /\ grants \subseteq Grant
  /\ member \subseteq User /\ active \subseteq member /\ admin \subseteq member
  /\ pc \in [Tx -> Steps]
  /\ kind \in [Tx -> Kind]
  /\ target \in [Tx -> Project \cup Issue \cup User \cup {{}}]
  /\ list \in [Tx -> SUBSET Entry]
  /\ snap \in [Tx -> SUBSET Grant]
  /\ locked \in [Tx -> SUBSET Grant]
  /\ solo \subseteq Tx
  /\ \A t \in Tx : kind[t] = "accept" /\ Running(t) => target[t] \in User
  /\ \A t \in Tx : Running(t) => \A e \in list[t] : Known(t, e)
  /\ \A g \in grants, u \in User : g.subject = ById(u) => u \in member

\* What a request asks for is well-formed, and names users that exist.
LEMMA RequestsHold ==
  ASSUME TypeInv, NEW k \in Kind, NEW x \in Project \cup Issue \cup User, IsTarget(k, x),
         NEW es \in Requests(k, x), NEW e \in es
  PROVE  /\ e \in Entry
         /\ \A u \in User : e.subject = ById(u) => u \in member
  <1> USE Entries, Subjects DEF TypeInv
  <1>1. CASE k = "project"
    <2>1. x \in Project /\ es \in Lists(x, {ById(u) : u \in member} \cup {ByEmail(u) : u \in User},
                                         ProjectPermission)
      BY <1>1 DEF IsTarget, Requests
    <2>2. PICK s \in {ById(u) : u \in member} \cup {ByEmail(u) : u \in User},
               m \in ProjectPermission : e = [on |-> x, subject |-> s, permission |-> m]
      BY <2>1, ListsHold
    <2>3. s \in Subject /\ \A u \in User : s = ById(u) => u \in member
      BY <2>2
    <2>4. QED
      BY <2>1, <2>2, <2>3 DEF ProjectEntry
  <1>2. CASE k = "issue"
    <2>1. x \in Issue /\ es \in Lists(x, {ById(u) : u \in active}, ReadPermission)
      BY <1>2 DEF IsTarget, Requests
    <2>2. PICK s \in {ById(u) : u \in active}, m \in ReadPermission :
            e = [on |-> x, subject |-> s, permission |-> m]
      BY <2>1, ListsHold
    <2>3. s \in {"user"} \X User /\ \A u \in User : s = ById(u) => u \in member
      BY <2>2
    <2>4. QED
      BY <2>1, <2>2, <2>3 DEF IssueEntry
  <1>3. ASSUME x \in member, NEW fs \in UserLists(x, Project, ProjectPermission), e \in fs
        PROVE  /\ e \in Entry
               /\ \A u \in User : e.subject = ById(u) => u \in member
    <2>1. PICK y \in Project, m \in ProjectPermission :
            e = [on |-> y, subject |-> ById(x), permission |-> m]
      BY <1>3, UserListsHold
    <2>2. QED
      BY <1>3, <2>1 DEF ProjectEntry
  <1>4. ASSUME x \in member, NEW fs \in UserLists(x, Issue, ReadPermission), e \in fs
        PROVE  /\ e \in Entry
               /\ \A u \in User : e.subject = ById(u) => u \in member
    <2>1. PICK y \in Issue, m \in ReadPermission :
            e = [on |-> y, subject |-> ById(x), permission |-> m]
      BY <1>4, UserListsHold
    <2>2. QED
      BY <1>4, <2>1 DEF IssueEntry
  <1>5. CASE k = "user"
    <2>1. x \in member /\ es \in UserLists(x, Project, ProjectPermission)
      BY <1>5 DEF IsTarget, Requests
    <2>2. QED
      BY <1>3, <2>1
  <1>6. CASE k = "user and issues"
    <2>1. x \in member
      BY <1>6 DEF IsTarget
    <2>2. PICK both \in UserLists(x, Project, ProjectPermission) \X UserLists(x, Issue, ReadPermission) :
            es = both[1] \cup both[2]
      BY <1>6 DEF Requests
    <2>3. e \in both[1] \/ e \in both[2]
      BY <2>2
    <2>4. QED
      BY <1>3, <1>4, <2>1, <2>2, <2>3
  <1>7. CASE k = "remove"
    <2>1. x \in Issue /\ \E u \in member : e = [on |-> x, subject |-> ById(u), permission |-> "read"]
      BY <1>7 DEF IsTarget, Requests
    <2>2. QED
      BY <2>1 DEF IssueEntry, ReadPermission
  <1>8. CASE k = "create"
    <2>1. x \in Issue /\ \E u \in active : e = [on |-> x, subject |-> ById(u), permission |-> "admin"]
      BY <1>8 DEF IsTarget, Requests
    <2>2. QED
      BY <2>1 DEF IssueEntry, ReadPermission
  <1>9. CASE k = "accept"
    BY <1>9 DEF Requests
  <1>10. QED
    BY <1>1, <1>2, <1>5, <1>6, <1>7, <1>8, <1>9 DEF Kind

-----------------------------------------------------------------------------
LEMMA TypeInit == Init => TypeInv
  BY DEF Init, TypeInv, Steps, Kind, Running

LEMMA BeginTypes ==
  ASSUME TypeInv, NEW t \in Tx, NEW k \in Kind, NEW x \in Project \cup Issue \cup User,
         IsTarget(k, x), NEW es \in Requests(k, x), Begin(t, k, x, es)
  PROVE  TypeInv'
  <1>1. \A e \in es : e \in Entry /\ \A u \in User : e.subject = ById(u) => u \in member
    BY RequestsHold
  <1>2. /\ pc' = [pc EXCEPT ![t] = IF k = "accept" THEN "copy" ELSE "delete"]
        /\ kind' = WithRequest(kind, t, k, "project")
        /\ target' = WithRequest(target, t, x, {})
        /\ list' = WithRequest(list, t, es, {})
        /\ pc[t] = "idle" /\ solo' \in {{}, {t}}
        /\ UNCHANGED <<grants, member, active, admin, snap, locked>>
    BY DEF Begin, userVars
  <1>3. pc' \in [Tx -> Steps]
    BY <1>2 DEF TypeInv, Steps
  <1>4. kind' \in [Tx -> Kind] /\ list' \in [Tx -> SUBSET Entry]
        /\ target' \in [Tx -> Project \cup Issue \cup User \cup {{}}]
    BY <1>1, <1>2 DEF WithRequest, TypeInv, Kind
  <1>5. k = "accept" => x \in User
    BY DEF IsTarget
  <1>6. \A s \in Tx : /\ s # t /\ Running(s)' => Running(s)
                      /\ s # t /\ Running(s) =>
                           kind'[s] = kind[s] /\ target'[s] = target[s] /\ list'[s] = list[s]
    BY <1>2 DEF WithRequest, Running, TypeInv
  <1>7. kind'[t] = k /\ target'[t] = x /\ list'[t] = es
    BY <1>2 DEF WithRequest
  <1>8. \A s \in Tx : kind'[s] = "accept" /\ Running(s)' => target'[s] \in User
    BY <1>5, <1>6, <1>7 DEF TypeInv, Running
  <1>9. \A s \in Tx : Running(s)' => \A e \in list'[s] : Known(s, e)'
    <2>1. ASSUME NEW s \in Tx, s # t, Running(s)' PROVE \A e \in list'[s] : Known(s, e)'
      BY <1>2, <1>6, <2>1 DEF Known, TypeInv
    <2>2. \A e \in list'[t] : Known(t, e)'
      BY <1>1, <1>2, <1>7 DEF Known
    <2>3. QED
      BY <2>1, <2>2
  <1>10. QED
    BY <1>2, <1>3, <1>4, <1>8, <1>9 DEF TypeInv

\* A step of a transaction that has begun and commits nothing.
LEMMA StepTypes ==
  ASSUME TypeInv, NEW t \in Tx, UNCHANGED <<grants, userVars, kind, target, solo>>,
         NEW at \in Steps, pc' = [pc EXCEPT ![t] = at], Running(t),
         list' \in [Tx -> SUBSET Entry], \A s \in Tx \ {t} : list'[s] = list[s],
         \A e \in list'[t] : Known(t, e),
         snap' \in [Tx -> SUBSET Grant], locked' \in [Tx -> SUBSET Grant]
  PROVE  TypeInv'
  <1>1. UNCHANGED <<member, active, admin>>
    BY DEF userVars
  <1>2. pc' \in [Tx -> Steps] /\ \A s \in Tx : Running(s)' => Running(s)
    BY DEF TypeInv, Running
  <1>3. \A s \in Tx, e \in Entry : Known(s, e)' <=> Known(s, e)
    BY <1>1 DEF Known
  <1>4. \A s \in Tx : kind[s] = "accept" /\ Running(s)' => target[s] \in User
    BY <1>2 DEF TypeInv, Running
  <1>5. \A s \in Tx : Running(s)' => \A e \in list'[s] : Known(s, e)'
    BY <1>2, <1>3 DEF TypeInv
  <1>6. QED
    BY <1>1, <1>2, <1>4, <1>5 DEF TypeInv

LEMMA CopyTypes ==
  ASSUME TypeInv, NEW t \in Tx, Copy(t), kind[t] = "accept"
  PROVE  TypeInv'
  <1>1. target[t] \in User /\ Running(t)
    BY DEF Copy, Running, TypeInv
  <1>2. DEFINE copied == {[on |-> g.on, subject |-> ById(target[t]), permission |-> g.permission] :
                            g \in {h \in grants : h.subject = ByEmail(target[t])}}
  <1>3. copied \subseteq Entry
    <2>1. ASSUME NEW g \in grants, g.subject = ByEmail(target[t])
          PROVE  g.on \in Project /\ g.permission \in ProjectPermission
      <3>1. EntryOf(g) \in Entry /\ EntryOf(g).on = g.on /\ EntryOf(g).subject = g.subject
            /\ EntryOf(g).permission = g.permission
        BY Grants DEF TypeInv
      <3>2. g.subject \notin {"user"} \X User
        BY <1>1, <2>1, Subjects
      <3>3. QED
        BY <3>1, <3>2, Entries DEF ProjectEntry, IssueEntry
    <2>2. QED
      BY <1>1, <2>1, Entries, Subjects DEF ProjectEntry
  <1>4. /\ list' = [list EXCEPT ![t] = copied] /\ pc' = [pc EXCEPT ![t] = "delete"]
        /\ UNCHANGED <<grants, userVars, kind, target, snap, locked, solo>>
    BY DEF Copy
  <1>5. list' \in [Tx -> SUBSET Entry] /\ \A s \in Tx \ {t} : list'[s] = list[s]
    BY <1>3, <1>4 DEF TypeInv
  <1>6. \A e \in list'[t] : Known(t, e)
    <2>1. list'[t] = copied
      BY <1>4 DEF TypeInv
    <2>2. \A e \in copied : e.subject = ById(target[t])
      OBVIOUS
    <2>3. QED
      BY <2>1, <2>2, Subjects DEF Known
  <1>7. "delete" \in Steps
    BY DEF Steps
  <1>8. QED
    BY <1>1, <1>4, <1>5, <1>6, <1>7, StepTypes DEF TypeInv

LEMMA DeleteTypes ==
  ASSUME TypeInv, NEW t \in Tx, Delete(t)
  PROVE  TypeInv'
  <1>1. snap' \in [Tx -> SUBSET Grant]
    BY DEF Delete, TypeInv
  <1>2. PICK at \in {"lock", "lock issues"} : pc' = [pc EXCEPT ![t] = at]
    BY DEF Delete
  <1>3. at \in Steps /\ Running(t)
    BY DEF Delete, Steps, Running
  <1>4. QED
    BY <1>1, <1>2, <1>3, StepTypes DEF Delete, TypeInv

LEMMA LockTypes ==
  ASSUME TypeInv, NEW t \in Tx, Lock(t)
  PROVE  TypeInv'
  <1>1. snap' \in [Tx -> SUBSET Grant] /\ locked' \in [Tx -> SUBSET Grant]
    BY DEF Lock, TypeInv
  <1>2. PICK at \in {"delete issues", "insert"} : pc' = [pc EXCEPT ![t] = at]
    BY DEF Lock
  <1>3. at \in Steps /\ Running(t)
    BY DEF Lock, Steps, Running
  <1>4. QED
    BY <1>1, <1>2, <1>3, StepTypes DEF Lock, TypeInv

LEMMA AbortTypes ==
  ASSUME TypeInv, NEW t \in Tx, Abort(t)
  PROVE  TypeInv'
  <1>1. snap' \in [Tx -> SUBSET Grant] /\ locked' \in [Tx -> SUBSET Grant]
    BY DEF Abort, TypeInv
  <1>2. "failed" \in Steps
    BY DEF Steps
  <1>3. QED
    BY <1>1, <1>2, StepTypes DEF Abort, TypeInv

LEMMA CommitTypes ==
  ASSUME TypeInv, NEW t \in Tx, Commit(t)
  PROVE  TypeInv'
  <1>1. Running(t) /\ (kind[t] = "accept" => target[t] \in User)
    BY DEF Commit, Running, TypeInv
  <1>2. /\ member \subseteq member' /\ member' \subseteq User
        /\ active' \subseteq member' /\ admin' = admin
        /\ kind[t] = "accept" => target[t] \in member'
    BY <1>1 DEF Commit, TypeInv
  <1>3. Inserted(t) \subseteq Grant
    BY Rows DEF Inserted, TypeInv
  <1>4. grants' \subseteq Grant /\ \A g \in grants' : g \in grants \/ g \in Inserted(t)
    BY <1>3 DEF Commit, TypeInv
  <1>5. ASSUME NEW g \in Inserted(t), NEW u \in User, g.subject = ById(u) PROVE u \in member'
    <2>1. PICK e \in list[t] : g = Row(t, e)
      BY DEF Inserted
    <2>2. e \in Entry /\ Known(t, e)
      BY <1>1 DEF TypeInv
    <2>3. e.subject = ById(u)
      BY <1>5, <2>1 DEF Row
    <2>4. QED
      BY <1>2, <2>2, <2>3 DEF Known
  <1>6. \A g \in grants', u \in User : g.subject = ById(u) => u \in member'
    BY <1>2, <1>4, <1>5 DEF TypeInv
  <1>7. pc' \in [Tx -> Steps] /\ \A s \in Tx : Running(s)' => Running(s)
    BY DEF Commit, TypeInv, Steps, Running
  <1>8. \A s \in Tx : Running(s)' => \A e \in list'[s] : Known(s, e)'
    BY <1>2, <1>7 DEF Commit, Known, TypeInv
  <1>9. locked' \in [Tx -> SUBSET Grant] /\ UNCHANGED <<kind, target, list, snap, solo>>
    BY DEF Commit, TypeInv
  <1>10. \A s \in Tx : kind'[s] = "accept" /\ Running(s)' => target'[s] \in User
    BY <1>7, <1>9 DEF TypeInv
  <1>11. QED
    BY <1>2, <1>4, <1>6, <1>7, <1>8, <1>9, <1>10 DEF TypeInv

LEMMA TypeStep ==
  ASSUME TypeInv, [Next]_vars, \A t \in Tx : pc[t] = "copy" => kind[t] = "accept"
  PROVE  TypeInv'
  <1>1. CASE UNCHANGED vars
    BY <1>1 DEF vars, userVars, txVars, TypeInv, Known, Running
  <1>2. ASSUME NEW t \in Tx, Copy(t) \/ Delete(t) \/ Lock(t) \/ Commit(t) \/ Abort(t)
        PROVE  TypeInv'
    BY <1>2, CopyTypes, DeleteTypes, LockTypes, CommitTypes, AbortTypes DEF Copy
  <1>3. ASSUME NEW u \in User, UpdateUser(u) PROVE TypeInv'
    BY <1>3 DEF UpdateUser, txVars, TypeInv, Known, Running
  <1>4. QED
    BY <1>1, <1>2, <1>3, BeginTypes DEF Next

-----------------------------------------------------------------------------
(***************************************************************************)
(* Locks.                                                                  *)
(***************************************************************************)
LockInv ==
  /\ \A t \in Tx : /\ locked[t] \subseteq grants
                   /\ ~Running(t) => locked[t] = {}
                   /\ pc[t] = "copy" => kind[t] = "accept"
                   /\ pc[t] \in {"delete issues", "lock issues"} => kind[t] = "user and issues"
  /\ \A s, t \in Tx : s # t => locked[s] \cap locked[t] = {}

LEMMA LockInit == Init => LockInv
  BY DEF Init, LockInv, Running

\* Each row is deleted by one transaction at most.
LEMMA LockStep == TypeInv /\ LockInv /\ [Next]_vars => LockInv'
  <1> SUFFICES ASSUME TypeInv, LockInv, [Next]_vars PROVE LockInv'
    OBVIOUS
  <1>1. CASE UNCHANGED vars
    BY <1>1 DEF vars, txVars, LockInv, Running
  <1>2. ASSUME NEW t \in Tx, NEW k \in Kind, NEW x, NEW es, Begin(t, k, x, es) PROVE LockInv'
    <2>1. UNCHANGED <<grants, locked>> /\ pc[t] = "idle"
      BY <1>2 DEF Begin
    <2>2. \A s \in Tx : ~Running(s)' => ~Running(s)
      BY <1>2 DEF Begin, Running, TypeInv
    <2>3. \A s \in Tx : /\ pc'[s] = "copy" => kind'[s] = "accept"
                        /\ pc'[s] \in {"delete issues", "lock issues"} => kind'[s] = "user and issues"
      BY <1>2 DEF Begin, WithRequest, Running, TypeInv, LockInv
    <2>4. QED
      BY <2>1, <2>2, <2>3 DEF LockInv
  <1>3. ASSUME NEW t \in Tx, Copy(t) \/ Delete(t) PROVE LockInv'
    BY <1>3 DEF Copy, Delete, LockInv, Running, TypeInv
  <1>4. ASSUME NEW t \in Tx, Lock(t) PROVE LockInv'
    <2>1. /\ UNCHANGED <<grants, kind>> /\ Running(t) /\ Running(t)'
          /\ locked'[t] = locked[t] \cup (snap[t] \cap grants)
          /\ \A s \in Tx \ {t} : /\ locked'[s] = locked[s] /\ pc'[s] = pc[s]
                                 /\ Running(s) => locked[s] \cap snap[t] = {}
      BY <1>4 DEF Lock, Running, TypeInv
    <2>2. \A s \in Tx : /\ pc'[s] = "copy" => kind'[s] = "accept"
                        /\ pc'[s] \in {"delete issues", "lock issues"} => kind'[s] = "user and issues"
      BY <1>4 DEF Lock, LockInv, TypeInv
    <2>3. \A s \in Tx \ {t} : locked'[s] \cap locked'[t] = {}
      BY <2>1 DEF LockInv
    <2>4. \A s \in Tx : locked'[s] \subseteq grants /\ (~Running(s)' => locked'[s] = {})
      BY <2>1 DEF LockInv, Running
    <2>5. \A r, s \in Tx : r # s => locked'[r] \cap locked'[s] = {}
      BY <2>1, <2>3 DEF LockInv
    <2>6. QED
      BY <2>1, <2>2, <2>4, <2>5 DEF LockInv
  <1>5. ASSUME NEW t \in Tx, Commit(t) \/ Abort(t) PROVE LockInv'
    <2>1. /\ kind' = kind /\ locked'[t] = {} /\ pc'[t] \in {"done", "failed"}
          /\ \A s \in Tx \ {t} : locked'[s] = locked[s] /\ pc'[s] = pc[s]
          /\ \A g \in grants : g \in grants' \/ g \in locked[t]
      BY <1>5 DEF Commit, Abort, TypeInv
    <2>2. QED
      BY <2>1 DEF LockInv, Running
  <1>6. ASSUME NEW u \in User, UpdateUser(u) PROVE LockInv'
    BY <1>6 DEF UpdateUser, txVars, LockInv, Running
  <1>7. QED
    BY <1>1, <1>2, <1>3, <1>4, <1>5, <1>6 DEF Next

-----------------------------------------------------------------------------
(***************************************************************************)
(* A transaction that nothing overlaps.  It finds at its DELETEs the rows  *)
(* that were there when it began, and the part of them that it has locked  *)
(* when it inserts is the part that its list replaces.                     *)
(***************************************************************************)
Committed == {EntryOf(g) : g \in grants}

\* The rows of the first DELETE and of the second.
First(t, g) ==
  \/ kind[t] = "project" /\ g.on = target[t]
  \/ kind[t] = "issue" /\ g.on = target[t] /\ g.subject[1] = "user"
  \/ kind[t] \in {"user", "user and issues"} /\ g.subject = ById(target[t]) /\ g.on \in Project
  \/ kind[t] = "accept" /\ g.subject = ByEmail(target[t])
Second(t, g) ==
  kind[t] = "user and issues" /\ g.subject = ById(target[t]) /\ g.on \in Issue

Copied(t) ==
  {[on |-> g.on, subject |-> ById(target[t]), permission |-> g.permission] :
     g \in {h \in grants : h.subject = ByEmail(target[t])}}

Saving == {"project", "issue", "user", "user and issues"}

Undisturbed(t) ==
  /\ \A s \in Tx : Running(s) => s = t
  /\ pc[t] # "idle"
  /\ Running(t) => was = Committed
  /\ kind[t] \in Saving \cup {"accept"} =>
       /\ pc[t] \in {"copy", "delete", "lock"} => locked[t] = {}
       /\ pc[t] = "lock" => \A g \in grants : g \in snap[t] <=> First(t, g)
       /\ pc[t] \in {"delete issues", "lock issues"} =>
            \A g \in grants : g \in locked[t] <=> First(t, g)
       /\ pc[t] = "lock issues" => \A g \in grants : g \in snap[t] <=> Second(t, g)
       /\ pc[t] = "insert" => \A g \in grants : g \in locked[t] <=> First(t, g) \/ Second(t, g)
  /\ kind[t] = "accept" /\ Running(t) /\ pc[t] # "copy" => list[t] = Copied(t)

SoloInv ==
  /\ \A t \in solo : Undisturbed(t)
  /\ ListsAreReplaced
  /\ AcceptanceKeepsRights

IInv == TypeInv /\ LockInv /\ SoloInv

\* Begin, by any transaction.
LEMMA SoloBegin ==
  ASSUME IInv, NEW t \in Tx, NEW k \in Kind, NEW x, NEW es, Begin(t, k, x, es)
  PROVE  SoloInv'
  <1>1. /\ UNCHANGED <<grants, locked>> /\ pc[t] = "idle"
        /\ pc'[t] = IF k = "accept" THEN "copy" ELSE "delete"
        /\ \A s \in Tx \ {t} : pc'[s] = pc[s]
        /\ kind'[t] = k
    BY DEF Begin, WithRequest, IInv, TypeInv
  <1>2. ASSUME NEW s \in solo'
        PROVE  s = t /\ (\A r \in Tx : Running(r)' => r = t) /\ was' = Committed
    BY <1>1 DEF Begin, Running, Committed
  <1>3. locked[t] = {}
    BY <1>1 DEF IInv, LockInv, Running
  <1>4. ASSUME NEW s \in solo' PROVE Undisturbed(s)'
    BY <1>1, <1>2, <1>3 DEF Undisturbed, Committed
  <1>5. \A s \in solo' : pc'[s] # "done"
    BY <1>1, <1>2
  <1>6. QED
    BY <1>4, <1>5 DEF SoloInv, ListsAreReplaced, AcceptanceKeepsRights

\* Steps that change neither grants nor what a transaction has asked for or read,
\* and end none.
LEMMA SoloKept ==
  ASSUME IInv, UNCHANGED <<grants, txVars, solo, was>>
  PROVE  SoloInv'
  <1>1. UNCHANGED <<grants, pc, kind, target, list, snap, locked, solo, was>>
    BY DEF txVars
  <1>2. \A t \in Tx : Running(t)' <=> Running(t)
    BY <1>1 DEF Running
  <1>3. \A t \in Tx : \A e : (InScope(t, e)' <=> InScope(t, e)) /\ (First(t, e)' <=> First(t, e))
                        /\ (Second(t, e)' <=> Second(t, e))
    BY <1>1 DEF InScope, First, Second
  <1>4. ASSUME NEW t \in solo PROVE Undisturbed(t)'
    <2>1. Committed' = Committed /\ Copied(t)' = Copied(t)
      BY <1>1 DEF Committed, Copied
    <2>2. t \in Tx /\ Undisturbed(t)
      BY DEF IInv, TypeInv, SoloInv
    <2>3. QED
      BY <1>1, <1>2, <1>3, <2>1, <2>2 DEF Undisturbed
  <1>5. ListsAreReplaced'
    BY <1>1, <1>3 DEF IInv, TypeInv, SoloInv, ListsAreReplaced
  <1>6. AcceptanceKeepsRights'
    BY <1>1 DEF IInv, SoloInv, AcceptanceKeepsRights
  <1>7. QED
    BY <1>1, <1>4, <1>5, <1>6 DEF SoloInv

\* A step of t leaves t alone among the undisturbed.
LEMMA SoloIsOne ==
  ASSUME IInv, NEW t \in Tx, Running(t), solo' = solo, NEW s \in solo'
  PROVE  s = t /\ Undisturbed(t) /\ was = Committed
  BY DEF IInv, SoloInv, Undisturbed

LEMMA SoloCopy ==
  ASSUME IInv, NEW t \in Tx, Copy(t)
  PROVE  SoloInv'
  <1>1. /\ UNCHANGED <<grants, kind, target, snap, locked, solo, was>>
        /\ pc[t] = "copy" /\ pc'[t] = "delete" /\ list'[t] = Copied(t)
        /\ \A s \in Tx \ {t} : pc'[s] = pc[s]
    BY DEF Copy, IInv, TypeInv, Copied
  <1>2. Running(t) /\ \A s \in Tx : Running(s)' => Running(s)
    BY <1>1 DEF Running
  <1>3. Committed' = Committed /\ Copied(t)' = Copied(t)
    BY <1>1 DEF Committed, Copied
  <1>4. ASSUME NEW s \in solo' PROVE Undisturbed(s)' /\ pc'[s] # "done"
    <2>1. s = t /\ Undisturbed(t) /\ was = Committed
      BY <1>1, <1>2, SoloIsOne
    <2>2. QED
      BY <1>1, <1>2, <1>3, <2>1 DEF Undisturbed
  <1>5. QED
    BY <1>4 DEF SoloInv, ListsAreReplaced, AcceptanceKeepsRights

LEMMA SoloDelete ==
  ASSUME IInv, NEW t \in Tx, Delete(t)
  PROVE  SoloInv'
  <1>1. /\ UNCHANGED <<grants, kind, target, list, locked, solo, was>>
        /\ \/ pc[t] = "delete" /\ pc'[t] = "lock"
           \/ pc[t] = "delete issues" /\ pc'[t] = "lock issues"
        /\ snap'[t] = {g \in grants : Doomed(t, g)}
        /\ \A s \in Tx \ {t} : pc'[s] = pc[s]
    BY DEF Delete, IInv, TypeInv
  <1>2. Running(t) /\ \A s \in Tx : Running(s)' => Running(s)
    BY <1>1 DEF Running
  <1>3. ASSUME kind[t] \in Saving \cup {"accept"}, NEW g \in grants
        PROVE  /\ pc[t] = "delete" => (Doomed(t, g) <=> First(t, g))
               /\ pc[t] = "delete issues" => (Doomed(t, g) <=> Second(t, g))
    <2>1. pc[t] = "delete issues" => kind[t] = "user and issues"
      BY DEF IInv, LockInv
    <2>2. QED
      BY <1>3, <2>1 DEF Doomed, First, Second, Saving
  <1>4. \A g : (First(t, g)' <=> First(t, g)) /\ (Second(t, g)' <=> Second(t, g))
    BY <1>1 DEF First, Second
  <1>5. Committed' = Committed /\ Copied(t)' = Copied(t)
    BY <1>1 DEF Committed, Copied
  <1>6. ASSUME NEW s \in solo' PROVE Undisturbed(s)' /\ pc'[s] # "done"
    <2>1. s = t /\ Undisturbed(t) /\ was = Committed
      BY <1>1, <1>2, SoloIsOne
    <2>2. QED
      BY <1>1, <1>2, <1>3, <1>4, <1>5, <2>1 DEF Undisturbed
  <1>7. QED
    BY <1>6 DEF SoloInv, ListsAreReplaced, AcceptanceKeepsRights

LEMMA SoloLock ==
  ASSUME IInv, NEW t \in Tx, Lock(t)
  PROVE  SoloInv'
  <1>1. /\ UNCHANGED <<grants, kind, target, list, solo, was>>
        /\ pc[t] \in {"lock", "lock issues"}
        /\ pc'[t] = IF pc[t] = "lock" /\ kind[t] = "user and issues" THEN "delete issues" ELSE "insert"
        /\ locked'[t] = locked[t] \cup (snap[t] \cap grants)
        /\ \A s \in Tx \ {t} : pc'[s] = pc[s]
    BY DEF Lock, IInv, TypeInv
  <1>2. Running(t) /\ \A s \in Tx : Running(s)' => Running(s)
    BY <1>1 DEF Running
  <1>3. pc[t] = "lock issues" => kind[t] = "user and issues"
    BY DEF IInv, LockInv
  <1>4. \A g : (First(t, g)' <=> First(t, g)) /\ (Second(t, g)' <=> Second(t, g))
    BY <1>1 DEF First, Second
  <1>5. ASSUME NEW s \in solo', kind[t] \in Saving \cup {"accept"}, NEW g \in grants
        PROVE  /\ pc[t] = "lock" => (g \in locked'[t] <=> First(t, g))
               /\ pc[t] = "lock issues" => (g \in locked'[t] <=> First(t, g) \/ Second(t, g))
    BY <1>1, <1>2, <1>5, SoloIsOne DEF Undisturbed
  <1>6. \A g : kind[t] # "user and issues" => ~Second(t, g)
    BY DEF Second
  <1>7. ASSUME NEW s \in solo' PROVE Undisturbed(s)' /\ pc'[s] # "done"
    <2>1. s = t /\ Undisturbed(t) /\ was = Committed
      BY <1>1, <1>2, SoloIsOne
    <2>2. kind[t] \in Saving \cup {"accept"} =>
            /\ pc'[t] = "delete issues" => \A g \in grants : g \in locked'[t] <=> First(t, g)
            /\ pc'[t] = "insert" => \A g \in grants : g \in locked'[t] <=> First(t, g) \/ Second(t, g)
      BY <1>1, <1>3, <1>5, <1>6
    <2>3. QED
      BY <1>1, <1>2, <1>4, <2>1, <2>2 DEF Undisturbed, Committed, Copied
  <1>8. QED
    BY <1>7 DEF SoloInv, ListsAreReplaced, AcceptanceKeepsRights

LEMMA SoloAbort ==
  ASSUME IInv, NEW t \in Tx, Abort(t)
  PROVE  SoloInv'
  <1>1. /\ UNCHANGED <<grants, solo>> /\ pc'[t] = "failed"
        /\ \A s \in Tx \ {t} : pc'[s] = pc[s]
        /\ Running(t)
    BY DEF Abort, IInv, TypeInv
  <1>2. \A s \in solo' : Undisturbed(s)' /\ pc'[s] # "done"
    BY <1>1, SoloIsOne DEF Undisturbed, Running
  <1>3. QED
    BY <1>2 DEF SoloInv, ListsAreReplaced, AcceptanceKeepsRights

\* COMMIT of a list: the part of the tables it is about is replaced by it.
LEMMA SoloSaves ==
  ASSUME IInv, NEW t \in Tx, Commit(t), Undisturbed(t), kind[t] \in Saving
  PROVE  Committed' = {e \in was : ~InScope(t, e)} \cup list[t]
  <1>1. /\ grants' = (grants \ locked[t]) \cup {Row(t, e) : e \in list[t]}
        /\ grants \subseteq Grant /\ list[t] \subseteq Entry
        /\ pc[t] = "insert" /\ was = Committed
    BY DEF Commit, Inserted, Saving, IInv, TypeInv, Undisturbed, Running
  <1>2. ASSUME NEW g \in grants PROVE g \in locked[t] <=> InScope(t, EntryOf(g))
    <2>1. g \in locked[t] <=> First(t, g) \/ Second(t, g)
      BY <1>1 DEF Undisturbed
    <2>2. /\ EntryOf(g) \in Entry
          /\ EntryOf(g).on = g.on /\ EntryOf(g).subject = g.subject
      BY <1>1, Grants
    <2>3. g.on \in Project \/ g.on \in Issue
      BY <2>2, Entries DEF ProjectEntry, IssueEntry
    <2>4. First(t, g) \/ Second(t, g) <=> InScope(t, EntryOf(g))
      BY <2>2, <2>3 DEF First, Second, InScope, Saving
    <2>5. QED
      BY <2>1, <2>4
  <1>3. ASSUME NEW e PROVE e \in Committed' <=> e \in {f \in was : ~InScope(t, f)} \cup list[t]
    <2>1. e \in Committed' <=> \E g \in grants' : e = EntryOf(g)
      BY DEF Committed, EntryOf
    <2>2. e \in was <=> \E g \in grants : e = EntryOf(g)
      BY <1>1 DEF Committed
    <2>3. e \in list[t] <=> \E g \in {Row(t, f) : f \in list[t]} : e = EntryOf(g)
      BY <1>1, Rows
    <2>4. (\E g \in grants \ locked[t] : e = EntryOf(g)) <=> e \in was /\ ~InScope(t, e)
      BY <1>2, <2>2
    <2>5. QED
      BY <1>1, <2>1, <2>3, <2>4
  <1>4. QED
    BY <1>3

\* COMMIT of an acceptance: the grants of the email are now the user's.
LEMMA SoloAccepts ==
  ASSUME IInv, NEW t \in Tx, Commit(t), Undisturbed(t), kind[t] = "accept"
  PROVE  /\ \A p \in Project, m \in ProjectPermission :
              [on |-> p, subject |-> ByEmail(target[t]), permission |-> m] \in was
                <=> [on |-> p, subject |-> ById(target[t]), permission |-> m] \in Committed'
         /\ \A g \in grants' : g.subject # ByEmail(target[t])
  <1>1. /\ grants' = (grants \ locked[t]) \cup {Row(t, e) : e \in list[t]}
        /\ grants \subseteq Grant /\ list[t] \subseteq Entry
        /\ pc[t] = "insert" /\ was = Committed /\ list[t] = Copied(t)
        /\ target[t] \in User /\ target[t] \notin member
    BY DEF Commit, Inserted, IInv, TypeInv, Undisturbed, Running
  <1>2. \A g \in grants : g \in locked[t] <=> g.subject = ByEmail(target[t])
    BY <1>1 DEF Undisturbed, First, Second
  <1>3. \A g \in grants : g.subject # ById(target[t])
    BY <1>1 DEF IInv, TypeInv
  <1>4. \A e \in list[t] : /\ Row(t, e).subject = ById(target[t])
                          /\ EntryOf(Row(t, e)) = e
    BY <1>1, Rows DEF Copied, Row
  <1>5. \A g \in grants' : g.subject # ByEmail(target[t])
    BY <1>1, <1>2, <1>4, Subjects
  <1>6. ASSUME NEW p \in Project, NEW m \in ProjectPermission
        PROVE  [on |-> p, subject |-> ByEmail(target[t]), permission |-> m] \in was
                 <=> [on |-> p, subject |-> ById(target[t]), permission |-> m] \in Committed'
    <2> DEFINE old == [on |-> p, subject |-> ByEmail(target[t]), permission |-> m]
               new == [on |-> p, subject |-> ById(target[t]), permission |-> m]
    <2>1. old \in was <=> \E g \in grants : EntryOf(g) = old
      BY <1>1 DEF Committed
    <2>2. (\E g \in grants : EntryOf(g) = old)
            <=> \E g \in grants : g.subject = ByEmail(target[t]) /\ g.on = p /\ g.permission = m
      BY DEF EntryOf
    <2>3. (\E g \in grants : g.subject = ByEmail(target[t]) /\ g.on = p /\ g.permission = m)
            <=> new \in list[t]
      BY <1>1 DEF Copied
    <2>4. new \in Committed' <=> \E g \in grants' : EntryOf(g) = new
      BY DEF Committed, EntryOf
    <2>5. \A g \in grants : EntryOf(g) # new
      BY <1>3 DEF EntryOf
    <2>6. (\E g \in grants' : EntryOf(g) = new) <=> \E e \in list[t] : EntryOf(Row(t, e)) = new
      BY <1>1, <2>5
    <2>7. (\E e \in list[t] : EntryOf(Row(t, e)) = new) <=> new \in list[t]
      BY <1>4
    <2>8. QED
      BY <2>1, <2>2, <2>3, <2>4, <2>6, <2>7
  <1>7. QED
    BY <1>5, <1>6

LEMMA SoloCommit ==
  ASSUME IInv, NEW t \in Tx, Commit(t)
  PROVE  SoloInv'
  <1>1. /\ UNCHANGED <<kind, target, list, solo, was>> /\ pc'[t] = "done"
        /\ \A s \in Tx \ {t} : pc'[s] = pc[s]
        /\ Running(t)
    BY DEF Commit, IInv, TypeInv, Running
  <1>2. ASSUME NEW s \in solo' PROVE Undisturbed(s)'
    <2>1. s = t /\ Undisturbed(t)
      BY <1>1, SoloIsOne
    <2>2. \A r \in Tx : ~Running(r)'
      BY <1>1, <2>1 DEF Undisturbed, Running
    <2>3. QED
      BY <1>1, <2>1, <2>2 DEF Undisturbed
  <1>3. ASSUME t \in solo PROVE Undisturbed(t)
    BY <1>3 DEF IInv, SoloInv
  <1>4. solo' \subseteq {t}
    BY <1>1, SoloIsOne
  <1>5. ListsAreReplaced'
    <2>1. ASSUME t \in solo, kind[t] \in Saving
          PROVE  Committed' = {e \in was : ~InScope(t, e)} \cup list[t]
      BY <1>3, <2>1, SoloSaves
    <2>2. {e \in was : ~InScope(t, e)}' = {e \in was : ~InScope(t, e)}
      BY <1>1 DEF InScope
    <2>3. QED
      BY <1>1, <1>4, <2>1, <2>2 DEF ListsAreReplaced, Saving, Committed
  <1>6. AcceptanceKeepsRights'
    <2>1. ASSUME t \in solo, kind[t] = "accept"
          PROVE  /\ \A p \in Project, m \in ProjectPermission :
                      [on |-> p, subject |-> ByEmail(target[t]), permission |-> m] \in was
                        <=> [on |-> p, subject |-> ById(target[t]), permission |-> m] \in Committed'
                 /\ \A g \in grants' : g.subject # ByEmail(target[t])
      BY <1>3, <2>1, SoloAccepts
    <2>2. QED
      BY <1>1, <1>4, <2>1 DEF AcceptanceKeepsRights, Committed
  <1>7. QED
    BY <1>2, <1>5, <1>6 DEF SoloInv

LEMMA IInvInit == Init => IInv
  <1>1. Init => SoloInv
    BY DEF Init, SoloInv, ListsAreReplaced, AcceptanceKeepsRights
  <1>2. QED
    BY <1>1, TypeInit, LockInit DEF IInv

LEMMA IInvStep == IInv /\ [Next]_vars => IInv'
  <1> SUFFICES ASSUME IInv, [Next]_vars PROVE IInv'
    OBVIOUS
  <1>1. TypeInv'
    BY TypeStep DEF IInv, LockInv
  <1>2. LockInv'
    BY LockStep DEF IInv
  <1>3. SoloInv'
    <2>1. CASE UNCHANGED vars
      BY <2>1, SoloKept DEF vars
    <2>2. ASSUME NEW u \in User, UpdateUser(u) PROVE SoloInv'
      BY <2>2, SoloKept DEF UpdateUser
    <2>3. QED
      BY <2>1, <2>2, SoloBegin, SoloCopy, SoloDelete, SoloLock, SoloCommit, SoloAbort DEF Next
  <1>4. QED
    BY <1>1, <1>2, <1>3 DEF IInv

LEMMA IInvHolds == Spec => []IInv
  BY IInvInit, IInvStep, PTL DEF Spec

-----------------------------------------------------------------------------
\* A list of permissions that was saved while nothing else was is what is in
\* force, whatever the users, projects, issues and earlier lists.
THEOREM ListsReplaced == Spec => []ListsAreReplaced
  <1>1. IInv => ListsAreReplaced
    BY DEF IInv, SoloInv
  <1>2. QED
    BY <1>1, IInvHolds, PTL

\* Acceptance of an invitation that nothing overlaps neither loses, weakens nor
\* adds a right, and leaves none under the email.
THEOREM AcceptanceKeeps == Spec => []AcceptanceKeepsRights
  <1>1. IInv => AcceptanceKeepsRights
    BY DEF IInv, SoloInv
  <1>2. QED
    BY <1>1, IInvHolds, PTL

\* The dozen access queries agree with what the client is told, in every table.
THEOREM Enforced == Spec => []CapabilitiesAreEnforced
  <1>1. CapabilitiesAreEnforced
    <2>1. ASSUME NEW u \in active, NEW i \in Issue
          PROVE  LET c == Capabilities(u, i)
                 IN  /\ c.view <=> i \in Listed(u)
                     /\ c.view <=> Fetched(u, i)
                     /\ c.view <=> Downloads(u, i)
                     /\ c.comment <=> Comments(u, i)
                     /\ c.edit <=> Edits(u, i)
                     /\ c.manage <=> Manages(u, i)
      BY DEF Capabilities, Listed, Fetched, Downloads, Comments, Edits, Manages, ReadPermission
    <2>2. ASSUME NEW u \in active, NEW i \in Issue
          PROVE  LET c == Capabilities(u, i)
                 IN  /\ c.manage => c.edit
                     /\ c.edit => c.comment
                     /\ c.comment => c.view
                     /\ i \in Listed(u) => ProjectOf[i] \in ListedProjects(u)
      BY ConstantsAssumption
         DEF Capabilities, Listed, ListedProjects, HasProject, HasIssue, ReadPermission,
             CommentPermission, EditPermission
    <2>3. QED
      BY <2>1, <2>2 DEF CapabilitiesAreEnforced
  <1>2. QED
    BY <1>1, PTL

\* Rows, members and transactions have their types, and each row is locked by
\* one transaction at most.
THEOREM Typed == Spec => []TypeOK
  <1>1. IInv => TypeOK
    BY DEF IInv, TypeInv, LockInv, TypeOK, Steps
  <1>2. QED
    BY <1>1, IInvHolds, PTL

\* What an overview of an issue shows of its users.
LEMMA IssueOverviewShows ==
  ASSUME TypeInv, NEW i \in Issue, NEW es \in IssueOverviews(i), NEW v \in active
  PROVE  /\ HasIssue(v, i, ReadPermission) <=> \E e \in es : e.subject = ById(v)
         /\ \A e, f \in es : e.subject = f.subject => e = f
         /\ {e \in es : e.subject = ById(v)} \subseteq UserOverview(v)
  <1> DEFINE held == {u \in active : HasIssue(u, i, ReadPermission)}
  <1>1. PICK f \in [held -> {g \in grants : g.on = i}] :
          (\A u \in held : f[u].subject = ById(u)) /\ es = {EntryOf(f[u]) : u \in held}
    BY DEF IssueOverviews
  <1>2. \A u \in held : /\ f[u] \in grants /\ EntryOf(f[u]).subject = ById(u)
    BY <1>1 DEF EntryOf
  <1>3. \A u, w : ById(u) = ById(w) => u = w
    BY Subjects
  <1>4. ASSUME NEW e \in es PROVE \E u \in held : e = EntryOf(f[u]) /\ e.subject = ById(u)
    BY <1>1, <1>2
  <1>5. ASSUME NEW e \in es, e.subject = ById(v) PROVE v \in held /\ e = EntryOf(f[v])
    BY <1>3, <1>4, <1>5
  <1>6. HasIssue(v, i, ReadPermission) <=> v \in held
    OBVIOUS
  <1>7. v \in held => EntryOf(f[v]) \in es /\ EntryOf(f[v]).subject = ById(v)
    BY <1>1, <1>2
  <1>8. HasIssue(v, i, ReadPermission) <=> \E e \in es : e.subject = ById(v)
    BY <1>5, <1>6, <1>7
  <1>9. ASSUME NEW d \in es, NEW e \in es, d.subject = e.subject PROVE d = e
    BY <1>3, <1>4, <1>9
  <1>10. ASSUME NEW e \in es, e.subject = ById(v) PROVE e \in UserOverview(v)
    <2>1. v \in held /\ e = EntryOf(f[v]) /\ f[v] \in grants /\ f[v].subject = ById(v)
      BY <1>1, <1>2, <1>5, <1>10
    <2>2. QED
      BY <2>1 DEF UserOverview
  <1>11. QED
    BY <1>8, <1>9, <1>10

\* An administrator who edits a list sees everybody whom the access queries let
\* in, or can add him, in every table.
THEOREM Shown == Spec => []NobodyIsHidden
  <1>1. ASSUME TypeInv, NEW u \in active, NEW p \in Project
        PROVE  LET shown == {e.subject : e \in ProjectOverview(p)}
               IN  /\ HasProject(u, p, ProjectPermission) => shown \cap {ById(u), ByEmail(u)} # {}
                   /\ u \in AvailableUsers(p) <=> ById(u) \notin shown
    <2> DEFINE shown == {e.subject : e \in ProjectOverview(p)}
    <2> DEFINE rows == {h \in grants : h.on = p /\ (\/ h.subject[1] = "email"
                                                    \/ \E v \in active : h.subject = ById(v))}
    <2>0. ProjectOverview(p) = {EntryOf(g) : g \in rows} /\ \A g : EntryOf(g).subject = g.subject
      BY DEF ProjectOverview, EntryOf
    <2>1. \A s : s \in shown <=> \E g \in rows : g.subject = s
      BY <2>0
    <2>2. ById(u)[1] = "user" /\ ByEmail(u)[1] = "email"
      BY Subjects
    <2>3. HasProject(u, p, ProjectPermission) => ById(u) \in shown \/ ByEmail(u) \in shown
      BY <2>1, <2>2 DEF HasProject
    <2>4. u \in AvailableUsers(p) <=> ById(u) \notin shown
      BY <2>1 DEF AvailableUsers
    <2>5. QED
      BY <2>3, <2>4
  <1>2. IInv => NobodyIsHidden
    BY <1>1, IssueOverviewShows DEF IInv, NobodyIsHidden
  <1>3. QED
    BY <1>2, IInvHolds, PTL
=============================================================================
