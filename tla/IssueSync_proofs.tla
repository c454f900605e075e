-------------------------- MODULE IssueSync_proofs --------------------------
(***************************************************************************)
(* Theorems about IssueSync for every set of rows and activities and every *)
(* value of the bounds, whatever activities overlap.                       *)
(***************************************************************************)
EXTENDS IssueSync, FiniteSetTheorems, TLAPS

-----------------------------------------------------------------------------
(***************************************************************************)
(* The mapping.  What keeps it stable is what each activity knows of its   *)
(* row between two steps: a push that read no number is the only one on    *)
(* its row, unless the row is doubled, and nobody else numbers that row;   *)
(* the row of a create does not exist for anybody else; a reference is     *)
(* stored only for a number that the row already has.                      *)
(***************************************************************************)
\* A pull names a GitLab issue.
PullInv == \A p \in Proc : op[p].kind = "pull" => op[p].iid # 0

\* A push that has not found or stored a number.
Unlinked(p) == op[p].kind = "push" /\ (op[p].at = "link" \/ op[p].iid = 0)

OpInv(p) ==
  /\ op[p].kind = "push" => op[p].issue \in Issue /\ Exists(op[p].issue)
  /\ Unlinked(p) => iid[op[p].issue] = 0 \/ op[p].issue \in doubled
  /\ op[p].kind = "update" => op[p].issue \in Issue /\ Exists(op[p].issue)
  /\ op[p].kind = "create" => op[p].issue \in ApiIssue /\ ~Exists(op[p].issue)
  /\ op[p].kind = "pull" /\ op[p].at # "ref" => op[p].issue = NoIssue
  /\ op[p].at = "local" => op[p].kind \in {"create", "update"}
  /\ op[p].at = "link" => op[p].kind = "push" /\ op[p].iid # 0
  /\ op[p].at = "insert" => op[p].kind = "create" /\ op[p].iid # 0
  /\ op[p].at = "ref" => /\ op[p].kind \in {"pull", "push"}
                         /\ op[p].issue \in Issue /\ Exists(op[p].issue)
                         /\ op[p].iid # 0
                         /\ iid[op[p].issue] = op[p].iid \/ op[p].issue \in doubled

\* Two pushes without a number are about two rows, or about a doubled one; a
\* create is alone on its row.
Distinct(p, q) ==
  p # q => /\ Unlinked(p) /\ Unlinked(q) /\ op[p].issue = op[q].issue
                => op[p].issue \in doubled
           /\ op[p].kind = "create" => op[p].issue # op[q].issue

\* The row that a pull has inserted for GitLab issue r has the number r.
RowInv(r) == /\ ~Exists(r) => iid[r] = 0
             /\ ref[r] \in {0, iid[r]} \/ r \in doubled
             /\ r \in doubled => r \in ApiIssue
             /\ r \in Iid /\ Exists(r) => iid[r] = r

MapInv ==
  /\ PullInv
  /\ \A p \in Proc : OpInv(p)
  /\ \A p, q \in Proc : Distinct(p, q)
  /\ \A r \in Issue : RowInv(r)

-----------------------------------------------------------------------------
(***************************************************************************)
(* Types.                                                                  *)
(***************************************************************************)

\* What has not begun or is absent has a type too.
LEMMA EmptyValues ==
  /\ NoText \in Text
  /\ Idle.kind = "none" /\ Idle.at = "idle" /\ Idle.issue = NoIssue /\ Idle.iid = 0
  /\ Idle \notin Op
  BY DEF NoText, Text, Idle, Op, Kind

\* An edited text is a text.
LEMMA EditedType ==
  ASSUME edits \in Nat, NEW t \in Text
  PROVE  Edited(t) \subseteq Text
  BY DEF Edited, Text

\* An activity that goes on stays well typed.
LEMMA ContinueType ==
  ASSUME TypeOK, NEW p \in Proc, op[p] # Idle,
         NEW at \in {"load", "remote", "local", "store", "link", "insert", "ref"},
         Continue(p, at)
  PROVE  op' \in [Proc -> Op \cup {Idle}]
  <1>1. op[p] \in Op
    BY DEF TypeOK
  <1>2. [op[p] EXCEPT !.at = at] \in Op
    BY <1>1 DEF Op
  <1>3. QED
    BY <1>2 DEF TypeOK, Continue

\* Ending an activity keeps the types of all.
LEMMA FinishType ==
  ASSUME TypeOK, NEW p \in Proc, Finish(p)
  PROVE  op' \in [Proc -> Op \cup {Idle}] /\ crossed' \subseteq Proc
  BY DEF TypeOK, Finish

\* So does calling a row local or idle.
LEMMA WritesType ==
  ASSUME TypeOK, NEW p \in Proc, NEW r \in Issue, NEW state \in {"local", "idle"},
         Writes(p, r, state)
  PROVE  /\ sync_state' \in [Issue -> {"absent", "local", "idle"}]
         /\ blurred' \subseteq Issue
  <1>1. sync_state' \in [Issue -> {"absent", "local", "idle"}]
    BY DEF TypeOK, Writes
  <1>2. blurred' \subseteq Issue
    BY DEF TypeOK, Writes
  <1>3. QED
    BY <1>1, <1>2

\* Beginning one does, if what it is about is well typed.
LEMMA BeginType ==
  ASSUME TypeOK, NEW p \in Proc, NEW kind \in Kind, NEW r \in Issue \cup {NoIssue},
         NEW i \in Iid \cup {0}, NEW t \in Text, NEW event \in BOOLEAN,
         Begin(p, kind, r, i, t, event)
  PROVE  op' \in [Proc -> Op \cup {Idle}] /\ crossed' \subseteq Proc
  <1>1. [kind |-> kind, at |-> "load", issue |-> r, iid |-> i, text |-> t,
         event |-> event] \in Op
    BY DEF Op
  <1>2. QED
    BY <1>1 DEF TypeOK, Begin

\* What GitLab stores is a text, and its webhook a job.
LEMMA GitlabWritesType ==
  ASSUME TypeOK, NEW i \in Iid, NEW t \in Text, GitlabWrites(i, t)
  PROVE  gitlab' \in [Iid -> Text] /\ pull_due' \in [Iid -> BOOLEAN]
  <1>1. gitlab' \in [Iid -> Text]
    BY DEF TypeOK, GitlabWrites
  <1>2. pull_due' \in [Iid -> BOOLEAN]
    BY DEF TypeOK, GitlabWrites
  <1>3. QED
    BY <1>1, <1>2

\* The users and the administrator keep every type.
LEMMA EnvironmentType ==
  ASSUME TypeOK,
         \/ Toggle
         \/ \E i \in Iid : GitlabEdit(i) \/ RequestPull(i) \/ LosePull(i)
         \/ \E r \in Issue : RequestPush(r)
  PROVE  TypeOK'
  <1>1. CASE Toggle
    BY <1>1 DEF TypeOK, Toggle, rowVars, queueVars, history
  <1>2. ASSUME NEW i \in Iid, GitlabEdit(i) PROVE TypeOK'
    <2>1. PICK t \in Text : GitlabWrites(i, t)
      <3>1. [body |-> edits + 1, open |-> TRUE] \in Text
        BY DEF TypeOK, Text
      <3>2. gitlab[i] \in Text
        BY DEF TypeOK
      <3>3. Edited(gitlab[i]) \subseteq Text
        BY <3>2, EditedType DEF TypeOK
      <3>4. QED
        BY <1>2, <3>1, <3>3 DEF GitlabEdit
    <2>2. gitlab' \in [Iid -> Text] /\ pull_due' \in [Iid -> BOOLEAN]
      BY <2>1, GitlabWritesType
    <2>3. edits' \in Nat
      BY <1>2 DEF GitlabEdit, TypeOK
    <2>4. QED
      BY <1>2, <2>2, <2>3 DEF TypeOK, GitlabEdit, rowVars, history
  <1>3. ASSUME NEW i \in Iid, RequestPull(i) PROVE TypeOK'
    BY <1>3 DEF TypeOK, RequestPull, rowVars, history
  <1>4. ASSUME NEW i \in Iid, LosePull(i) PROVE TypeOK'
    BY <1>4 DEF TypeOK, LosePull, rowVars, history
  <1>5. ASSUME NEW r \in Issue, RequestPush(r) PROVE TypeOK'
    BY <1>5 DEF TypeOK, RequestPush, rowVars, history
  <1>6. QED
    BY <1>1, <1>2, <1>3, <1>4, <1>5

\* So does the beginning of an activity.
LEMMA BeginningType ==
  ASSUME TypeOK, NEW p \in Proc,
         \/ \E i \in Iid : BeginPull(p, i)
         \/ \E r \in Issue : BeginPush(p, r) \/ BeginUpdate(p, r)
         \/ \E r \in ApiIssue : BeginCreate(p, r)
  PROVE  TypeOK'
  <1>1. ASSUME NEW i \in Iid, BeginPull(p, i) PROVE TypeOK'
    <2>1. op' \in [Proc -> Op \cup {Idle}] /\ crossed' \subseteq Proc
      BY <1>1, BeginType, EmptyValues DEF BeginPull, Kind
    <2>2. QED
      BY <1>1, <2>1 DEF TypeOK, BeginPull, rowVars
  <1>2. ASSUME NEW r \in Issue, BeginPush(p, r) PROVE TypeOK'
    <2>1. text[r] \in Text /\ iid[r] \in Iid \cup {0}
      BY DEF TypeOK
    <2>2. op' \in [Proc -> Op \cup {Idle}] /\ crossed' \subseteq Proc
      BY <1>2, <2>1, BeginType DEF BeginPush, Kind
    <2>3. doubled' \subseteq Issue
      BY <1>2 DEF TypeOK, BeginPush
    <2>4. QED
      BY <1>2, <2>2, <2>3 DEF TypeOK, BeginPush, rowVars
  <1>3. ASSUME NEW r \in Issue, BeginUpdate(p, r) PROVE TypeOK'
    <2>1. text[r] \in Text /\ iid[r] \in Iid \cup {0}
      BY DEF TypeOK
    <2>2. PICK t \in Edited(text[r]) :
            Begin(p, "update", r, iid[r], t, t.open # text[r].open)
      BY <1>3 DEF BeginUpdate
    <2>3. t \in Text
      BY <2>1, <2>2, EditedType DEF TypeOK
    <2>4. (t.open # text[r].open) \in BOOLEAN
      OBVIOUS
    <2>5. op' \in [Proc -> Op \cup {Idle}] /\ crossed' \subseteq Proc
      BY <2>1, <2>2, <2>3, <2>4, BeginType DEF Kind
    <2>6. edits' \in Nat
      BY <1>3 DEF BeginUpdate, TypeOK
    <2>7. QED
      BY <1>3, <2>5, <2>6 DEF TypeOK, BeginUpdate, rowVars, queueVars
  <1>4. ASSUME NEW r \in ApiIssue, BeginCreate(p, r) PROVE TypeOK'
    <2>1. [body |-> edits + 1, open |-> TRUE] \in Text
      BY DEF TypeOK, Text
    <2>2. op' \in [Proc -> Op \cup {Idle}] /\ crossed' \subseteq Proc
      BY <1>4, <2>1, BeginType DEF BeginCreate, Kind, Issue
    <2>3. edits' \in Nat
      BY <1>4 DEF BeginCreate, TypeOK
    <2>4. QED
      BY <1>4, <2>2, <2>3 DEF TypeOK, BeginCreate, rowVars, queueVars
  <1>5. QED
    BY <1>1, <1>2, <1>3, <1>4

\* Requests to GitLab keep every type.
LEMMA RequestType ==
  ASSUME TypeOK, MapInv, NEW p \in Proc, Fetch(p) \/ Put(p) \/ Post(p)
  PROVE  TypeOK'
  <1>1. op[p] # Idle
    BY EmptyValues DEF Fetch, Put, Post, At
  <1>2. op[p] \in Op
    BY <1>1 DEF TypeOK
  <1>3. CASE Fetch(p)
    <2>1. op[p].iid \in Iid
      BY <1>2, <1>3 DEF Fetch, At, MapInv, PullInv, Op
    <2>2. gitlab[op[p].iid] \in Text
      BY <2>1 DEF TypeOK
    <2>3. [op[p] EXCEPT !.at = "store", !.text = gitlab[op[p].iid]] \in Op
      BY <1>2, <2>2 DEF Op
    <2>4. op' \in [Proc -> Op \cup {Idle}]
      BY <1>3, <2>3 DEF Fetch, TypeOK
    <2>5. QED
      BY <1>3, <2>4 DEF TypeOK, Fetch, rowVars, history
  <1>4. CASE Put(p)
    <2>1. op[p].iid \in Iid /\ op[p].text \in Text
      BY <1>2, <1>4 DEF Put, Op
    <2>2. gitlab[op[p].iid] \in Text
      BY <2>1 DEF TypeOK
    <2>3. [op[p].text EXCEPT !.open = gitlab[op[p].iid].open] \in Text
      BY <2>1, <2>2 DEF Text
    <2>4. PICK t \in Text : /\ GitlabWrites(op[p].iid, t)
                           /\ op' = [op EXCEPT ![p].at = "store", ![p].text = t]
      BY <1>4, <2>1, <2>3 DEF Put
    <2>5. [op[p] EXCEPT !.at = "store", !.text = t] \in Op
      BY <1>2, <2>4 DEF Op
    <2>6. op' \in [Proc -> Op \cup {Idle}]
      BY <2>4, <2>5 DEF TypeOK
    <2>7. gitlab' \in [Iid -> Text] /\ pull_due' \in [Iid -> BOOLEAN]
      BY <2>1, <2>4, GitlabWritesType
    <2>8. QED
      BY <1>4, <2>6, <2>7 DEF TypeOK, Put, rowVars, history
  <1>5. CASE Post(p)
    <2>1. [op[p].text EXCEPT !.open = TRUE] \in Text
      BY <1>2 DEF Op, Text
    <2>2. PICK i \in Iid :
            /\ GitlabWrites(i, [op[p].text EXCEPT !.open = TRUE])
            /\ op' = [op EXCEPT ![p].iid = i,
                        ![p].at = IF op[p].kind = "push" THEN "link" ELSE "insert"]
      BY <1>5 DEF Post
    <2>3. [op[p] EXCEPT !.iid = i,
             !.at = IF op[p].kind = "push" THEN "link" ELSE "insert"] \in Op
      BY <1>2 DEF Op
    <2>4. op' \in [Proc -> Op \cup {Idle}]
      BY <2>2, <2>3 DEF TypeOK
    <2>5. gitlab' \in [Iid -> Text] /\ pull_due' \in [Iid -> BOOLEAN]
      BY <2>1, <2>2, GitlabWritesType
    <2>6. maker' \in [Iid -> Issue \cup {NoIssue}]
      BY <1>2, <1>5 DEF Post, TypeOK, Op
    <2>7. QED
      BY <1>5, <2>4, <2>5, <2>6 DEF TypeOK, Post, rowVars
  <1>6. QED
    BY <1>3, <1>4, <1>5

\* So do the writes of rows and references.
LEMMA WriteType ==
  ASSUME TypeOK, MapInv, NEW p \in Proc,
         \/ StorePull(p) \/ StorePush(p) \/ Link(p) \/ StoreRef(p)
         \/ StoreUpdate(p) \/ Insert(p) \/ LocalWrite(p)
  PROVE  TypeOK'
  <1>1. op[p] # Idle
    BY EmptyValues DEF StorePull, StorePush, Link, StoreRef, StoreUpdate, Insert, LocalWrite, At
  <1>2. op[p] \in Op /\ OpInv(p)
    BY <1>1 DEF TypeOK, MapInv
  <1>3. op[p].iid \in Iid \cup {0} /\ op[p].text \in Text
    BY <1>2 DEF Op
  <1>4. CASE StorePull(p)
    <2>1. PICK r \in Issue :
            /\ iid' = [iid EXCEPT ![r] = op[p].iid]
            /\ text' = [text EXCEPT ![r] = op[p].text]
            /\ Writes(p, r, "idle")
            /\ op' = [op EXCEPT ![p].at = "ref", ![p].issue = r]
      BY <1>4 DEF StorePull
    <2>2. [op[p] EXCEPT !.at = "ref", !.issue = r] \in Op
      BY <1>2 DEF Op
    <2>3. op' \in [Proc -> Op \cup {Idle}]
      BY <2>1, <2>2 DEF TypeOK
    <2>4. QED
      BY <1>3, <1>4, <2>1, <2>3, WritesType DEF TypeOK, StorePull, queueVars
  <1>5. \/ StorePush(p) \/ Link(p) \/ StoreUpdate(p) \/ Insert(p) \/ LocalWrite(p)
          => op[p].issue \in Issue
    BY <1>2 DEF StorePush, Link, StoreUpdate, Insert, LocalWrite, At, OpInv, Issue
  <1>6. CASE StorePush(p)
    BY <1>5, <1>6, FinishType, WritesType DEF TypeOK, StorePush, queueVars
  <1>7. CASE Link(p)
    <2>1. op' \in [Proc -> Op \cup {Idle}]
      BY <1>1, <1>7, ContinueType DEF Link
    <2>2. QED
      BY <1>3, <1>5, <1>7, <2>1, WritesType DEF TypeOK, Link, queueVars
  <1>8. CASE StoreRef(p)
    BY <1>3, <1>8, FinishType DEF TypeOK, StoreRef, queueVars
  <1>9. CASE StoreUpdate(p)
    BY <1>3, <1>5, <1>9, FinishType, WritesType DEF TypeOK, StoreUpdate, queueVars
  <1>10. CASE Insert(p)
    BY <1>3, <1>5, <1>10, FinishType, WritesType DEF TypeOK, Insert, queueVars
  <1>11. CASE LocalWrite(p)
    BY <1>3, <1>5, <1>11, FinishType, WritesType DEF TypeOK, LocalWrite, queueVars
  <1>12. QED
    BY <1>4, <1>6, <1>7, <1>8, <1>9, <1>10, <1>11

\* And the steps that only go on or give up.
LEMMA MoveType ==
  ASSUME TypeOK, NEW p \in Proc,
         GoRemote(p) \/ GoLocal(p) \/ Skip(p) \/ Fail(p) \/ Reject(p)
  PROVE  TypeOK'
  <1>1. CASE GoRemote(p) \/ GoLocal(p)
    <2>1. op[p] # Idle
      BY <1>1, EmptyValues DEF GoRemote, GoLocal, At
    <2>2. op' \in [Proc -> Op \cup {Idle}]
      BY <1>1, <2>1, ContinueType DEF GoRemote, GoLocal
    <2>3. QED
      BY <1>1, <2>2 DEF TypeOK, GoRemote, GoLocal, rowVars, queueVars, history
  <1>2. CASE Skip(p)
    <2>1. missed' \in [Iid -> BOOLEAN]
      BY <1>2 DEF Skip, TypeOK
    <2>2. QED
      BY <1>2, <2>1, FinishType DEF TypeOK, Skip, rowVars
  <1>3. ASSUME Abort(p), failures' \in Nat PROVE TypeOK'
    <2>1. pull_due' \in [Iid -> BOOLEAN]
      BY <1>3 DEF Abort, TypeOK
    <2>2. push_due' \in [Issue -> BOOLEAN]
      BY <1>3 DEF Abort, TypeOK
    <2>3. op' \in [Proc -> Op \cup {Idle}] /\ crossed' \subseteq Proc
      BY <1>3, FinishType DEF Abort
    <2>4. QED
      BY <1>3, <2>1, <2>2, <2>3 DEF TypeOK, Abort, rowVars
  <1>4. CASE Fail(p)
    BY <1>3, <1>4 DEF Fail, TypeOK
  <1>5. CASE Reject(p)
    BY <1>3, <1>5 DEF Reject, TypeOK
  <1>6. QED
    BY <1>1, <1>2, <1>4, <1>5

\* Every step keeps every type.
LEMMA TypeStep == TypeOK /\ MapInv /\ [Next]_vars => TypeOK'
  <1> SUFFICES ASSUME TypeOK, MapInv, [Next]_vars PROVE TypeOK'
    OBVIOUS
  <1>1. CASE UNCHANGED vars
    BY <1>1 DEF TypeOK, vars, rowVars, queueVars, history
  <1>2. QED
    BY <1>1, EnvironmentType, BeginningType, RequestType, WriteType, MoveType
       DEF Next, Work

-----------------------------------------------------------------------------
(***************************************************************************)
(* The mapping, step by step.                                              *)
(***************************************************************************)
\* What a step may do to the numbers that rows have.
KeepsNumbers ==
  \A r \in Issue : iid[r] # 0 => iid'[r] # 0 /\ (r \in doubled \/ iid'[r] = iid[r])

\* Without rows and activities there is nothing to disagree about.
LEMMA MapInit == Init => MapInv
  BY EmptyValues DEF Init, MapInv, PullInv, OpInv, Unlinked, Distinct, RowInv, Exists

\* GitLab issues have numbers, and no row of the API has such an id.
LEMMA IidFacts == 0 \notin Iid /\ ApiIssue \cap Iid = {} /\ NoIssue \notin Issue
  BY ConstantsAssumption DEF Iid

\* Steps that change no row: only activity p, which goes on or ends, matters.
LEMMA MapMove ==
  ASSUME TypeOK, MapInv, NEW p \in Proc,
         UNCHANGED <<iid, sync_state, ref, doubled>>,
         \A q \in Proc \ {p} : op'[q] = op[q],
         \/ op'[p] = Idle
         \/ /\ op[p] # Idle /\ op[p].at \in {"load", "remote"}
            /\ op'[p].kind = op[p].kind /\ op'[p].issue = op[p].issue
            /\ \/ op'[p].iid = op[p].iid /\ op'[p].at \in {"remote", "store"}
               \/ /\ op[p].kind \in {"create", "update"}
                  /\ op'[p].iid = op[p].iid /\ op'[p].at = "local"
               \/ /\ op[p].kind = "push" /\ op[p].iid = 0
                  /\ op'[p].iid # 0 /\ op'[p].at = "link"
               \/ /\ op[p].kind = "create"
                  /\ op'[p].iid # 0 /\ op'[p].at = "insert"
  PROVE  MapInv'
  <1>1. PullInv'
    BY EmptyValues DEF MapInv, PullInv
  <1>2. Unlinked(p)' => Unlinked(p) /\ op'[p].issue = op[p].issue
    BY EmptyValues DEF Unlinked
  <1>3. ASSUME NEW q \in Proc PROVE OpInv(q)'
    <2>1. CASE q = p
      BY <1>2, <2>1, EmptyValues DEF MapInv, OpInv, Exists
    <2>2. CASE q # p
      <3>1. OpInv(q) /\ op'[q] = op[q]
        BY <2>2 DEF MapInv
      <3>2. QED
        BY <3>1 DEF OpInv, Unlinked, Exists
    <2>3. QED
      BY <2>1, <2>2
  <1>4. ASSUME NEW q \in Proc, NEW s \in Proc PROVE Distinct(q, s)'
    <2>1. op'[p] = Idle => op'[p].issue = NoIssue /\ op'[p].kind = "none"
      BY EmptyValues
    <2>2. \A t \in Proc : op[t].kind = "create" => op[t].issue # NoIssue
      BY IidFacts DEF MapInv, OpInv, Issue
    <2>3. \A t \in Proc : Unlinked(t)' => Unlinked(t) /\ op'[t].issue = op[t].issue
      BY <1>2 DEF Unlinked
    <2>4. Distinct(q, s)
      BY DEF MapInv
    <2>5. QED
      BY <2>1, <2>2, <2>3, <2>4 DEF Distinct
  <1>5. \A r \in Issue : RowInv(r)'
    BY DEF MapInv, RowInv, Exists
  <1>6. QED
    BY <1>1, <1>3, <1>4, <1>5 DEF MapInv

\* Steps that begin an activity; a row may become doubled that has no number.
LEMMA MapBegin ==
  ASSUME TypeOK, MapInv, NEW p \in Proc,
         NEW kind \in Kind, NEW r \in Issue \cup {NoIssue}, NEW i \in Iid \cup {0},
         NEW t, NEW event, Begin(p, kind, r, i, t, event),
         UNCHANGED <<iid, sync_state, ref>>,
         doubled \subseteq doubled', doubled' \subseteq Issue,
         \A s \in doubled' : s \in doubled \/ (Exists(s) /\ iid[s] = 0),
         kind = "pull" => i # 0 /\ r = NoIssue,
         kind = "push" => r \in Issue /\ Exists(r) /\ i = iid[r],
         kind = "push" /\ i = 0 =>
           r \in doubled' \/ \A q \in Proc : ~(op[q].kind = "push" /\ op[q].issue = r),
         kind = "update" => r \in Issue /\ Exists(r),
         kind = "create" => /\ r \in ApiIssue /\ ~Exists(r)
                            /\ \A q \in Proc : op[q].issue # r
  PROVE  MapInv'
  <1>1. /\ op'[p].kind = kind /\ op'[p].at = "load"
        /\ op'[p].issue = r /\ op'[p].iid = i
    BY DEF Begin, TypeOK
  <1>2. \A q \in Proc \ {p} : op'[q] = op[q]
    BY DEF Begin, TypeOK
  <1>3. PullInv'
    BY <1>1, <1>2 DEF MapInv, PullInv
  <1>4. ASSUME NEW q \in Proc PROVE OpInv(q)'
    <2>1. CASE q = p
      BY <1>1, <2>1 DEF OpInv, Unlinked, Exists, Kind
    <2>2. CASE q # p
      <3>1. OpInv(q) /\ op'[q] = op[q]
        BY <1>2, <2>2 DEF MapInv
      <3>2. QED
        BY <3>1 DEF OpInv, Unlinked, Exists
    <2>3. QED
      BY <2>1, <2>2
  <1>5. ASSUME NEW q \in Proc, q # p PROVE Distinct(q, p)' /\ Distinct(p, q)'
    <2>1. op'[q] = op[q]
      BY <1>2, <1>5
    <2>2. op[q].kind = "create" => op[q].issue # r
      BY IidFacts DEF MapInv, OpInv, Issue, Kind
    <2>3. Unlinked(p)' => kind = "push" /\ i = 0
      BY <1>1 DEF Unlinked
    <2>4. QED
      BY <1>1, <2>1, <2>2, <2>3 DEF Distinct, Unlinked
  <1>6. ASSUME NEW q \in Proc, NEW s \in Proc PROVE Distinct(q, s)'
    <2>1. CASE q = p \/ s = p
      BY <1>5, <2>1 DEF Distinct
    <2>2. CASE q # p /\ s # p
      <3>1. Distinct(q, s) /\ op'[q] = op[q] /\ op'[s] = op[s]
        BY <1>2, <2>2 DEF MapInv
      <3>2. QED
        BY <3>1 DEF Distinct, Unlinked
    <2>3. QED
      BY <2>1, <2>2
  <1>7. ASSUME NEW s \in Issue PROVE RowInv(s)'
    <2>1. RowInv(s)
      BY DEF MapInv
    <2>2. s \in doubled' => s \in ApiIssue
      BY <2>1, IidFacts DEF RowInv, Issue
    <2>3. QED
      BY <2>1, <2>2 DEF RowInv, Exists
  <1>8. QED
    BY <1>3, <1>4, <1>6, <1>7 DEF MapInv

\* Steps that write row r: its number is kept, or the row is doubled, or the
\* number was missing and nobody else pushes the row, which only p creates.
LEMMA MapWrite ==
  ASSUME TypeOK, MapInv, NEW p \in Proc, NEW r \in Issue, UNCHANGED doubled,
         \A s \in Issue \ {r} : /\ iid'[s] = iid[s] /\ ref'[s] = ref[s]
                              /\ sync_state'[s] = sync_state[s],
         \A q \in Proc \ {p} : op'[q] = op[q],
         \/ iid'[r] = iid[r]
         \/ r \in doubled
         \/ iid[r] = 0 /\ \A q \in Proc \ {p} : Unlinked(q) => op[q].issue # r,
         \A q \in Proc \ {p} : op[q].kind = "create" => op[q].issue # r,
         sync_state'[r] # "absent", ref'[r] \in {0, iid'[r]} \/ r \in doubled,
         r \in Iid => iid'[r] = r,
         \/ op'[p] = Idle
         \/ /\ op'[p].kind \in {"pull", "push"} /\ op'[p].kind = op[p].kind
            /\ op'[p].issue = r /\ op'[p].at = "ref"
            /\ op'[p].kind = "push" => op[p].issue = r
            /\ op'[p].iid # 0 /\ iid'[r] = op'[p].iid
  PROVE  MapInv'
  <1>1. op'[p] = Idle => /\ op'[p].kind = "none" /\ op'[p].at = "idle"
                         /\ op'[p].issue = NoIssue
    BY EmptyValues
  <1>2. PullInv'
    BY <1>1 DEF MapInv, PullInv
  <1>3. ~Unlinked(p)'
    BY <1>1 DEF Unlinked
  <1>4. ASSUME NEW q \in Proc PROVE OpInv(q)'
    <2>1. CASE q = p
      BY <1>1, <1>3, <2>1 DEF OpInv, Exists
    <2>2. CASE q # p
      <3>1. OpInv(q) /\ op'[q] = op[q] /\ (Unlinked(q)' <=> Unlinked(q))
        BY <2>2 DEF MapInv, Unlinked
      <3>2. op[q].kind = "create" => op[q].issue # r
        BY <2>2
      <3>3. \/ iid'[r] = iid[r] \/ r \in doubled
            \/ iid[r] = 0 /\ (Unlinked(q) => op[q].issue # r)
        BY <2>2
      <3>4. \A s \in Issue : Exists(s) => sync_state'[s] # "absent"
        BY DEF Exists
      <3>5. op[q].kind = "create" => sync_state'[op[q].issue] = "absent"
        BY <3>1, <3>2 DEF OpInv, Exists, Issue
      <3>6. Unlinked(q) => iid'[op[q].issue] = 0 \/ op[q].issue \in doubled
        BY <3>1, <3>3 DEF OpInv, Unlinked
      <3>7. op[q].at = "ref" => iid'[op[q].issue] = op[q].iid \/ op[q].issue \in doubled
        BY <3>1, <3>3 DEF OpInv
      <3>8. QED
        BY <3>1, <3>4, <3>5, <3>6, <3>7 DEF OpInv, Exists
    <2>3. QED
      BY <2>1, <2>2
  <1>5. ASSUME NEW q \in Proc, NEW s \in Proc PROVE Distinct(q, s)'
    <2>1. Distinct(q, s)
      BY DEF MapInv
    <2>2. op[q].kind = "create" => op[q].issue # NoIssue
      BY IidFacts DEF MapInv, OpInv, Issue
    <2>3. \A t \in Proc : Unlinked(t)' => Unlinked(t) /\ op'[t].issue = op[t].issue
      BY <1>3 DEF Unlinked
    <2>4. QED
      BY <1>1, <2>1, <2>2, <2>3 DEF Distinct
  <1>6. ASSUME NEW s \in Issue PROVE RowInv(s)'
    <2>1. RowInv(s)
      BY DEF MapInv
    <2>2. QED
      BY <2>1 DEF RowInv, Exists
  <1>7. QED
    BY <1>2, <1>4, <1>5, <1>6 DEF MapInv

\* Users and the administrator change no row's mapping and no activity.
LEMMA MapOutside ==
  ASSUME TypeOK, MapInv,
         \/ Toggle
         \/ \E i \in Iid : GitlabEdit(i) \/ RequestPull(i) \/ LosePull(i)
         \/ \E r \in Issue : RequestPush(r)
         \/ UNCHANGED vars
  PROVE  MapInv' /\ KeepsNumbers /\ UNCHANGED doubled
  <1>1. UNCHANGED <<iid, sync_state, ref, op, doubled>>
    BY DEF Toggle, GitlabEdit, RequestPull, LosePull, RequestPush, vars, rowVars, history
  <1>2. MapInv'
    BY <1>1 DEF MapInv, PullInv, OpInv, Unlinked, Distinct, RowInv, Exists
  <1>3. QED
    BY <1>1, <1>2 DEF KeepsNumbers

\* Every activity begins as MapBegin asks.
LEMMA MapBeginnings ==
  ASSUME TypeOK, TypeOK', MapInv, NEW p \in Proc,
         \/ \E i \in Iid : BeginPull(p, i)
         \/ \E r \in Issue : BeginPush(p, r) \/ BeginUpdate(p, r)
         \/ \E r \in ApiIssue : BeginCreate(p, r)
  PROVE  MapInv' /\ KeepsNumbers /\ doubled \subseteq doubled'
  <1>1. ASSUME NEW i \in Iid, BeginPull(p, i) PROVE MapInv'
    <2>1. /\ Begin(p, "pull", NoIssue, i, NoText, FALSE)
          /\ UNCHANGED <<iid, sync_state, ref, doubled>>
      BY <1>1 DEF BeginPull, rowVars
    <2>2. QED
      BY <2>1, MapBegin, IidFacts DEF Kind, TypeOK
  <1>2. ASSUME NEW r \in Issue, BeginPush(p, r) PROVE MapInv' /\ doubled \subseteq doubled'
    <2>1. /\ Begin(p, "push", r, iid[r], text[r], TRUE) /\ Exists(r)
          /\ UNCHANGED <<iid, sync_state, ref>>
      BY <1>2 DEF BeginPush, rowVars
    <2>2. PICK i \in Iid \cup {0} : i = iid[r]
      BY DEF TypeOK
    <2>3. PICK t : t = text[r]
      OBVIOUS
    <2>4. Begin(p, "push", r, i, t, TRUE)
      BY <2>1, <2>2, <2>3
    <2>5. /\ doubled \subseteq doubled' /\ doubled' \subseteq Issue
          /\ \A s \in doubled' : s \in doubled \/ (Exists(s) /\ iid[s] = 0)
          /\ i = 0 => r \in doubled' \/ \A q \in Proc : ~(op[q].kind = "push" /\ op[q].issue = r)
      BY <1>2, <2>1, <2>2 DEF BeginPush, TypeOK
    <2>6. QED
      BY <2>1, <2>2, <2>4, <2>5, MapBegin DEF Kind
  <1>3. ASSUME NEW r \in Issue, BeginUpdate(p, r) PROVE MapInv'
    <2>1. PICK t, event : Begin(p, "update", r, iid[r], t, event)
      BY <1>3 DEF BeginUpdate
    <2>2. Exists(r) /\ UNCHANGED <<iid, sync_state, ref, doubled>>
      BY <1>3 DEF BeginUpdate, rowVars
    <2>3. PICK i \in Iid \cup {0} : i = iid[r]
      BY DEF TypeOK
    <2>4. Begin(p, "update", r, i, t, event)
      BY <2>1, <2>3
    <2>5. QED
      BY <2>2, <2>4, MapBegin DEF Kind, TypeOK
  <1>4. ASSUME NEW r \in ApiIssue, BeginCreate(p, r) PROVE MapInv'
    <2>1. PICK t : Begin(p, "create", r, 0, t, FALSE)
      BY <1>4 DEF BeginCreate
    <2>2. /\ ~Exists(r) /\ \A q \in Proc : op[q].issue # r
          /\ UNCHANGED <<iid, sync_state, ref, doubled>>
      BY <1>4 DEF BeginCreate, rowVars
    <2>3. QED
      BY <2>1, <2>2, MapBegin DEF Kind, Issue, TypeOK
  <1>5. UNCHANGED iid
    BY DEF BeginPull, BeginPush, BeginUpdate, BeginCreate, rowVars
  <1>6. QED
    BY <1>1, <1>2, <1>3, <1>4, <1>5
       DEF KeepsNumbers, BeginPull, BeginUpdate, BeginCreate

\* An activity's steps that leave the rows alone.
LEMMA MapMoves ==
  ASSUME TypeOK, MapInv, NEW p \in Proc,
         \/ GoRemote(p) \/ GoLocal(p) \/ Skip(p) \/ Fetch(p) \/ Put(p) \/ Post(p)
         \/ Reject(p) \/ Fail(p)
  PROVE  MapInv' /\ KeepsNumbers /\ UNCHANGED doubled
  <1>1. UNCHANGED <<iid, sync_state, ref, doubled>>
    BY DEF GoRemote, GoLocal, Skip, Fetch, Put, Post, Reject, Fail, Abort, rowVars, history
  <1>2. CASE Skip(p) \/ Reject(p) \/ Fail(p)
    <2>1. Finish(p)
      BY <1>2 DEF Skip, Reject, Fail, Abort
    <2>2. op'[p] = Idle /\ \A q \in Proc \ {p} : op'[q] = op[q]
      BY <2>1 DEF Finish, TypeOK
    <2>3. QED
      BY <1>1, <2>2, MapMove DEF KeepsNumbers
  <1>3. CASE GoRemote(p) \/ GoLocal(p) \/ Fetch(p) \/ Put(p) \/ Post(p)
    <2>1. op[p] # Idle
      BY <1>3, EmptyValues DEF GoRemote, GoLocal, Fetch, Put, Post, At
    <2>2. op[p] \in Op
      BY <2>1 DEF TypeOK
    <2>3. \A q \in Proc \ {p} : op'[q] = op[q]
      BY <1>3 DEF TypeOK, GoRemote, GoLocal, Fetch, Put, Post, Continue
    <2>4. /\ op[p].at \in {"load", "remote"}
          /\ op'[p].kind = op[p].kind /\ op'[p].issue = op[p].issue
          /\ \/ op'[p].iid = op[p].iid /\ op'[p].at \in {"remote", "store"}
             \/ /\ op[p].kind \in {"create", "update"}
                /\ op'[p].iid = op[p].iid /\ op'[p].at = "local"
             \/ /\ op[p].kind = "push" /\ op[p].iid = 0
                /\ op'[p].iid # 0 /\ op'[p].at = "link"
             \/ /\ op[p].kind = "create"
                /\ op'[p].iid # 0 /\ op'[p].at = "insert"
      <3>1. CASE GoRemote(p) \/ GoLocal(p)
        BY <2>2, <3>1 DEF TypeOK, GoRemote, GoLocal, Continue, At, Op
      <3>2. CASE Fetch(p)
        BY <2>2, <3>2 DEF TypeOK, Fetch, At, Op
      <3>3. CASE Put(p)
        <4>1. PICK t : op' = [op EXCEPT ![p].at = "store", ![p].text = t]
          BY <3>3 DEF Put
        <4>2. QED
          BY <2>2, <3>3, <4>1 DEF TypeOK, Op, Put
      <3>4. CASE Post(p)
        <4>1. PICK i \in Iid :
                op' = [op EXCEPT ![p].iid = i,
                         ![p].at = IF op[p].kind = "push" THEN "link" ELSE "insert"]
          BY <3>4 DEF Post
        <4>2. op[p].kind \in {"push", "create"} /\ op[p].iid = 0 /\ op[p].at = "remote"
          BY <3>4 DEF Post
        <4>3. QED
          BY <2>2, <4>1, <4>2, IidFacts DEF TypeOK, Op
      <3>5. QED
        BY <1>3, <3>1, <3>2, <3>3, <3>4
    <2>5. QED
      BY <1>1, <2>1, <2>3, <2>4, MapMove DEF KeepsNumbers
  <1>4. QED
    BY <1>2, <1>3

\* An activity's steps that write a row or its reference.
LEMMA MapWrites ==
  ASSUME TypeOK, MapInv, NEW p \in Proc,
         \/ StorePull(p) \/ StorePush(p) \/ Link(p) \/ StoreRef(p)
         \/ StoreUpdate(p) \/ Insert(p) \/ LocalWrite(p)
  PROVE  MapInv' /\ KeepsNumbers /\ UNCHANGED doubled
  <1> DEFINE Keeps(r) ==
        /\ \A s \in Issue \ {r} : /\ iid'[s] = iid[s] /\ ref'[s] = ref[s]
                               /\ sync_state'[s] = sync_state[s]
        /\ sync_state'[r] # "absent"
  <1>1. op[p] # Idle
    BY EmptyValues DEF StorePull, StorePush, Link, StoreRef, StoreUpdate, Insert, LocalWrite, At
  <1>2. op[p] \in Op /\ OpInv(p)
    BY <1>1 DEF TypeOK, MapInv
  <1>3. \A r \in Issue : RowInv(r)
    BY DEF MapInv
  <1>4. ASSUME NEW r \in Issue, Exists(r), NEW q \in Proc, op[q].kind = "create"
        PROVE  op[q].issue # r
    BY <1>4 DEF MapInv, OpInv
  <1>5. UNCHANGED doubled
    BY DEF StorePull, StorePush, Link, StoreRef, StoreUpdate, Insert, LocalWrite
  <1>6. ASSUME NEW r \in Issue, r \in Iid, iid[r] # 0 PROVE iid[r] = r
    BY <1>3, <1>6 DEF RowInv
  <1>7. CASE StorePull(p)
    <2>1. PICK r \in Issue :
            /\ \/ iid[r] = op[p].iid
               \/ r = op[p].iid /\ ~Exists(r)
            /\ iid' = [iid EXCEPT ![r] = op[p].iid]
            /\ sync_state' = [sync_state EXCEPT ![r] = "idle"]
            /\ op' = [op EXCEPT ![p].at = "ref", ![p].issue = r]
            /\ UNCHANGED ref
      BY <1>7 DEF StorePull, Writes
    <2>2. op[p].kind = "pull" /\ op[p].iid # 0 /\ op[p].iid \in Iid
      BY <1>2, <1>7 DEF StorePull, At, MapInv, PullInv, Op
    <2>3. Keeps(r) /\ iid'[r] = op[p].iid
      BY <2>1 DEF TypeOK
    <2>4. iid[r] = op[p].iid \/ iid[r] = 0
      BY <1>3, <2>1 DEF RowInv
    <2>5. \A q \in Proc \ {p} : op'[q] = op[q]
      BY <2>1 DEF TypeOK
    <2>6. /\ op'[p].kind = op[p].kind /\ op'[p].issue = r
          /\ op'[p].at = "ref" /\ op'[p].iid = op[p].iid
      BY <1>2, <2>1 DEF TypeOK, Op
    <2>7. \/ iid'[r] = iid[r]
          \/ /\ iid[r] = 0
             /\ \A q \in Proc \ {p} : Unlinked(q) => op[q].issue # r
      <3>1. CASE iid[r] = op[p].iid
        BY <2>3, <3>1
      <3>2. CASE ~Exists(r)
        BY <1>3, <3>2 DEF RowInv, MapInv, OpInv, Unlinked
      <3>3. QED
        BY <2>1, <3>1, <3>2
    <2>8. \A q \in Proc \ {p} : op[q].kind = "create" => op[q].issue # r
      <3>1. CASE Exists(r)
        BY <1>4, <3>1
      <3>2. CASE ~Exists(r)
        <4>1. iid[r] # op[p].iid
          BY <1>3, <2>2, <3>2 DEF RowInv
        <4>2. r \notin ApiIssue
          BY <2>1, <2>2, <4>1, IidFacts
        <4>3. QED
          BY <4>2 DEF MapInv, OpInv
      <3>3. QED
        BY <3>1, <3>2
    <2>9. ref'[r] \in {0, iid'[r]} \/ r \in doubled
      BY <1>3, <2>1, <2>3, <2>4 DEF RowInv
    <2>10. r \in Iid => iid'[r] = r
      BY <1>6, <2>1, <2>2, <2>3
    <2>11. MapInv'
      BY <1>5, <2>2, <2>3, <2>5, <2>6, <2>7, <2>8, <2>9, <2>10, MapWrite
    <2>12. QED
      BY <1>5, <2>2, <2>3, <2>4, <2>11 DEF KeepsNumbers
  <1>8. ASSUME Link(p) \/ Insert(p),
               NEW r \in Issue, r = op[p].issue, r \in ApiIssue, op[p].iid # 0,
               iid[r] = 0 \/ r \in doubled,
               \A q \in Proc \ {p} : op[q].kind = "create" => op[q].issue # r,
               \A q \in Proc \ {p} : Unlinked(q) /\ op[q].issue = r => r \in doubled,
               op'[p] = Idle \/ (/\ op[p].kind = "push"
                                 /\ op' = [op EXCEPT ![p].at = "ref"])
        PROVE  MapInv' /\ KeepsNumbers
    <2>1. Keeps(r) /\ iid'[r] = op[p].iid /\ ref' = ref
      BY <1>8 DEF TypeOK, Link, Insert, Writes
    <2>2. \A q \in Proc \ {p} : op'[q] = op[q]
      BY <1>8 DEF TypeOK, Link, Insert, Continue, Finish
    <2>3. ref'[r] \in {0, iid'[r]} \/ r \in doubled
      BY <1>3, <1>8, <2>1 DEF RowInv
    <2>4. \/ op'[p] = Idle
          \/ /\ op'[p].kind \in {"pull", "push"} /\ op'[p].kind = op[p].kind
             /\ op'[p].issue = r /\ op'[p].at = "ref"
             /\ op'[p].kind = "push" => op[p].issue = r
             /\ op'[p].iid # 0 /\ iid'[r] = op'[p].iid
      BY <1>2, <1>8, <2>1 DEF TypeOK, Op
    <2>5. r \notin Iid
      BY <1>8, IidFacts
    <2>6. MapInv'
      BY <1>5, <1>8, <2>1, <2>2, <2>3, <2>4, <2>5, MapWrite
    <2>7. QED
      BY <1>8, <2>1, <2>6 DEF KeepsNumbers
  <1>9. CASE Link(p)
    <2>1. /\ op[p].at = "link" /\ op[p].kind = "push" /\ Unlinked(p)
          /\ op' = [op EXCEPT ![p].at = "ref"]
      BY <1>9 DEF Link, At, Continue, Unlinked
    <2>2. PICK r \in Issue : r = op[p].issue
      BY <1>2, <2>1 DEF OpInv
    <2>3. Exists(r) /\ op[p].iid # 0 /\ (iid[r] = 0 \/ r \in doubled)
      BY <1>2, <2>1, <2>2 DEF OpInv
    <2>4. r \in ApiIssue
      BY <1>3, <2>3, IidFacts DEF RowInv, Issue
    <2>5. \A q \in Proc \ {p} : Unlinked(q) /\ op[q].issue = r => r \in doubled
      BY <2>1, <2>2 DEF MapInv, Distinct
    <2>6. \A q \in Proc \ {p} : op[q].kind = "create" => op[q].issue # r
      BY <1>4, <2>3
    <2>7. QED
      BY <1>5, <1>8, <1>9, <2>1, <2>2, <2>3, <2>4, <2>5, <2>6
  <1>10. CASE Insert(p)
    <2>1. op[p].kind = "create" /\ op[p].at = "insert" /\ op'[p] = Idle
      BY <1>10 DEF Insert, At, Finish, TypeOK
    <2>2. PICK r \in Issue : r = op[p].issue
      BY <1>2, <2>1 DEF OpInv, Issue
    <2>3. r \in ApiIssue /\ iid[r] = 0 /\ op[p].iid # 0
      BY <1>2, <1>3, <2>1, <2>2 DEF OpInv, RowInv
    <2>4. \A q \in Proc \ {p} : op[q].issue # r
      BY <2>1, <2>2 DEF MapInv, Distinct
    <2>5. QED
      BY <1>5, <1>8, <1>10, <2>1, <2>2, <2>3, <2>4
  <1>11. ASSUME StorePush(p) \/ StoreRef(p) \/ StoreUpdate(p) \/ LocalWrite(p),
                NEW r \in Issue, r = op[p].issue,
                Exists(r) \/ (op[p].kind = "create" /\ r \in ApiIssue /\ ~StoreRef(p)),
                StoreRef(p) => op[p].iid = iid[r] \/ r \in doubled
        PROVE  MapInv' /\ KeepsNumbers
    <2>1. iid' = iid /\ Keeps(r)
      BY <1>11 DEF TypeOK, StorePush, StoreRef, StoreUpdate, LocalWrite, Writes, Exists
    <2>2. ref'[r] \in {0, iid'[r]} \/ r \in doubled
      <3>1. CASE StoreRef(p)
        BY <1>11, <2>1, <3>1 DEF StoreRef, TypeOK
      <3>2. CASE ref' = ref
        BY <1>3, <2>1, <3>2 DEF RowInv
      <3>3. QED
        BY <1>11, <3>1, <3>2 DEF StorePush, StoreUpdate, LocalWrite
    <2>3. op'[p] = Idle /\ \A q \in Proc \ {p} : op'[q] = op[q]
      BY <1>11 DEF TypeOK, StorePush, StoreRef, StoreUpdate, LocalWrite, Finish
    <2>4. \A q \in Proc \ {p} : op[q].kind = "create" => op[q].issue # r
      BY <1>4, <1>11 DEF MapInv, Distinct
    <2>5. r \in Iid => iid'[r] = r
      BY <1>3, <1>11, <2>1, IidFacts DEF RowInv
    <2>6. MapInv'
      BY <1>5, <2>1, <2>2, <2>3, <2>4, <2>5, MapWrite
    <2>7. QED
      BY <2>1, <2>6 DEF KeepsNumbers
  <1>12. CASE StorePush(p) \/ StoreUpdate(p)
    <2>1. op[p].kind \in {"push", "update"} /\ ~StoreRef(p)
      BY <1>12 DEF StorePush, StoreUpdate, StoreRef, At
    <2>2. op[p].issue \in Issue /\ Exists(op[p].issue)
      BY <1>2, <2>1 DEF OpInv
    <2>3. QED
      BY <1>5, <1>11, <1>12, <2>1, <2>2
  <1>13. CASE StoreRef(p)
    <2>1. PICK r \in Issue : r = op[p].issue
      BY <1>2, <1>13 DEF StoreRef, OpInv
    <2>2. Exists(r) /\ (op[p].iid = iid[r] \/ r \in doubled)
      BY <1>2, <1>13, <2>1 DEF StoreRef, OpInv
    <2>3. QED
      BY <1>5, <1>11, <1>13, <2>1, <2>2
  <1>14. CASE LocalWrite(p)
    <2>1. op[p].kind \in {"create", "update"} /\ ~StoreRef(p)
      BY <1>2, <1>14 DEF LocalWrite, StoreRef, OpInv
    <2>2. PICK r \in Issue : r = op[p].issue
      BY <1>2, <2>1 DEF OpInv, Issue
    <2>3. Exists(r) \/ (op[p].kind = "create" /\ r \in ApiIssue)
      BY <1>2, <2>1, <2>2 DEF OpInv
    <2>4. QED
      BY <1>5, <1>11, <1>14, <2>1, <2>2, <2>3
  <1>15. QED
    BY <1>5, <1>7, <1>9, <1>10, <1>12, <1>13, <1>14

\* Every step keeps the mapping invariant, the number of a row that is not
\* doubled, and the doubled rows.
LEMMA MapStep ==
  TypeOK /\ TypeOK' /\ MapInv /\ [Next]_vars =>
    MapInv' /\ KeepsNumbers /\ doubled \subseteq doubled'
  <1> SUFFICES ASSUME TypeOK, TypeOK', MapInv, [Next]_vars
               PROVE  MapInv' /\ KeepsNumbers /\ doubled \subseteq doubled'
    OBVIOUS
  <1>1. CASE \/ UNCHANGED vars \/ Toggle
             \/ \E i \in Iid : GitlabEdit(i) \/ RequestPull(i) \/ LosePull(i)
             \/ \E r \in Issue : RequestPush(r)
    BY <1>1, MapOutside
  <1>2. ASSUME NEW p \in Proc,
               \/ \E i \in Iid : BeginPull(p, i)
               \/ \E r \in Issue : BeginPush(p, r) \/ BeginUpdate(p, r)
               \/ \E r \in ApiIssue : BeginCreate(p, r)
        PROVE  MapInv' /\ KeepsNumbers /\ doubled \subseteq doubled'
    BY <1>2, MapBeginnings
  <1>3. ASSUME NEW p \in Proc, Work(p) \/ Fail(p)
        PROVE  MapInv' /\ KeepsNumbers /\ doubled \subseteq doubled'
    <2>1. CASE \/ GoRemote(p) \/ GoLocal(p) \/ Skip(p) \/ Fetch(p) \/ Put(p)
               \/ Post(p) \/ Reject(p) \/ Fail(p)
      BY <2>1, MapMoves
    <2>2. CASE \/ StorePull(p) \/ StorePush(p) \/ Link(p) \/ StoreRef(p)
               \/ StoreUpdate(p) \/ Insert(p) \/ LocalWrite(p)
      BY <2>2, MapWrites
    <2>3. QED
      BY <1>3, <2>1, <2>2 DEF Work
  <1>4. QED
    BY <1>1, <1>2, <1>3 DEF Next

-----------------------------------------------------------------------------
(***************************************************************************)
(* The theorems.                                                           *)
(***************************************************************************)
Inv == TypeOK /\ MapInv

\* Nothing is there at first.
LEMMA InitType == Init => TypeOK
  BY EmptyValues, ConstantsAssumption DEF Init, TypeOK

\* The invariant holds from the start and every step keeps it.
LEMMA Invariant == Spec => []Inv
  <1>1. Init => Inv
    BY InitType, MapInit DEF Inv
  <1>2. Inv /\ [Next]_vars => Inv'
    BY TypeStep, MapStep DEF Inv
  <1>3. QED
    BY <1>1, <1>2, PTL DEF Spec

\* The rows, references and activities of the sync are always well typed.
THEOREM TypeCorrect == Spec => []TypeOK
  <1>1. Inv => TypeOK
    BY DEF Inv
  <1>2. QED
    BY <1>1, Invariant, PTL

\* issues.gitlab_issue_iid and issue_external_refs never name two different
\* GitLab issues for a row, however the writes of pulls and pushes interleave,
\* unless two pushes at once found the row without a number.
THEOREM RefsAgree == Spec => []RefAgrees
  <1>1. Inv => RefAgrees
    BY DEF Inv, MapInv, RowInv, RefAgrees
  <1>2. QED
    BY <1>1, Invariant, PTL

\* No retry, and no handler that runs meanwhile, gives a row that has a GitLab
\* issue another one, unless two pushes at once found the row without a number.
THEOREM MappingsAreStable == Spec => MappingIsStable
  <1>1. Inv /\ [Next]_vars => [\A r \in Issue \ doubled : iid[r] # 0 => iid'[r] = iid[r]]_vars
    BY TypeStep, MapStep DEF Inv, KeepsNumbers
  <1>2. QED
    BY <1>1, Invariant, PTL DEF Spec, MappingIsStable

-----------------------------------------------------------------------------
(***************************************************************************)
(* What a step does to the activities, field by field.                     *)
(***************************************************************************)
Others(p) == \A q \in Proc \ {p} : op'[q] = op[q]

\* An activity that takes a step, or fails, has begun.
LEMMA WorkingIsOp ==
  ASSUME TypeOK, NEW p \in Proc, Work(p) \/ Fail(p)
  PROVE  op[p] \in Op
  <1>1. op[p] # Idle
    BY EmptyValues
       DEF Work, GoRemote, GoLocal, Skip, Fetch, Put, Post, StorePull, StorePush, Link,
           StoreRef, StoreUpdate, Insert, LocalWrite, Reject, Fail, At
  <1>2. QED
    BY <1>1 DEF TypeOK

\* An activity that ends.
LEMMA Ended ==
  ASSUME TypeOK, NEW p \in Proc,
         \/ Skip(p) \/ StorePush(p) \/ StoreRef(p) \/ StoreUpdate(p) \/ Insert(p)
         \/ LocalWrite(p) \/ Reject(p) \/ Fail(p)
  PROVE  /\ op'[p] = Idle /\ Others(p)
         /\ op'[p].kind = "none" /\ op'[p].at = "idle" /\ op'[p].issue = NoIssue
         /\ op'[p].iid = 0 /\ crossed' = crossed \ {p}
  <1>1. Finish(p)
    BY DEF Skip, StorePush, StoreRef, StoreUpdate, Insert, LocalWrite, Reject, Fail, Abort
  <1>2. op'[p] = Idle /\ Others(p) /\ crossed' = crossed \ {p}
    BY <1>1 DEF Finish, TypeOK, Others
  <1>3. QED
    BY <1>2, EmptyValues

\* One that goes to GitLab, or does not, or has linked its row.
LEMMA Continued ==
  ASSUME TypeOK, NEW p \in Proc, GoRemote(p) \/ GoLocal(p) \/ Link(p)
  PROVE  /\ Others(p) /\ op[p] \in Op /\ crossed' = crossed
         /\ op'[p].kind = op[p].kind /\ op'[p].issue = op[p].issue
         /\ op'[p].iid = op[p].iid /\ op'[p].text = op[p].text
         /\ GoRemote(p) => op[p].at = "load" /\ op'[p].at = "remote"
         /\ GoLocal(p) => op[p].at = "load" /\ op'[p].at = "local"
         /\ Link(p) => op[p].at = "link" /\ op'[p].at = "ref"
  <1>1. op[p] \in Op
    BY WorkingIsOp DEF Work
  <1>2. PICK at : Continue(p, at) /\ (GoRemote(p) => at = "remote")
                  /\ (GoLocal(p) => at = "local") /\ (Link(p) => at = "ref")
    BY DEF GoRemote, GoLocal, Link, At
  <1>3. QED
    BY <1>1, <1>2 DEF Continue, TypeOK, Others, Op, GoRemote, GoLocal, Link, At, history

\* One that has got GitLab's text.
LEMMA Fetched ==
  ASSUME TypeOK, NEW p \in Proc, Fetch(p)
  PROVE  /\ Others(p) /\ op[p] \in Op /\ op[p].kind = "pull" /\ op[p].at = "remote"
         /\ op'[p].kind = "pull" /\ op'[p].at = "store" /\ op'[p].issue = op[p].issue
         /\ op'[p].iid = op[p].iid /\ op'[p].text = gitlab[op[p].iid]
         /\ crossed' = crossed
  <1>1. op[p] \in Op
    BY WorkingIsOp DEF Work
  <1>2. QED
    BY <1>1 DEF Fetch, At, TypeOK, Others, Op, history

\* One that has changed an issue in GitLab.
LEMMA Written ==
  ASSUME TypeOK, NEW p \in Proc, Put(p)
  PROVE  /\ Others(p) /\ op[p] \in Op /\ op[p].iid \in Iid /\ op[p].at = "remote"
         /\ op[p].kind \in {"push", "update"}
         /\ op'[p].kind = op[p].kind /\ op'[p].at = "store" /\ op'[p].issue = op[p].issue
         /\ op'[p].iid = op[p].iid /\ op'[p].text.body = op[p].text.body
         /\ op'[p].text \in Text /\ GitlabWrites(op[p].iid, op'[p].text)
         /\ crossed' = crossed
  <1>1. op[p] \in Op
    BY WorkingIsOp DEF Work
  <1>2. op[p].iid \in Iid /\ op[p].text \in Text
    BY <1>1 DEF Put, Op
  <1>3. gitlab[op[p].iid] \in Text
    BY <1>2 DEF TypeOK
  <1>4. PICK t \in Text : /\ GitlabWrites(op[p].iid, t) /\ t.body = op[p].text.body
                          /\ op' = [op EXCEPT ![p].at = "store", ![p].text = t]
    BY <1>2, <1>3 DEF Put, Text
  <1>5. QED
    BY <1>1, <1>2, <1>4 DEF TypeOK, Others, Op, Put, history

\* One that has created an issue there.
LEMMA Created ==
  ASSUME TypeOK, NEW p \in Proc, Post(p)
  PROVE  /\ Others(p) /\ op[p] \in Op /\ op[p].iid = 0 /\ op[p].at = "remote"
         /\ op[p].kind \in {"push", "create"}
         /\ op'[p].kind = op[p].kind /\ op'[p].issue = op[p].issue
         /\ op'[p].text = op[p].text
         /\ op'[p].at = IF op[p].kind = "push" THEN "link" ELSE "insert"
         /\ op'[p].iid \in Iid /\ NextIid(op'[p].iid)
         /\ \E t \in Text : t.body = op[p].text.body /\ GitlabWrites(op'[p].iid, t)
         /\ maker' = IF op[p].kind = "push" THEN [maker EXCEPT ![op'[p].iid] = op[p].issue]
                     ELSE maker
         /\ crossed' = crossed
  <1>1. op[p] \in Op
    BY WorkingIsOp DEF Work
  <1>2. [op[p].text EXCEPT !.open = TRUE] \in Text
        /\ [op[p].text EXCEPT !.open = TRUE].body = op[p].text.body
    BY <1>1 DEF Op, Text
  <1>3. PICK i \in Iid :
          /\ NextIid(i) /\ GitlabWrites(i, [op[p].text EXCEPT !.open = TRUE])
          /\ op' = [op EXCEPT ![p].iid = i,
                              ![p].at = IF op[p].kind = "push" THEN "link" ELSE "insert"]
          /\ maker' = IF op[p].kind = "push" THEN [maker EXCEPT ![i] = op[p].issue] ELSE maker
    BY DEF Post
  <1>4. op'[p].iid = i
    BY <1>1, <1>3 DEF TypeOK, Op
  <1>5. QED
    BY <1>1, <1>2, <1>3, <1>4 DEF TypeOK, Others, Op, Post

\* One that has pulled into a row.
LEMMA Pulled ==
  ASSUME TypeOK, NEW p \in Proc, StorePull(p)
  PROVE  \E r \in Issue :
           /\ Others(p) /\ op[p] \in Op /\ op[p].kind = "pull" /\ op[p].at = "store"
           /\ op'[p].kind = "pull" /\ op'[p].at = "ref" /\ op'[p].issue = r
           /\ op'[p].iid = op[p].iid
           /\ \/ iid[r] = op[p].iid
              \/ r = op[p].iid /\ ~Exists(r) /\ ~Taken(op[p].iid, r)
           /\ iid' = [iid EXCEPT ![r] = op[p].iid]
           /\ text' = [text EXCEPT ![r] = op[p].text]
           /\ Writes(p, r, "idle") /\ crossed' = crossed
  <1>1. op[p] \in Op
    BY WorkingIsOp DEF Work
  <1>2. PICK r \in Issue :
          /\ \/ iid[r] = op[p].iid
             \/ r = op[p].iid /\ ~Exists(r) /\ ~Taken(op[p].iid, r)
          /\ iid' = [iid EXCEPT ![r] = op[p].iid]
          /\ text' = [text EXCEPT ![r] = op[p].text]
          /\ Writes(p, r, "idle")
          /\ op' = [op EXCEPT ![p].at = "ref", ![p].issue = r]
    BY DEF StorePull
  <1>3. /\ Others(p) /\ op[p].kind = "pull" /\ op[p].at = "store"
        /\ op'[p].kind = "pull" /\ op'[p].at = "ref" /\ op'[p].issue = r
        /\ op'[p].iid = op[p].iid /\ crossed' = crossed
    BY <1>1, <1>2 DEF StorePull, At, TypeOK, Others, Op
  <1>4. QED
    BY <1>1, <1>2, <1>3

\* And one that begins.
LEMMA Begun ==
  ASSUME TypeOK, NEW p \in Proc, NEW kind, NEW r, NEW i, NEW t, NEW event,
         Begin(p, kind, r, i, t, event)
  PROVE  /\ Others(p) /\ op[p] = Idle
         /\ op'[p].kind = kind /\ op'[p].at = "load" /\ op'[p].issue = r /\ op'[p].iid = i
         /\ op'[p].text = t
         /\ \A q \in Proc : q \in crossed => q \in crossed'
         /\ \A q \in Proc : Touches(q, r, i) => q \in crossed' /\ p \in crossed'
  BY DEF Begin, TypeOK, Others

-----------------------------------------------------------------------------
(***************************************************************************)
(* Numbers.  GitLab has every issue that a job, an activity or a row       *)
(* names, whose texts are none but NoText; no two rows have one number.    *)
(***************************************************************************)
Known(i) == gitlab[i] # NoText

NumberInv ==
  /\ \A i \in Iid : pull_due[i] => Known(i)
  /\ \A p \in Proc : op[p].iid # 0 => Known(op[p].iid)
  /\ \A r \in Issue : iid[r] # 0 => Known(iid[r])
  /\ \A r, s \in Issue : iid[r] = iid[s] => r = s \/ iid[r] = 0

\* The texts that may reach GitLab differ from NoText.
BodyInv ==
  /\ \A r \in Issue : Exists(r) => text[r].body # 0
  /\ \A p \in Proc : op[p].kind \in {"push", "create", "update"} => op[p].text.body # 0
  /\ \A p \in Proc : op[p].kind = "pull" /\ op[p].at = "store" => op[p].text.body # 0
  /\ \A i \in Iid : Known(i) => gitlab[i].body # 0

\* GitLab has an issue once a text with a body is written to it.
LEMMA BodyKnown ==
  ASSUME TypeOK, BodyInv, NEW i \in Iid, NEW t \in Text, t.body # 0, GitlabWrites(i, t)
  PROVE  /\ Known(i)' /\ \A j \in Iid : Known(j) => Known(j)'
         /\ \A j \in Iid : Known(j)' => gitlab'[j].body # 0
         /\ \A j \in Iid : pull_due'[j] => j = i \/ pull_due[j]
  <1>1. t # NoText
    BY DEF NoText
  <1>2. gitlab' = [gitlab EXCEPT ![i] = t] /\ pull_due' = [pull_due EXCEPT ![i] = TRUE]
    BY DEF GitlabWrites
  <1>3. gitlab'[i] = t /\ \A j \in Iid \ {i} : gitlab'[j] = gitlab[j]
    BY <1>2 DEF TypeOK
  <1>4. QED
    BY <1>1, <1>2, <1>3 DEF TypeOK, BodyInv, Known

\* An edit leaves no body empty.
LEMMA EditedBody ==
  ASSUME edits \in Nat, NEW t \in Text, t.body # 0, NEW e \in Edited(t)
  PROVE  e.body # 0
  BY DEF Edited, Text

\* Every step keeps BodyInv.
LEMMA BodyStep == TypeOK /\ MapInv /\ NumberInv /\ BodyInv /\ [Next]_vars => BodyInv'
  <1> SUFFICES ASSUME TypeOK, MapInv, NumberInv, BodyInv, [Next]_vars PROVE BodyInv'
    OBVIOUS
  <1> DEFINE Good(q) == /\ op'[q].kind \in {"push", "create", "update"} => op'[q].text.body # 0
                        /\ op'[q].kind = "pull" /\ op'[q].at = "store" => op'[q].text.body # 0
             Rows == \A r \in Issue : Exists(r)' => text'[r].body # 0
             Remote == \A i \in Iid : Known(i)' => gitlab'[i].body # 0
  <1>1. ASSUME NEW q \in Proc, op'[q] = op[q] \/ op'[q].kind = "none"
        PROVE  Good(q)
    BY <1>1 DEF BodyInv
  <1>2. UNCHANGED <<text, sync_state>> => Rows
    BY DEF BodyInv, Exists
  <1>3. UNCHANGED gitlab => Remote
    BY DEF BodyInv, Known
  <1>4. (\A q \in Proc : Good(q)) /\ Rows /\ Remote => BodyInv'
    BY DEF BodyInv
  <1> HIDE DEF Good, Rows, Remote
  <1>5. CASE UNCHANGED vars \/ Toggle \/ (\E i \in Iid : RequestPull(i) \/ LosePull(i))
             \/ \E r \in Issue : RequestPush(r)
    <2>1. UNCHANGED <<op, text, sync_state, gitlab>>
      BY <1>5 DEF vars, rowVars, Toggle, RequestPull, LosePull, RequestPush
    <2>2. QED
      BY <2>1, <1>1, <1>2, <1>3, <1>4
  <1>6. ASSUME NEW i \in Iid, GitlabEdit(i) PROVE BodyInv'
    <2>1. PICK t \in Text : t.body # 0 /\ GitlabWrites(i, t)
      <3>1. CASE gitlab[i] # NoText /\ \E t \in Edited(gitlab[i]) : GitlabWrites(i, t)
        <4>1. gitlab[i] \in Text /\ gitlab[i].body # 0
          BY <3>1 DEF TypeOK, BodyInv, Known
        <4>2. QED
          BY <3>1, <4>1, EditedType, EditedBody DEF TypeOK
      <3>2. CASE GitlabWrites(i, [body |-> edits + 1, open |-> TRUE])
        <4>1. [body |-> edits + 1, open |-> TRUE] \in Text /\ edits + 1 # 0
          BY DEF TypeOK, Text
        <4>2. QED
          BY <3>2, <4>1
      <3>3. QED
        BY <1>6, <3>1, <3>2 DEF GitlabEdit
    <2>2. Remote
      BY <2>1, BodyKnown DEF Remote
    <2>3. UNCHANGED <<op, text, sync_state>>
      BY <1>6 DEF GitlabEdit, rowVars
    <2>4. QED
      BY <2>2, <2>3, <1>1, <1>2, <1>4
  <1>7. ASSUME NEW p \in Proc, NEW kind, NEW r, NEW i, NEW t, NEW event,
               Begin(p, kind, r, i, t, event), kind # "pull" => t.body # 0,
               UNCHANGED <<text, sync_state, gitlab>>
        PROVE  BodyInv'
    <2>1. Good(p)
      BY <1>7, Begun DEF Good
    <2>2. QED
      BY <2>1, <1>7, <1>1, <1>2, <1>3, <1>4, Begun DEF Others
  <1>8. ASSUME NEW p \in Proc, \/ \E i \in Iid : BeginPull(p, i)
                               \/ \E r \in Issue : BeginPush(p, r) \/ BeginUpdate(p, r)
                               \/ \E r \in ApiIssue : BeginCreate(p, r)
        PROVE  BodyInv'
    <2>1. ASSUME NEW i \in Iid, BeginPull(p, i) PROVE BodyInv'
      BY <1>7, <2>1 DEF BeginPull, rowVars
    <2>2. ASSUME NEW r \in Issue, BeginPush(p, r) PROVE BodyInv'
      <3>1. text[r].body # 0
        BY <2>2 DEF BeginPush, BodyInv
      <3>2. QED
        BY <1>7, <2>2, <3>1 DEF BeginPush, rowVars
    <2>3. ASSUME NEW r \in Issue, BeginUpdate(p, r) PROVE BodyInv'
      <3>1. text[r].body # 0 /\ text[r] \in Text
        BY <2>3 DEF BeginUpdate, BodyInv, TypeOK
      <3>2. PICK t \in Edited(text[r]) :
              Begin(p, "update", r, iid[r], t, t.open # text[r].open)
        BY <2>3 DEF BeginUpdate
      <3>3. t.body # 0
        BY <3>1, <3>2, EditedBody DEF TypeOK
      <3>4. UNCHANGED <<text, sync_state, gitlab>>
        BY <2>3 DEF BeginUpdate, rowVars
      <3>5. QED
        BY <1>7, <3>2, <3>3, <3>4
    <2>4. ASSUME NEW r \in ApiIssue, BeginCreate(p, r) PROVE BodyInv'
      <3>1. [body |-> edits + 1, open |-> TRUE].body # 0
        BY DEF TypeOK
      <3>2. QED
        BY <1>7, <2>4, <3>1 DEF BeginCreate, rowVars
    <2>5. QED
      BY <1>8, <2>1, <2>2, <2>3, <2>4
  <1>9. ASSUME NEW p \in Proc, GoRemote(p) \/ GoLocal(p) \/ Skip(p) \/ Fail(p) \/ Reject(p)
        PROVE  BodyInv'
    <2>1. UNCHANGED <<text, sync_state, gitlab>>
      BY <1>9 DEF GoRemote, GoLocal, Skip, Fail, Reject, Abort, rowVars
    <2>2. Good(p)
      BY <1>9, Continued, Ended DEF Good, BodyInv
    <2>3. Others(p)
      BY <1>9, Continued, Ended
    <2>4. QED
      BY <2>1, <2>2, <2>3, <1>1, <1>2, <1>3, <1>4 DEF Others
  <1>10. ASSUME NEW p \in Proc, Fetch(p) PROVE BodyInv'
    <2>1. op[p].iid \in Iid /\ gitlab[op[p].iid].body # 0
      BY <1>10, Fetched, IidFacts DEF MapInv, PullInv, NumberInv, BodyInv, Op
    <2>2. Good(p)
      BY <1>10, <2>1, Fetched DEF Good
    <2>3. UNCHANGED <<text, sync_state, gitlab>>
      BY <1>10 DEF Fetch, rowVars
    <2>4. QED
      BY <2>2, <2>3, <1>10, Fetched, <1>1, <1>2, <1>3, <1>4 DEF Others
  <1>11. ASSUME NEW p \in Proc, Put(p) \/ Post(p) PROVE BodyInv'
    <2>1. op[p].text.body # 0
      BY <1>11, Written, Created DEF BodyInv
    <2>2. Remote
      BY <1>11, <2>1, BodyKnown, Written, Created DEF Remote
    <2>3. Good(p)
      BY <1>11, <2>1, Written, Created DEF Good
    <2>4. UNCHANGED <<text, sync_state>>
      BY <1>11 DEF Put, Post, rowVars
    <2>5. QED
      BY <2>2, <2>3, <2>4, <1>11, Written, Created, <1>1, <1>2, <1>4 DEF Others
  <1>12. ASSUME NEW p \in Proc, StorePull(p) PROVE BodyInv'
    <2>1. PICK r \in Issue : /\ text' = [text EXCEPT ![r] = op[p].text]
                             /\ sync_state' = [sync_state EXCEPT ![r] = "idle"]
      BY <1>12, Pulled DEF Writes
    <2>2. op[p].text.body # 0 /\ Good(p)
      BY <1>12, Pulled DEF BodyInv, Good
    <2>3. Rows
      BY <2>1, <2>2 DEF Rows, BodyInv, Exists, TypeOK
    <2>4. UNCHANGED gitlab
      BY <1>12 DEF StorePull
    <2>5. QED
      BY <2>2, <2>3, <2>4, <1>12, Pulled, <1>1, <1>3, <1>4 DEF Others
  <1>13. ASSUME NEW p \in Proc, \/ StorePush(p) \/ Link(p) \/ StoreRef(p) \/ StoreUpdate(p)
                                \/ Insert(p) \/ LocalWrite(p)
        PROVE  BodyInv'
    <2>1. Good(p) /\ Others(p)
      BY <1>13, Continued, Ended DEF Good, BodyInv
    <2>2. UNCHANGED gitlab
      BY <1>13 DEF StorePush, Link, StoreRef, StoreUpdate, Insert, LocalWrite
    <2>3. ASSUME StorePush(p) \/ Link(p) \/ StoreRef(p) PROVE Rows
      <3>1. StorePush(p) \/ Link(p) => op[p].issue \in Issue /\ Exists(op[p].issue)
        BY DEF StorePush, Link, At, MapInv, OpInv
      <3>2. text' = text /\ \A r \in Issue : Exists(r)' => Exists(r)
        BY <2>3, <3>1 DEF StorePush, Link, StoreRef, Writes, Exists, TypeOK
      <3>3. QED
        BY <3>2 DEF Rows, BodyInv
    <2>4. ASSUME StoreUpdate(p) \/ Insert(p) \/ LocalWrite(p) PROVE Rows
      <3>1. op[p].text.body # 0
        BY <2>4 DEF StoreUpdate, Insert, LocalWrite, At, BodyInv, MapInv, OpInv
      <3>2. \E state : /\ text' = [text EXCEPT ![op[p].issue] = op[p].text]
                       /\ sync_state' = [sync_state EXCEPT ![op[p].issue] = state]
        BY <2>4 DEF StoreUpdate, Insert, LocalWrite, Writes
      <3>3. QED
        BY <3>1, <3>2 DEF Rows, BodyInv, Exists, TypeOK
    <2>5. QED
      BY <2>1, <2>2, <2>3, <2>4, <1>13, <1>1, <1>3, <1>4 DEF Others
  <1>14. QED
    BY <1>5, <1>6, <1>8, <1>9, <1>10, <1>11, <1>12, <1>13 DEF Next, Work

\* A step that writes no row's number and leaves activity p, which alone goes
\* on, with a number it had or one that GitLab has.
LEMMA NumberStep == TypeOK /\ MapInv /\ NumberInv /\ BodyInv /\ [Next]_vars => NumberInv'
  <1> SUFFICES ASSUME TypeOK, MapInv, NumberInv, BodyInv, [Next]_vars PROVE NumberInv'
    OBVIOUS
  <1> DEFINE Stay == \A j \in Iid : gitlab[j] # NoText => gitlab'[j] # NoText
             Due == \A j \in Iid : pull_due'[j] => gitlab'[j] # NoText
             Named(q) == op'[q].iid # 0 => gitlab'[op'[q].iid] # NoText
             Rows == /\ \A r \in Issue : iid'[r] # 0 => gitlab'[iid'[r]] # NoText
                     /\ \A r, s \in Issue : iid'[r] = iid'[s] => r = s \/ iid'[r] = 0
  <1>1. \A r \in Issue : iid[r] \in Iid \cup {0}
    BY DEF TypeOK
  <1>2. \A q \in Proc : op[q].iid \in Iid \cup {0}
    BY EmptyValues DEF TypeOK, Op
  <1>3. ASSUME NEW q \in Proc, Stay, op'[q].iid \in {op[q].iid, 0} PROVE Named(q)
    BY <1>2, <1>3 DEF NumberInv, Known
  <1>4. UNCHANGED iid /\ Stay => Rows
    BY <1>1 DEF NumberInv, Known
  <1>5. UNCHANGED gitlab => Stay
    OBVIOUS
  <1>6. UNCHANGED pull_due /\ Stay => Due
    BY DEF NumberInv, Known
  <1>7. (\A q \in Proc : Named(q)) /\ Rows /\ Due => NumberInv'
    BY DEF NumberInv, Known
  <1> HIDE DEF Stay, Due, Named, Rows
  <1>8. ASSUME UNCHANGED <<gitlab, iid>>, \A q \in Proc : op'[q].iid \in {op[q].iid, 0},
               \A i \in Iid : pull_due'[i] =>
                 pull_due[i] \/ Known(i) \/ \E q \in Proc : op[q].iid = i
        PROVE  NumberInv'
    <2>1. Due
      BY <1>5, <1>8, IidFacts DEF Due, Stay, NumberInv, Known
    <2>2. QED
      BY <2>1, <1>3, <1>4, <1>5, <1>7, <1>8
  <1>9. CASE UNCHANGED vars \/ Toggle \/ (\E i \in Iid : RequestPull(i) \/ LosePull(i))
             \/ \E r \in Issue : RequestPush(r)
    <2>1. UNCHANGED <<op, iid, gitlab>>
      BY <1>9 DEF vars, rowVars, Toggle, RequestPull, LosePull, RequestPush
    <2>2. \A i \in Iid : pull_due'[i] => pull_due[i] \/ Known(i)
      BY <1>9 DEF vars, queueVars, Toggle, RequestPull, LosePull, RequestPush, Known, TypeOK
    <2>3. QED
      BY <2>1, <2>2, <1>8
  <1>10. ASSUME NEW i \in Iid, GitlabEdit(i) PROVE NumberInv'
    <2>1. gitlab[i] # NoText => gitlab[i] \in Text /\ gitlab[i].body # 0
      BY DEF TypeOK, BodyInv, Known
    <2>2. [body |-> edits + 1, open |-> TRUE] \in Text /\ edits + 1 # 0
      BY DEF TypeOK, Text
    <2>3. PICK t \in Text : t.body # 0 /\ GitlabWrites(i, t)
      BY <1>10, <2>1, <2>2, EditedType, EditedBody DEF GitlabEdit, TypeOK
    <2>4. Stay /\ Due
      BY <2>3, BodyKnown DEF Stay, Due, NumberInv, Known
    <2>5. UNCHANGED <<op, iid>>
      BY <1>10 DEF GitlabEdit, rowVars
    <2>6. QED
      BY <2>4, <2>5, <1>3, <1>4, <1>7
  <1>11. ASSUME NEW p \in Proc, NEW kind, NEW r, NEW i, NEW t, NEW event,
               Begin(p, kind, r, i, t, event), i # 0 => i \in Iid /\ Known(i),
               UNCHANGED <<iid, gitlab>>,
               \A j \in Iid : pull_due'[j] => pull_due[j]
        PROVE  NumberInv'
    <2>1. Stay /\ Due
      BY <1>5, <1>11 DEF Due, Stay, NumberInv, Known
    <2>2. Named(p) /\ Others(p)
      BY <1>11, Begun DEF Known, Named
    <2>3. QED
      BY <2>1, <2>2, <1>11, <1>3, <1>4, <1>7 DEF Others
  <1>12. ASSUME NEW p \in Proc, \/ \E i \in Iid : BeginPull(p, i)
                                \/ \E r \in Issue : BeginPush(p, r) \/ BeginUpdate(p, r)
                                \/ \E r \in ApiIssue : BeginCreate(p, r)
        PROVE  NumberInv'
    <2>1. ASSUME NEW i \in Iid, BeginPull(p, i) PROVE NumberInv'
      <3>1. Known(i) /\ \A j \in Iid : pull_due'[j] => pull_due[j]
        BY <2>1 DEF BeginPull, NumberInv, TypeOK
      <3>2. QED
        BY <1>11, <2>1, <3>1 DEF BeginPull, rowVars
    <2>2. ASSUME NEW r \in Issue, BeginPush(p, r) \/ BeginUpdate(p, r) PROVE NumberInv'
      <3>1. PICK kind, t, event : Begin(p, kind, r, iid[r], t, event)
        BY <2>2 DEF BeginPush, BeginUpdate
      <3>2. iid[r] # 0 => iid[r] \in Iid /\ Known(iid[r])
        BY <1>1 DEF NumberInv, Known
      <3>3. UNCHANGED <<iid, gitlab, pull_due>>
        BY <2>2 DEF BeginPush, BeginUpdate, rowVars, queueVars
      <3>4. QED
        BY <1>11, <3>1, <3>2, <3>3
    <2>3. ASSUME NEW r \in ApiIssue, BeginCreate(p, r) PROVE NumberInv'
      BY <1>11, <2>3 DEF BeginCreate, rowVars, queueVars
    <2>4. QED
      BY <1>12, <2>1, <2>2, <2>3
  <1>13. ASSUME NEW p \in Proc, \/ GoRemote(p) \/ GoLocal(p) \/ Skip(p) \/ Fetch(p)
                                \/ StorePush(p) \/ StoreRef(p) \/ StoreUpdate(p)
                                \/ LocalWrite(p) \/ Fail(p) \/ Reject(p)
        PROVE  NumberInv'
    <2>1. UNCHANGED <<iid, gitlab>>
      BY <1>13 DEF GoRemote, GoLocal, Skip, Fetch, StorePush, StoreRef, StoreUpdate,
                   LocalWrite, Fail, Reject, Abort, rowVars
    <2>2. \A q \in Proc : op'[q].iid \in {op[q].iid, 0}
      BY <1>13, Continued, Ended, Fetched DEF Others
    <2>3. \A i \in Iid : pull_due'[i] => pull_due[i] \/ op[p].iid = i
      BY <1>13 DEF GoRemote, GoLocal, Skip, Fetch, StorePush, StoreRef, StoreUpdate,
                   LocalWrite, Fail, Reject, Abort, queueVars
    <2>4. QED
      BY <2>1, <2>2, <2>3, <1>8
  <1>14. ASSUME NEW p \in Proc, Put(p) \/ Post(p) PROVE NumberInv'
    <2>1. op[p].text.body # 0
      BY <1>14, Written, Created DEF BodyInv
    <2>2. PICK t \in Text : /\ t.body # 0 /\ op'[p].iid \in Iid /\ GitlabWrites(op'[p].iid, t)
                            /\ Others(p)
      BY <1>14, <2>1, Written, Created
    <2>3. Stay /\ Due /\ Named(p)
      BY <2>2, BodyKnown DEF Stay, Due, Named, NumberInv, Known
    <2>4. UNCHANGED iid
      BY <1>14 DEF Put, Post, rowVars
    <2>5. QED
      BY <2>2, <2>3, <2>4, <1>3, <1>4, <1>7 DEF Others
  <1>15. ASSUME NEW p \in Proc, StorePull(p) \/ Link(p) \/ Insert(p) PROVE NumberInv'
    <2>1. PICK r \in Issue : /\ iid' = [iid EXCEPT ![r] = op[p].iid]
                             /\ iid[r] = op[p].iid \/ ~Taken(op[p].iid, r)
      <3>1. CASE StorePull(p)
        BY <3>1, Pulled
      <3>2. CASE Link(p) \/ Insert(p)
        <4>1. op[p].issue \in Issue
          BY <3>2 DEF Link, Insert, At, MapInv, OpInv, Issue
        <4>2. QED
          BY <3>2, <4>1 DEF Link, Insert
      <3>3. QED
        BY <1>15, <3>1, <3>2
    <2>2. UNCHANGED <<gitlab, pull_due>>
      BY <1>15 DEF StorePull, Link, Insert, queueVars
    <2>3. Stay /\ Due
      BY <1>5, <1>6, <2>2
    <2>4. \A q \in Proc : op'[q].iid \in {op[q].iid, 0}
      BY <1>15, Continued, Ended, Pulled DEF Others
    <2>5. Rows
      <3>1. iid'[r] = op[p].iid /\ \A s \in Issue \ {r} : iid'[s] = iid[s]
        BY <2>1 DEF TypeOK
      <3>2. \A s \in Issue \ {r} : iid[s] = op[p].iid => op[p].iid = 0
        BY <2>1 DEF NumberInv, Taken
      <3>3. op[p].iid # 0 => op[p].iid \in Iid /\ gitlab[op[p].iid] # NoText
        BY <1>2 DEF NumberInv, Known
      <3>4. \A s \in Issue : iid[s] # 0 => iid[s] \in Iid /\ gitlab[iid[s]] # NoText
        BY <1>1 DEF NumberInv, Known
      <3>5. ASSUME NEW s \in Issue, iid'[s] # 0 PROVE gitlab'[iid'[s]] # NoText
        BY <3>1, <3>3, <3>4, <3>5, <2>3 DEF Stay
      <3>6. ASSUME NEW s \in Issue, NEW q \in Issue, iid'[s] = iid'[q], s # q
            PROVE  iid'[s] = 0
        BY <3>1, <3>2, <3>6 DEF NumberInv
      <3>7. QED
        BY <3>5, <3>6 DEF Rows
    <2>6. QED
      BY <2>3, <2>4, <2>5, <1>3, <1>7
  <1>16. ASSUME NEW p \in Proc, Work(p) \/ Fail(p) PROVE NumberInv'
    BY <1>13, <1>14, <1>15, <1>16 DEF Work
  <1>17. QED
    BY <1>9, <1>10, <1>12, <1>16 DEF Next

-----------------------------------------------------------------------------
(***************************************************************************)
(* Makers.  The number that a doubled row has, or is about to get, is one  *)
(* that a push of this row made.                                           *)
(***************************************************************************)
Makes(p) == op[p].at = "link" \/ (op[p].at = "ref" /\ op[p].issue \in doubled)

MakerInv ==
  /\ \A s \in doubled : Exists(s) /\ (iid[s] # 0 => maker[iid[s]] = s)
  /\ \A p \in Proc : Makes(p) => maker[op[p].iid] = op[p].issue

\* GitLab's next number is one that it has not given yet.
LEMMA NextIsNew == \A i \in Iid : NextIid(i) => ~Known(i)
  BY ConstantsAssumption DEF Iid, NextIid, Known

\* Who made a GitLab issue is settled when it appears.
LEMMA MakerStays ==
  ASSUME TypeOK, [Next]_vars, NEW i \in Iid, Known(i)
  PROVE  maker'[i] = maker[i]
  <1>1. ASSUME NEW p \in Proc, Post(p) PROVE maker'[i] = maker[i]
    <2>1. /\ op'[p].iid \in Iid /\ NextIid(op'[p].iid)
          /\ maker' = IF op[p].kind = "push" THEN [maker EXCEPT ![op'[p].iid] = op[p].issue]
                      ELSE maker
      BY <1>1, Created
    <2>2. op'[p].iid # i
      BY <2>1, NextIsNew
    <2>3. QED
      BY <2>1, <2>2 DEF TypeOK
  <1>2. QED
    BY <1>1
       DEF Next, Work, vars, history, Toggle, GitlabEdit, RequestPull, LosePull, RequestPush,
           BeginPull, BeginPush, BeginUpdate, BeginCreate, GoRemote, GoLocal, Skip, Fetch, Put,
           StorePull, StorePush, Link, StoreRef, StoreUpdate, Insert, LocalWrite, Fail, Reject,
           Abort

\* A row that exists is not removed.
LEMMA RowsStay ==
  ASSUME TypeOK, [Next]_vars, NEW r \in Issue, Exists(r)
  PROVE  Exists(r)'
  <1>1. ASSUME NEW p \in Proc, NEW s, NEW state \in {"local", "idle"}, Writes(p, s, state)
        PROVE  Exists(r)'
    BY <1>1 DEF Writes, Exists, TypeOK
  <1>2. CASE UNCHANGED sync_state
    BY <1>2 DEF Exists
  <1>3. QED
    BY <1>1, <1>2
       DEF Next, Work, vars, rowVars, Toggle, GitlabEdit, RequestPull, LosePull, RequestPush,
           BeginPull, BeginPush, BeginUpdate, BeginCreate, GoRemote, GoLocal, Skip, Fetch, Put,
           Post, StorePull, StorePush, Link, StoreRef, StoreUpdate, Insert, LocalWrite, Fail,
           Reject, Abort

\* Every step keeps MakerInv.
LEMMA MakerStep ==
  TypeOK /\ MapInv /\ NumberInv /\ MakerInv /\ [Next]_vars => MakerInv'
  <1> SUFFICES ASSUME TypeOK, MapInv, NumberInv, MakerInv, [Next]_vars PROVE MakerInv'
    OBVIOUS
  <1> DEFINE Row(s) == s \in doubled' /\ iid'[s] # 0 => maker'[iid'[s]] = s
             Op1(q) == Makes(q)' => maker'[op'[q].iid] = op'[q].issue
  <1>1. \A r \in Issue : iid[r] \in Iid \cup {0} /\ (iid[r] # 0 => Known(iid[r]))
    BY DEF TypeOK, NumberInv
  <1>2. \A q \in Proc : op[q].iid \in Iid \cup {0} /\ (op[q].iid # 0 => Known(op[q].iid))
    BY EmptyValues DEF TypeOK, Op, NumberInv
  <1>3. \A q \in Proc : Makes(q) => op[q].iid # 0
    BY DEF Makes, MapInv, OpInv
  <1>4. doubled \subseteq Issue
    BY DEF TypeOK
  <1>5. ASSUME NEW s \in Issue, s \in doubled, iid'[s] = iid[s] PROVE Row(s)
    BY <1>1, <1>5, MakerStays DEF MakerInv
  <1>6. ASSUME NEW q \in Proc, doubled' = doubled, op'[q].at \notin {"link", "ref"} \/ op'[q] = op[q]
        PROVE  Op1(q)
    BY <1>2, <1>3, <1>6, MakerStays DEF MakerInv, Makes
  <1>7. ASSUME doubled' = doubled, \A s \in doubled : Row(s), \A q \in Proc : Op1(q)
        PROVE  MakerInv'
    <2>1. \A s \in doubled : Exists(s)'
      BY <1>4, RowsStay DEF MakerInv
    <2>2. QED
      BY <1>7, <2>1 DEF MakerInv
  <1> HIDE DEF Row, Op1
  <1>8. ASSUME doubled' = doubled, iid' = iid,
               \A q \in Proc : op'[q].at \notin {"link", "ref"} \/ op'[q] = op[q]
        PROVE  MakerInv'
    BY <1>4, <1>5, <1>6, <1>7, <1>8
  <1>9. CASE \/ UNCHANGED vars \/ Toggle
             \/ \E i \in Iid : GitlabEdit(i) \/ RequestPull(i) \/ LosePull(i)
             \/ \E r \in Issue : RequestPush(r)
    <2>1. UNCHANGED <<op, iid, doubled>>
      BY <1>9 DEF vars, rowVars, history, Toggle, GitlabEdit, RequestPull, LosePull, RequestPush
    <2>2. QED
      BY <1>8, <2>1
  <1>10. ASSUME NEW p \in Proc, NEW kind, NEW r, NEW i, NEW t, NEW event,
                Begin(p, kind, r, i, t, event), UNCHANGED <<doubled, iid>>
         PROVE  MakerInv'
    BY <1>8, <1>10, Begun DEF Others
  <1>11. ASSUME NEW p \in Proc, \/ \E i \in Iid : BeginPull(p, i)
                                \/ \E r \in Issue : BeginUpdate(p, r)
                                \/ \E r \in ApiIssue : BeginCreate(p, r)
         PROVE  MakerInv'
    BY <1>10, <1>11 DEF BeginPull, BeginUpdate, BeginCreate, rowVars
  <1>12. ASSUME NEW p \in Proc, NEW r \in Issue, BeginPush(p, r) PROVE MakerInv'
    <2>1. /\ UNCHANGED <<maker, iid, sync_state>> /\ Exists(r)
          /\ Begin(p, "push", r, iid[r], text[r], TRUE)
          /\ doubled' = doubled \/ (doubled' = doubled \cup {r} /\ iid[r] = 0)
      BY <1>12 DEF BeginPush, rowVars
    <2>2. Others(p) /\ op'[p].at = "load"
      BY <2>1, Begun
    <2>3. ASSUME NEW q \in Proc, Makes(q)' PROVE maker'[op'[q].iid] = op'[q].issue
      <3>1. q # p /\ op'[q] = op[q]
        BY <2>2, <2>3 DEF Makes, Others
      <3>2. op[q].at = "ref" /\ op[q].issue = r => Makes(q) \/ iid[r] # 0
        BY DEF Makes, MapInv, OpInv
      <3>3. Makes(q)
        BY <2>1, <2>3, <3>1, <3>2 DEF Makes
      <3>4. QED
        BY <2>1, <3>1, <3>3 DEF MakerInv
    <2>4. \A s \in doubled' : Exists(s)' /\ (iid'[s] # 0 => maker'[iid'[s]] = s)
      BY <2>1 DEF MakerInv, Exists
    <2>5. QED
      BY <2>3, <2>4 DEF MakerInv
  <1>13. ASSUME NEW p \in Proc, \/ GoRemote(p) \/ GoLocal(p) \/ Skip(p) \/ Fetch(p) \/ Put(p)
                                \/ StorePush(p) \/ StoreRef(p) \/ StoreUpdate(p)
                                \/ LocalWrite(p) \/ Fail(p) \/ Reject(p)
         PROVE  MakerInv'
    <2>1. UNCHANGED <<iid, doubled>>
      BY <1>13 DEF GoRemote, GoLocal, Skip, Fetch, Put, StorePush, StoreRef, StoreUpdate,
                   LocalWrite, Fail, Reject, Abort, rowVars, history
    <2>2. Others(p) /\ op'[p].at \notin {"link", "ref"}
      BY <1>13, Continued, Ended, Fetched, Written
    <2>3. QED
      BY <1>8, <2>1, <2>2 DEF Others
  <1>14. ASSUME NEW p \in Proc, Post(p) PROVE MakerInv'
    <2>1. UNCHANGED <<iid, doubled>>
      BY <1>14 DEF Post, rowVars
    <2>2. Others(p)
      BY <1>14, Created
    <2>3. Op1(p)
      <3>1. op[p].kind = "push" => op'[p].iid \in Iid /\ maker'[op'[p].iid] = op'[p].issue
        BY <1>14, Created DEF TypeOK
      <3>2. op[p].kind # "push" => op'[p].at = "insert"
        BY <1>14, Created
      <3>3. QED
        BY <3>1, <3>2 DEF Op1, Makes
    <2>4. QED
      BY <1>4, <1>5, <1>6, <1>7, <2>1, <2>2, <2>3 DEF Others
  <1>15. ASSUME NEW p \in Proc, StorePull(p) PROVE MakerInv'
    <2>1. UNCHANGED doubled
      BY <1>15 DEF StorePull
    <2>2. PICK r \in Issue :
            /\ Others(p) /\ op'[p].at = "ref" /\ op'[p].issue = r /\ op'[p].iid = op[p].iid
            /\ iid[r] = op[p].iid \/ ~Exists(r)
            /\ iid' = [iid EXCEPT ![r] = op[p].iid] /\ op[p].iid # 0
      BY <1>15, Pulled DEF MapInv, PullInv
    <2>3. r \in doubled => iid[r] = op[p].iid
      BY <2>2 DEF MakerInv
    <2>4. \A s \in doubled : iid'[s] = iid[s]
      BY <1>4, <2>2, <2>3 DEF TypeOK
    <2>5. Op1(p)
      <3>1. ASSUME r \in doubled PROVE maker'[op[p].iid] = r
        BY <1>2, <2>2, <2>3, <3>1, MakerStays DEF MakerInv
      <3>2. QED
        BY <2>1, <2>2, <3>1 DEF Op1, Makes
    <2>6. QED
      BY <1>4, <1>5, <1>6, <1>7, <2>1, <2>2, <2>4, <2>5 DEF Others
  <1>16. ASSUME NEW p \in Proc, Link(p) PROVE MakerInv'
    <2>1. UNCHANGED doubled /\ Others(p) /\ op[p].at = "link" /\ op[p].issue \in Issue
      BY <1>16, Continued DEF Link, At, MapInv, OpInv
    <2>2. op[p].iid \in Iid /\ Known(op[p].iid) /\ maker[op[p].iid] = op[p].issue
      BY <1>2, <2>1 DEF MakerInv, Makes, MapInv, OpInv
    <2>3. maker'[op[p].iid] = op[p].issue
      BY <2>2, MakerStays
    <2>4. iid' = [iid EXCEPT ![op[p].issue] = op[p].iid]
      BY <1>16 DEF Link
    <2>5. Row(op[p].issue)
      BY <2>1, <2>3, <2>4 DEF Row, TypeOK
    <2>6. \A s \in Issue \ {op[p].issue} : iid'[s] = iid[s]
      BY <2>4 DEF TypeOK
    <2>7. \A s \in doubled : Row(s)
      BY <1>4, <1>5, <2>5, <2>6
    <2>8. Op1(p)
      BY <1>16, <2>3, Continued DEF Op1
    <2>9. QED
      BY <1>6, <1>7, <2>1, <2>7, <2>8 DEF Others
  <1>17. ASSUME NEW p \in Proc, Insert(p) PROVE MakerInv'
    <2>1. /\ UNCHANGED doubled /\ Others(p) /\ op'[p].at = "idle"
          /\ iid' = [iid EXCEPT ![op[p].issue] = op[p].iid]
      BY <1>17, Ended DEF Insert
    <2>2. op[p].issue \notin doubled
      BY <1>17 DEF Insert, At, MapInv, OpInv, MakerInv
    <2>3. \A s \in doubled : iid'[s] = iid[s]
      BY <1>4, <2>1, <2>2 DEF TypeOK
    <2>4. QED
      BY <1>4, <1>5, <1>6, <1>7, <2>1, <2>3 DEF Others
  <1>18. QED
    BY <1>9, <1>11, <1>12, <1>13, <1>14, <1>15, <1>16, <1>17 DEF Next, Work

-----------------------------------------------------------------------------
(***************************************************************************)
(* Completeness.  A GitLab issue that exists is noted for a pull (or the   *)
(* note was lost), is being pulled, has its row and reference, or was made  *)
(* for a doubled row: each of these gives way only to another.             *)
(***************************************************************************)
Noted(i) == pull_due[i] \/ missed[i]
Pulling(p, i) == op[p].kind = "pull" /\ op[p].iid = i
Mapped(i) == \E r \in Issue : iid[r] = i /\ ref[r] = i

\* Whoever changes GitLab makes its webhook call.
LEMMA WritesAreNoted ==
  ASSUME TypeOK, [Next]_vars, NEW i \in Iid, gitlab'[i] # gitlab[i]
  PROVE  pull_due'[i]
  <1>1. ASSUME NEW j \in Iid, NEW t, GitlabWrites(j, t) PROVE pull_due'[i]
    BY <1>1 DEF GitlabWrites, TypeOK
  <1>2. CASE \E j \in Iid : GitlabEdit(j)
    BY <1>1, <1>2 DEF GitlabEdit
  <1>3. CASE \E p \in Proc : Put(p) \/ Post(p)
    BY <1>1, <1>3, Written, Created
  <1>4. CASE gitlab' = gitlab
    BY <1>4
  <1>5. QED
    BY <1>2, <1>3, <1>4
       DEF Next, Work, vars, Toggle, RequestPull, LosePull, RequestPush, BeginPull, BeginPush,
           BeginUpdate, BeginCreate, GoRemote, GoLocal, Skip, Fetch, StorePull, StorePush, Link,
           StoreRef, StoreUpdate, Insert, LocalWrite, Fail, Reject, Abort

\* A note goes only when a pull begins or has got GitLab's text.
LEMMA NotesStay ==
  ASSUME TypeOK, [Next]_vars, NEW i \in Iid, Noted(i)
  PROVE  \/ Noted(i)'
         \/ \E p \in Proc :
              /\ Pulling(p, i)'
              /\ \/ op'[p].at = "load"
                 \/ Fetch(p) /\ op'[p].at = "store" /\ op'[p].text = gitlab'[i]
  <1> DEFINE Goes == \/ Noted(i)'
                     \/ \E p \in Proc :
                          /\ Pulling(p, i)'
                          /\ \/ op'[p].at = "load"
                             \/ Fetch(p) /\ op'[p].at = "store" /\ op'[p].text = gitlab'[i]
  <1> SUFFICES Goes
    OBVIOUS
  <1>1. ASSUME NEW p \in Proc, NEW j \in Iid, BeginPull(p, j) PROVE Goes
    <2>1. Begin(p, "pull", NoIssue, j, NoText, FALSE)
      BY <1>1 DEF BeginPull
    <2>2. op'[p].kind = "pull" /\ op'[p].iid = j /\ op'[p].at = "load"
      BY <2>1, Begun
    <2>3. i # j => Noted(i)'
      BY <1>1 DEF BeginPull, Noted, TypeOK
    <2>4. QED
      BY <2>2, <2>3 DEF Pulling
  <1>2. ASSUME NEW p \in Proc, Fetch(p) PROVE Goes
    <2>1. /\ op'[p].kind = "pull" /\ op'[p].at = "store" /\ op'[p].iid = op[p].iid
          /\ op'[p].text = gitlab[op[p].iid]
      BY <1>2, Fetched
    <2>2. i # op[p].iid => Noted(i)'
      BY <1>2 DEF Fetch, Noted, TypeOK
    <2>3. gitlab' = gitlab
      BY <1>2 DEF Fetch
    <2>4. QED
      BY <1>2, <2>1, <2>2, <2>3 DEF Pulling
  <1>3. ASSUME NEW j \in Iid, LosePull(j) PROVE Goes
    BY <1>3 DEF LosePull, Noted, TypeOK
  <1>4. ASSUME NEW j \in Iid, NEW t, GitlabWrites(j, t), missed' = missed PROVE Goes
    BY <1>4 DEF GitlabWrites, Noted, TypeOK
  <1>5. CASE \E j \in Iid : GitlabEdit(j)
    BY <1>4, <1>5 DEF GitlabEdit
  <1>6. CASE \E p \in Proc : Put(p) \/ Post(p)
    <2>1. missed' = missed
      BY <1>6 DEF Put, Post
    <2>2. QED
      BY <1>4, <1>6, <2>1, Written, Created
  <1>7. ASSUME NEW j \in Iid, RequestPull(j) PROVE Goes
    BY <1>7 DEF RequestPull, Noted, TypeOK
  <1>8. ASSUME NEW p \in Proc, Skip(p) PROVE Goes
    BY <1>8 DEF Skip, Noted, TypeOK
  <1>9. ASSUME NEW p \in Proc, Fail(p) \/ Reject(p) PROVE Goes
    BY <1>9 DEF Fail, Reject, Abort, Noted, TypeOK
  <1>10. CASE UNCHANGED <<pull_due, missed>>
    BY <1>10 DEF Noted
  <1>11. QED
    BY <1>1, <1>2, <1>3, <1>5, <1>6, <1>7, <1>8, <1>9, <1>10
       DEF Next, Work, vars, queueVars, Toggle, RequestPush, BeginPush,
           BeginUpdate, BeginCreate, GoRemote, GoLocal, StorePull, StorePush, Link,
           StoreRef, StoreUpdate, Insert, LocalWrite

\* A pull goes on, is noted again, or has stored the reference.
LEMMA PullsGoOn ==
  ASSUME TypeOK, MapInv, [Next]_vars, NEW i \in Iid, NEW p \in Proc, Pulling(p, i)
  PROVE  \/ Noted(i)'
         \/ op'[p] = op[p]
         \/ Pulling(p, i)' /\ (GoRemote(p) \/ Fetch(p) \/ StorePull(p))
         \/ StoreRef(p)
  <1>1. op[p] # Idle /\ op[p] \in Op
    BY EmptyValues DEF Pulling, TypeOK
  <1>2. ASSUME NEW q \in Proc, NEW kind, NEW r, NEW j, NEW t, NEW event,
               Begin(q, kind, r, j, t, event)
        PROVE  op'[p] = op[p]
    BY <1>1, <1>2, Begun DEF Others
  <1>3. CASE \E q \in Proc, r \in Issue : \/ \E j \in Iid : BeginPull(q, j)
                                         \/ BeginPush(q, r) \/ BeginUpdate(q, r)
                                         \/ BeginCreate(q, r)
    BY <1>2, <1>3 DEF BeginPull, BeginPush, BeginUpdate, BeginCreate
  <1>4. ASSUME NEW q \in Proc, q # p, Work(q) \/ Fail(q) PROVE op'[p] = op[p]
    BY <1>4, Ended, Continued, Fetched, Written, Created, Pulled DEF Work, Others
  <1>5. CASE Fail(p) \/ Reject(p)
    BY <1>5 DEF Fail, Reject, Abort, Pulling, Noted
  <1>6. CASE Skip(p)
    BY <1>6 DEF Skip, Pulling, Noted, TypeOK
  <1>7. CASE GoRemote(p) \/ Fetch(p) \/ StorePull(p) \/ StoreRef(p)
    BY <1>7, Continued, Fetched, Pulled DEF Pulling
  <1>8. CASE GoLocal(p) \/ Put(p) \/ Post(p) \/ StorePush(p) \/ Link(p) \/ StoreUpdate(p)
             \/ Insert(p)
    BY <1>8 DEF GoLocal, Put, Post, StorePush, Link, StoreUpdate, Insert, At, Pulling
  <1>9. CASE LocalWrite(p)
    BY <1>9 DEF LocalWrite, Pulling, MapInv, OpInv
  <1>10. CASE UNCHANGED op
    BY <1>10
  <1>11. QED
    BY <1>3, <1>4, <1>5, <1>6, <1>7, <1>8, <1>9, <1>10
       DEF Next, Work, vars, Toggle, GitlabEdit, RequestPull, LosePull, RequestPush, Issue

\* Made for a row that two pushes had at once.
Spare(i) == maker[i] \in doubled

MappedInv ==
  \A i \in Iid : Known(i) => \/ Noted(i) \/ Mapped(i) \/ Spare(i)
                              \/ \E p \in Proc : Pulling(p, i)

\* A mapped issue stays mapped, unless its row is doubled.
LEMMA MappedStays ==
  ASSUME TypeOK, TypeOK', MapInv, NumberInv, MakerInv, MakerInv', [Next]_vars,
         NEW i \in Iid, Mapped(i)
  PROVE  Mapped(i)' \/ Spare(i)'
  <1>1. PICK r \in Issue : iid[r] = i /\ ref[r] = i
    BY DEF Mapped
  <1>2. MapInv' /\ KeepsNumbers /\ doubled \subseteq doubled'
    BY MapStep
  <1>3. CASE r \in doubled
    <2>1. maker[i] = r /\ Known(i)
      BY <1>1, <1>3, IidFacts DEF MakerInv, NumberInv
    <2>2. maker'[i] = r
      BY <2>1, MakerStays
    <2>3. QED
      BY <1>2, <1>3, <2>2 DEF Spare
  <1>4. CASE r \in doubled' /\ r \notin doubled
    <2>1. iid'[r] = i
      BY <1>1, <1>2, <1>4, IidFacts DEF KeepsNumbers
    <2>2. maker'[i] = r
      BY <1>4, <2>1, IidFacts DEF MakerInv
    <2>3. QED
      BY <1>4, <2>2 DEF Spare
  <1>5. CASE r \notin doubled' /\ r \notin doubled
    <2>1. iid'[r] = i
      BY <1>1, <1>2, <1>5, IidFacts DEF KeepsNumbers
    <2>2. ref'[r] \in {0, i}
      BY <1>2, <1>5, <2>1 DEF MapInv, RowInv
    <2>3. ASSUME NEW p \in Proc, StoreRef(p) PROVE ref'[r] # 0
      <3>1. op[p].iid # 0
        BY <2>3 DEF StoreRef, MapInv, OpInv
      <3>2. QED
        BY <1>1, <2>3, <3>1, IidFacts DEF StoreRef, TypeOK
    <2>4. UNCHANGED ref \/ \E p \in Proc : StoreRef(p)
      BY DEF Next, Work, vars, rowVars, Toggle, GitlabEdit, RequestPull, LosePull, RequestPush,
             BeginPull, BeginPush, BeginUpdate, BeginCreate, GoRemote, GoLocal, Skip, Fetch,
             Put, Post, StorePull, StorePush, Link, StoreUpdate, Insert, LocalWrite, Fail,
             Reject, Abort
    <2>5. ref'[r] = i
      BY <1>1, <2>2, <2>3, <2>4, IidFacts
    <2>6. QED
      BY <2>1, <2>5 DEF Mapped
  <1>6. QED
    BY <1>3, <1>4, <1>5

\* The reference that a pull stores is the last thing its issue lacked.
LEMMA PullMaps ==
  ASSUME TypeOK, MapInv, NumberInv, MakerInv, [Next]_vars, NEW i \in Iid, NEW p \in Proc,
         Pulling(p, i), StoreRef(p)
  PROVE  Mapped(i)' \/ Spare(i)'
  <1>1. op[p].issue \in Issue /\ (iid[op[p].issue] = i \/ op[p].issue \in doubled)
    BY DEF StoreRef, MapInv, OpInv, Pulling
  <1>2. CASE iid[op[p].issue] = i
    <2>1. iid'[op[p].issue] = i /\ ref'[op[p].issue] = i
      BY <1>1, <1>2 DEF StoreRef, TypeOK, Pulling
    <2>2. QED
      BY <1>1, <2>1 DEF Mapped
  <1>3. CASE op[p].issue \in doubled
    <2>1. maker[i] = op[p].issue /\ Known(i)
      BY <1>3, IidFacts DEF StoreRef, Pulling, MakerInv, Makes, NumberInv
    <2>2. QED
      BY <1>3, <2>1, MakerStays DEF StoreRef, Spare
  <1>4. QED
    BY <1>1, <1>2, <1>3

\* Every step keeps MappedInv.
LEMMA MappedStep ==
  /\ TypeOK /\ TypeOK' /\ MapInv /\ NumberInv /\ MakerInv /\ MakerInv'
  /\ MappedInv /\ [Next]_vars
  => MappedInv'
  <1> SUFFICES ASSUME TypeOK, TypeOK', MapInv, NumberInv, MakerInv, MakerInv', MappedInv,
                      [Next]_vars, NEW i \in Iid, Known(i)'
               PROVE  \/ Noted(i)' \/ Mapped(i)' \/ Spare(i)'
                      \/ \E p \in Proc : Pulling(p, i)'
    BY DEF MappedInv
  <1>1. CASE gitlab'[i] # gitlab[i]
    BY <1>1, WritesAreNoted DEF Noted
  <1>2. CASE Noted(i)
    BY <1>2, NotesStay
  <1>3. CASE Mapped(i)
    BY <1>3, MappedStays
  <1>4. ASSUME NEW p \in Proc, Pulling(p, i)
        PROVE  Noted(i)' \/ Mapped(i)' \/ Spare(i)' \/ Pulling(p, i)'
    BY <1>4, PullsGoOn, PullMaps DEF Pulling
  <1>5. CASE Spare(i) /\ Known(i)
    BY <1>5, MakerStays, MapStep DEF Spare
  <1>6. gitlab'[i] = gitlab[i] => Known(i)
    BY DEF Known
  <1>7. QED
    BY <1>1, <1>2, <1>3, <1>4, <1>5, <1>6 DEF MappedInv

-----------------------------------------------------------------------------
(***************************************************************************)
(* All of this together.                                                   *)
(***************************************************************************)
FullInv == Inv /\ NumberInv /\ BodyInv /\ MakerInv /\ MappedInv

\* Nothing is known of GitLab at first.
LEMMA FullInit == Init => FullInv
  <1> SUFFICES ASSUME Init PROVE FullInv
    OBVIOUS
  <1>1. Inv
    BY InitType, MapInit DEF Inv
  <1>2. NumberInv /\ BodyInv
    BY EmptyValues DEF Init, NumberInv, BodyInv, Exists, Known
  <1>3. MakerInv
    BY EmptyValues DEF Init, MakerInv, Makes
  <1>4. MappedInv
    BY DEF Init, MappedInv, Known
  <1>5. QED
    BY <1>1, <1>2, <1>3, <1>4 DEF FullInv

\* Every step keeps it all.
LEMMA FullStep == FullInv /\ [Next]_vars => FullInv'
  <1> SUFFICES ASSUME FullInv, [Next]_vars PROVE FullInv'
    OBVIOUS
  <1>1. TypeOK /\ MapInv /\ NumberInv /\ BodyInv /\ MakerInv /\ MappedInv
    BY DEF FullInv, Inv
  <1>2. TypeOK' /\ MapInv'
    BY <1>1, TypeStep, MapStep
  <1>3. NumberInv' /\ BodyInv' /\ MakerInv'
    BY <1>1, NumberStep, BodyStep, MakerStep
  <1>4. MappedInv'
    BY <1>1, <1>2, <1>3, MappedStep
  <1>5. QED
    BY <1>2, <1>3, <1>4 DEF FullInv, Inv

\* So it holds throughout.
LEMMA FullInvariant == Spec => []FullInv
  BY FullInit, FullStep, PTL DEF Spec

\* No GitLab issue is forgotten, whatever activities overlap: as long as it has
\* no row with its reference, a pull job is due or runs, or is known to have
\* been lost, or the issue came of two pushes at once of a row without a number.
THEOREM IssuesAreMapped == Spec => []EveryIssueIsMapped
  <1>1. FullInv => EveryIssueIsMapped
    BY DEF FullInv, MappedInv, EveryIssueIsMapped, Known, Noted, Mapped, Pulling, Spare
  <1>2. QED
    BY <1>1, FullInvariant, PTL

-----------------------------------------------------------------------------
(***************************************************************************)
(* Duplicates.  Of the GitLab issues made for a row, all but the one that  *)
(* it has, or that its push is about to store, were wasted; it takes a     *)
(* failure to waste one, or a pull that gives it a row of its own.         *)
(***************************************************************************)
Linking(p, r, i) == op[p].at = "link" /\ op[p].issue = r /\ op[p].iid = i
Held(r) == {i \in Iid : iid[r] = i \/ \E p \in Proc : Linking(p, r, i)}
Waste(r) == Copies(r) \ Held(r)

WasteInv == \A r \in Issue \ doubled : Cardinality(Waste(r)) <= failures

\* There are finitely many numbers.
LEMMA IidFinite == IsFiniteSet(Iid) /\ \A S : S \subseteq Iid => IsFiniteSet(S)
  <1>1. IsFiniteSet(Iid)
    BY ConstantsAssumption, FS_Interval DEF Iid
  <1>2. QED
    BY <1>1, FS_Subset

\* One element more.
LEMMA OneMore ==
  ASSUME NEW S, IsFiniteSet(S), NEW x
  PROVE  /\ IsFiniteSet(S \cup {x}) /\ Cardinality(S \cup {x}) \in Nat
         /\ Cardinality(S \cup {x}) <= Cardinality(S) + 1
  <1>1. Cardinality(S) \in Nat
    BY FS_CardinalityType
  <1>2. /\ IsFiniteSet(S \cup {x})
        /\ Cardinality(S \cup {x}) = IF x \in S THEN Cardinality(S) ELSE Cardinality(S) + 1
    BY FS_AddElement
  <1>3. QED
    BY <1>1, <1>2

\* An activity that is about to link its row goes on to do so, or fails.
LEMMA LinksGoOn ==
  ASSUME TypeOK, [Next]_vars, NEW p \in Proc, op[p].at = "link"
  PROVE  op'[p] = op[p] \/ Link(p) \/ Reject(p) \/ Fail(p)
  <1>1. op[p] # Idle
    BY EmptyValues
  <1>2. ASSUME NEW q \in Proc, NEW kind, NEW r, NEW i, NEW t, NEW event,
               Begin(q, kind, r, i, t, event)
        PROVE  op'[p] = op[p]
    BY <1>1, <1>2, Begun DEF Others
  <1>3. CASE \E q \in Proc : \/ \E i \in Iid : BeginPull(q, i)
                             \/ \E r \in Issue : BeginPush(q, r) \/ BeginUpdate(q, r)
                             \/ \E r \in ApiIssue : BeginCreate(q, r)
    BY <1>2, <1>3 DEF BeginPull, BeginPush, BeginUpdate, BeginCreate
  <1>4. ASSUME NEW q \in Proc, q # p, Work(q) \/ Fail(q) PROVE op'[p] = op[p]
    BY <1>4, Ended, Continued, Fetched, Written, Created, Pulled DEF Work, Others
  <1>5. Work(p) => Link(p) \/ Reject(p)
    BY DEF Work, GoRemote, GoLocal, Skip, Fetch, Put, Post, StorePull, StorePush, StoreRef,
           StoreUpdate, Insert, LocalWrite, At
  <1>6. CASE UNCHANGED op
    BY <1>6
  <1>7. QED
    BY <1>3, <1>4, <1>5, <1>6
       DEF Next, vars, Toggle, GitlabEdit, RequestPull, LosePull, RequestPush

\* What a step newly wastes, a failure wastes.
LEMMA WasteGrows ==
  ASSUME TypeOK, TypeOK', MapInv, NumberInv, MakerInv, [Next]_vars,
         NEW r \in Issue, r \notin doubled', NEW k \in Iid, k \in Waste(r)', k \notin Waste(r)
  PROVE  \E p \in Proc : Fail(p) /\ op[p].iid = k
  <1>1. KeepsNumbers /\ r \notin doubled
    BY MapStep
  <1>2. /\ maker'[k] = r /\ \A s \in Issue \ {r} : iid'[s] # k
        /\ iid'[r] # k /\ \A p \in Proc : ~Linking(p, r, k)'
    BY DEF Waste, Copies, Held, Taken
  <1>3. maker[k] = r
    <2>1. ASSUME NEW p \in Proc, Post(p), maker'[k] # maker[k] PROVE FALSE
      <3>1. /\ op[p].kind = "push" /\ op'[p].at = "link" /\ op'[p].issue = op[p].issue
            /\ op'[p].iid = k /\ maker'[k] = op[p].issue
        BY <2>1, Created DEF TypeOK
      <3>2. QED
        BY <1>2, <3>1 DEF Linking
    <2>2. UNCHANGED maker \/ \E p \in Proc : Post(p)
      BY DEF Next, Work, vars, history, Toggle, GitlabEdit, RequestPull, LosePull, RequestPush,
             BeginPull, BeginPush, BeginUpdate, BeginCreate, GoRemote, GoLocal, Skip, Fetch,
             Put, StorePull, StorePush, Link, StoreRef, StoreUpdate, Insert, LocalWrite, Fail,
             Reject, Abort
    <2>3. QED
      BY <1>2, <2>1, <2>2
  <1>4. \A s \in Issue \ {r} : iid[s] # k
    <2>1. ASSUME NEW s \in Issue \ {r}, iid[s] = k PROVE FALSE
      <3>1. s \notin doubled
        BY <1>3, <2>1, IidFacts DEF MakerInv
      <3>2. iid'[s] = k
        BY <1>1, <2>1, <3>1, IidFacts DEF KeepsNumbers
      <3>3. QED
        BY <1>2, <3>2
    <2>2. QED
      BY <2>1
  <1>5. iid[r] # k
    BY <1>1, <1>2, IidFacts DEF KeepsNumbers
  <1>6. PICK p \in Proc : Linking(p, r, k)
    BY <1>3, <1>4, <1>5 DEF Waste, Copies, Held, Taken
  <1>7. op'[p] # op[p]
    BY <1>2, <1>6 DEF Linking
  <1>8. ~Link(p)
    BY <1>2, <1>6 DEF Link, Linking, TypeOK
  <1>9. ~Reject(p)
    BY <1>4, <1>6 DEF Reject, Linking, Taken
  <1>10. QED
    BY <1>6, <1>7, <1>8, <1>9, LinksGoOn DEF Linking

\* Every step keeps WasteInv.
LEMMA WasteStep ==
  ASSUME TypeOK, TypeOK', MapInv, NumberInv, MakerInv, WasteInv, [Next]_vars
  PROVE  WasteInv'
  <1> SUFFICES ASSUME NEW r \in Issue, r \notin doubled'
               PROVE  Cardinality(Waste(r)') <= failures'
    BY DEF WasteInv
  <1>1. r \notin doubled
    BY MapStep
  <1>2. /\ Waste(r) \subseteq Iid /\ Waste(r)' \subseteq Iid
        /\ IsFiniteSet(Waste(r)) /\ IsFiniteSet(Waste(r)')
    BY IidFinite DEF Waste, Copies
  <1>3. Cardinality(Waste(r)) \in Nat /\ Cardinality(Waste(r)') \in Nat /\ failures \in Nat
    BY <1>2, FS_CardinalityType DEF TypeOK
  <1>4. Cardinality(Waste(r)) <= failures
    BY <1>1 DEF WasteInv
  <1>5. ASSUME NEW p \in Proc, Fail(p) PROVE Cardinality(Waste(r)') <= failures'
    <2>1. ASSUME NEW q \in Proc, Fail(q) PROVE q = p
      BY <1>5, <2>1, Ended DEF Fail, Others
    <2>2. Waste(r)' \subseteq Waste(r) \cup {op[p].iid}
      BY <1>2, <2>1, WasteGrows
    <2>3. /\ IsFiniteSet(Waste(r) \cup {op[p].iid})
          /\ Cardinality(Waste(r) \cup {op[p].iid}) \in Nat
          /\ Cardinality(Waste(r) \cup {op[p].iid}) <= Cardinality(Waste(r)) + 1
      BY <1>2, OneMore
    <2>4. Cardinality(Waste(r)') <= Cardinality(Waste(r) \cup {op[p].iid})
      BY <2>2, <2>3, FS_Subset
    <2>5. failures' = failures + 1
      BY <1>5 DEF Fail
    <2>6. QED
      BY <1>3, <1>4, <2>3, <2>4, <2>5
  <1>6. ASSUME \A p \in Proc : ~Fail(p) PROVE Cardinality(Waste(r)') <= failures'
    <2>1. Waste(r)' \subseteq Waste(r)
      BY <1>2, <1>6, WasteGrows
    <2>2. Cardinality(Waste(r)') <= Cardinality(Waste(r))
      BY <1>2, <2>1, FS_Subset
    <2>3. UNCHANGED failures
      BY <1>6
         DEF Next, Work, vars, Toggle, GitlabEdit, RequestPull, LosePull, RequestPush,
             BeginPull, BeginPush, BeginUpdate, BeginCreate, GoRemote, GoLocal, Skip, Fetch,
             Put, Post, StorePull, StorePush, Link, StoreRef, StoreUpdate, Insert, LocalWrite,
             Reject
    <2>4. QED
      BY <1>3, <1>4, <2>2, <2>3
  <1>7. QED
    BY <1>5, <1>6

\* A row costs at most one GitLab issue more than calls have failed, whatever
\* overlaps: the retry of a push that was not interrupted finds its number.  The
\* exceptions are two pushes at once of a row without a number, and a pull that
\* gives the new issue a row of its own before the push has stored its number.
THEOREM DuplicatesCostFailures == Spec => []DuplicatesNeedFailures
  <1>1. Init => WasteInv
    <2> SUFFICES ASSUME Init, NEW r \in Issue PROVE Cardinality(Waste(r)) <= failures
      BY DEF WasteInv
    <2>1. Waste(r) = {}
      BY IidFacts DEF Init, Waste, Copies
    <2>2. QED
      BY <2>1, FS_EmptySet DEF Init
  <1>2. FullInv /\ FullInv' /\ WasteInv /\ [Next]_vars => WasteInv'
    BY WasteStep DEF FullInv, Inv
  <1>3. FullInv /\ WasteInv => DuplicatesNeedFailures
    <2> SUFFICES ASSUME FullInv, WasteInv, NEW r \in Issue, r \notin doubled
                 PROVE  Cardinality(Copies(r)) <= 1 + failures
      BY DEF DuplicatesNeedFailures
    <2>1. TypeOK /\ MapInv
      BY DEF FullInv, Inv
    <2>2. ASSUME NEW i \in Held(r), NEW k \in Held(r) PROVE i = k
      <3>1. ASSUME NEW p \in Proc, op[p].at = "link", op[p].issue = r
            PROVE  Unlinked(p) /\ iid[r] = 0
        BY <2>1, <3>1 DEF MapInv, OpInv, Unlinked
      <3>2. ASSUME NEW p \in Proc, NEW q \in Proc, op[p].at = "link", op[p].issue = r,
                   op[q].at = "link", op[q].issue = r
            PROVE  p = q
        BY <2>1, <3>1, <3>2 DEF MapInv, Distinct
      <3>3. QED
        BY <2>2, <3>1, <3>2, IidFacts DEF Held, Linking
    <2>3. IsFiniteSet(Copies(r)) /\ IsFiniteSet(Waste(r)) /\ Cardinality(Waste(r)) <= failures
      BY IidFinite DEF Waste, Copies, WasteInv
    <2>4. Cardinality(Waste(r)) \in Nat /\ failures \in Nat /\ Cardinality(Copies(r)) \in Nat
      BY <2>1, <2>3, FS_CardinalityType DEF TypeOK
    <2>5. CASE Held(r) = {}
      <3>1. Copies(r) = Waste(r)
        BY <2>5 DEF Waste
      <3>2. QED
        BY <2>3, <2>4, <3>1
    <2>6. ASSUME NEW k \in Held(r) PROVE Cardinality(Copies(r)) <= 1 + failures
      <3>1. Copies(r) \subseteq Waste(r) \cup {k}
        BY <2>2, <2>6 DEF Waste
      <3>2. /\ IsFiniteSet(Waste(r) \cup {k}) /\ Cardinality(Waste(r) \cup {k}) \in Nat
            /\ Cardinality(Waste(r) \cup {k}) <= Cardinality(Waste(r)) + 1
        BY <2>3, OneMore
      <3>3. Cardinality(Copies(r)) <= Cardinality(Waste(r) \cup {k})
        BY <3>1, <3>2, FS_Subset
      <3>4. QED
        BY <2>3, <2>4, <3>2, <3>3
    <2>7. QED
      BY <2>5, <2>6
  <1>4. QED
    BY <1>1, <1>2, <1>3, FullInvariant, PTL DEF Spec

-----------------------------------------------------------------------------
(***************************************************************************)
(* Activities that have their issue for themselves.  One that is not       *)
(* crossed is the only one to know its row and its GitLab issue, and what  *)
(* it has read of the row's number stays true; a number that GitLab has    *)
(* just given is in no other hands.                                        *)
(***************************************************************************)
Apart(p, q) ==
  /\ op[p].issue = op[q].issue => op[p].issue = NoIssue
  /\ op[p].iid = op[q].iid => op[p].iid = 0
  /\ op[p].issue # NoIssue /\ op[q].iid # 0 => iid[op[p].issue] # op[q].iid
  /\ op[q].issue # NoIssue /\ op[p].iid # 0 => iid[op[q].issue] # op[p].iid

Holds(p) ==
  op[p].issue # NoIssue /\ op[p].at \notin {"link", "insert"} => iid[op[p].issue] = op[p].iid

SerialInv ==
  \A p \in Proc \ crossed : Holds(p) /\ \A q \in Proc \ {p} : Apart(p, q)

\* Only activity p and the number of one row have changed: what activity p is
\* to the others, and what the row was to them, decides.
LEMMA SerialFrame ==
  ASSUME SerialInv, NEW p \in Proc, Others(p),
         \A q \in Proc \ {p} : q \in crossed => q \in crossed',
         p \notin crossed' => Holds(p)',
         \A q \in Proc \ {p} : p \notin crossed' \/ q \notin crossed' => Apart(p, q)',
         \A q \in Proc \ {p} : q \notin crossed =>
            /\ op[q].issue # NoIssue => iid'[op[q].issue] = iid[op[q].issue]
            /\ \A s \in Proc \ {p, q} :
                 op[s].issue # NoIssue /\ op[q].iid # 0 =>
                   \/ iid'[op[s].issue] = iid[op[s].issue]
                   \/ iid'[op[s].issue] # op[q].iid
  PROVE  SerialInv'
  <1> SUFFICES ASSUME NEW q \in Proc, q \notin crossed'
               PROVE  Holds(q)' /\ \A s \in Proc \ {q} : Apart(q, s)'
    BY DEF SerialInv
  <1>1. CASE q = p
    BY <1>1
  <1>2. CASE q # p
    <2>1. q \notin crossed /\ op'[q] = op[q] /\ Holds(q)
      BY <1>2 DEF Others, SerialInv
    <2>2. Holds(q)'
      BY <1>2, <2>1 DEF Holds
    <2>3. Apart(q, p)'
      <3>1. Apart(p, q)'
        BY <1>2
      <3>2. QED
        BY <3>1 DEF Apart
    <2>4. ASSUME NEW s \in Proc \ {p, q} PROVE Apart(q, s)'
      <3>1. op'[s] = op[s] /\ Apart(q, s)
        BY <2>1, <2>4 DEF Others, SerialInv
      <3>2. QED
        BY <1>2, <2>1, <2>4, <3>1 DEF Apart
    <2>5. QED
      BY <1>2, <2>2, <2>3, <2>4
  <1>3. QED
    BY <1>1, <1>2

\* Activity p keeps its issue and number, or gives them up.
LEMMA SerialMove ==
  ASSUME SerialInv, NEW p \in Proc, Others(p), UNCHANGED iid,
         \/ /\ op'[p].issue = NoIssue /\ op'[p].iid = 0
            /\ crossed' = crossed \ {p}
         \/ /\ op'[p].issue = op[p].issue /\ op'[p].iid = op[p].iid
            /\ op[p].at \in {"load", "remote"}
            /\ crossed' = crossed
  PROVE  SerialInv'
  <1>1. p \notin crossed' => Holds(p)'
    BY DEF Holds, SerialInv
  <1>2. ASSUME NEW q \in Proc \ {p}, p \notin crossed' \/ q \notin crossed' PROVE Apart(p, q)'
    <2>1. CASE op'[p].issue = NoIssue /\ op'[p].iid = 0
      BY <2>1 DEF Apart, Others
    <2>2. CASE /\ op'[p].issue = op[p].issue /\ op'[p].iid = op[p].iid /\ crossed' = crossed
      <3>1. Apart(p, q)
        <4>1. Apart(p, q) \/ Apart(q, p)
          BY <1>2, <2>2 DEF SerialInv
        <4>2. QED
          BY <4>1 DEF Apart
      <3>2. QED
        BY <2>2, <3>1 DEF Apart, Others
    <2>3. QED
      BY <2>1, <2>2
  <1>3. QED
    BY <1>1, <1>2, SerialFrame

\* An activity that is not crossed begins with a row and a number that nobody
\* works on, and nobody is crossed who had them for himself.
LEMMA SerialBegin ==
  ASSUME TypeOK, SerialInv, UNCHANGED iid,
         NEW p \in Proc, NEW kind, NEW r, NEW i, NEW t, NEW event,
         Begin(p, kind, r, i, t, event),
         r # NoIssue => iid[r] = i
  PROVE  SerialInv'
  <1>1. /\ Others(p) /\ op'[p].at = "load" /\ op'[p].issue = r /\ op'[p].iid = i
        /\ \A q \in Proc : q \in crossed => q \in crossed'
        /\ \A q \in Proc : Touches(q, r, i) => q \in crossed' /\ p \in crossed'
    BY Begun
  <1>2. Holds(p)'
    BY <1>1 DEF Holds
  <1>3. ASSUME NEW q \in Proc \ {p}, p \notin crossed' \/ q \notin crossed' PROVE Apart(p, q)'
    <2>1. ~Touches(q, r, i) /\ op'[q] = op[q]
      BY <1>1, <1>3 DEF Others
    <2>2. QED
      BY <1>1, <2>1 DEF Apart, Touches
  <1>4. QED
    BY <1>1, <1>2, <1>3, SerialFrame

\* Activity p numbers row r, which nobody who is not crossed works on; so it is
\* with the number.
LEMMA SerialWrite ==
  ASSUME TypeOK, SerialInv, NEW p \in Proc, Others(p), NEW r \in Issue,
         iid' = [iid EXCEPT ![r] = op[p].iid], op[p].iid # 0,
         \A q \in Proc \ {p} : p \notin crossed \/ q \notin crossed => op[q].issue # r,
         \/ op'[p].issue = NoIssue /\ op'[p].iid = 0 /\ crossed' = crossed \ {p}
         \/ op'[p].issue = r /\ op'[p].iid = op[p].iid /\ crossed' = crossed
  PROVE  SerialInv'
  <1>1. iid'[r] = op[p].iid /\ \A s \in Issue \ {r} : iid'[s] = iid[s]
    BY DEF TypeOK
  <1>2. Holds(p)'
    BY <1>1 DEF Holds
  <1>3. \A q \in Proc : op[q].issue # NoIssue => op[q].issue \in Issue
    BY EmptyValues DEF TypeOK, Op
  <1>4. ASSUME NEW q \in Proc \ {p}, p \notin crossed \/ q \notin crossed
        PROVE  Apart(p, q)
    <2>1. Apart(p, q) \/ Apart(q, p)
      BY <1>4 DEF SerialInv
    <2>2. QED
      BY <2>1 DEF Apart
  <1>5. ASSUME NEW q \in Proc \ {p}, p \notin crossed' \/ q \notin crossed' PROVE Apart(p, q)'
    <2>1. CASE op'[p].issue = NoIssue /\ op'[p].iid = 0
      BY <2>1 DEF Apart, Others
    <2>2. CASE op'[p].issue = r /\ op'[p].iid = op[p].iid /\ crossed' = crossed
      <3>1. Apart(p, q) /\ op[q].issue # r /\ op'[q] = op[q]
        BY <1>4, <1>5, <2>2 DEF Others
      <3>2. op[q].issue # NoIssue => iid'[op[q].issue] = iid[op[q].issue]
        BY <1>1, <1>3, <3>1
      <3>3. QED
        BY <1>1, <2>2, <3>1, <3>2 DEF Apart
    <2>3. QED
      BY <2>1, <2>2
  <1>6. ASSUME NEW q \in Proc \ {p}, q \notin crossed
        PROVE  /\ op[q].issue # NoIssue => iid'[op[q].issue] = iid[op[q].issue]
               /\ \A s \in Proc \ {p, q} :
                    op[s].issue # NoIssue /\ op[q].iid # 0 =>
                      \/ iid'[op[s].issue] = iid[op[s].issue]
                      \/ iid'[op[s].issue] # op[q].iid
    <2>1. op[q].issue # r /\ Apart(p, q)
      BY <1>4, <1>6
    <2>2. op[q].iid # 0 => op[q].iid # op[p].iid
      BY <2>1 DEF Apart
    <2>3. QED
      BY <1>1, <1>3, <2>1, <2>2
  <1>7. \A q \in Proc \ {p} : q \in crossed => q \in crossed'
    OBVIOUS
  <1>8. QED
    BY <1>2, <1>5, <1>6, <1>7, SerialFrame

\* Every step keeps SerialInv.
LEMMA SerialStep ==
  ASSUME TypeOK, MapInv, NumberInv, SerialInv, [Next]_vars
  PROVE  SerialInv'
  <1>1. CASE UNCHANGED <<op, iid, crossed>>
    BY <1>1 DEF SerialInv, Apart, Holds
  <1>2. ASSUME NEW p \in Proc,
               \/ \E i \in Iid : BeginPull(p, i)
               \/ \E r \in Issue : BeginPush(p, r) \/ BeginUpdate(p, r)
               \/ \E r \in ApiIssue : BeginCreate(p, r)
        PROVE  SerialInv'
    <2>1. ASSUME NEW i \in Iid, BeginPull(p, i) PROVE SerialInv'
      BY <2>1, SerialBegin DEF BeginPull, rowVars
    <2>2. ASSUME NEW r \in Issue, BeginPush(p, r) PROVE SerialInv'
      BY <2>2, SerialBegin DEF BeginPush, rowVars
    <2>3. ASSUME NEW r \in Issue, BeginUpdate(p, r) PROVE SerialInv'
      <3>1. PICK t, event : Begin(p, "update", r, iid[r], t, event)
        BY <2>3 DEF BeginUpdate
      <3>2. UNCHANGED iid
        BY <2>3 DEF BeginUpdate, rowVars
      <3>3. QED
        BY <3>1, <3>2, SerialBegin
    <2>4. ASSUME NEW r \in ApiIssue, BeginCreate(p, r) PROVE SerialInv'
      <3>1. iid[r] = 0
        BY <2>4 DEF BeginCreate, MapInv, RowInv, Issue
      <3>2. QED
        BY <2>4, <3>1, SerialBegin DEF BeginCreate, rowVars
    <2>5. QED
      BY <1>2, <2>1, <2>2, <2>3, <2>4
  <1>3. ASSUME NEW p \in Proc,
               \/ Skip(p) \/ StorePush(p) \/ StoreRef(p) \/ StoreUpdate(p)
               \/ LocalWrite(p) \/ Reject(p) \/ Fail(p)
        PROVE  SerialInv'
    <2>1. UNCHANGED iid
      BY <1>3 DEF Skip, StorePush, StoreRef, StoreUpdate, LocalWrite, Reject, Fail, Abort,
                  rowVars
    <2>2. QED
      BY <1>3, <2>1, Ended, SerialMove
  <1>4. ASSUME NEW p \in Proc, GoRemote(p) \/ GoLocal(p) \/ Fetch(p) \/ Put(p)
        PROVE  SerialInv'
    <2>1. UNCHANGED iid
      BY <1>4 DEF GoRemote, GoLocal, Fetch, Put, rowVars
    <2>2. QED
      BY <1>4, <2>1, Continued, Fetched, Written, SerialMove
  <1>5. ASSUME NEW p \in Proc, Post(p) PROVE SerialInv'
    <2>1. /\ Others(p) /\ op[p].iid = 0 /\ crossed' = crossed
          /\ op'[p].issue = op[p].issue
          /\ op'[p].at \in {"link", "insert"} /\ op'[p].iid \in Iid /\ NextIid(op'[p].iid)
      BY <1>5, Created
    <2>2. PICK i \in Iid : i = op'[p].iid
      BY <2>1
    <2>3. ~Known(i)
      BY <2>1, <2>2, NextIsNew
    <2>4. UNCHANGED iid
      BY <1>5 DEF Post, rowVars
    <2>5. \A s \in Issue : iid[s] # i
      BY <2>3, IidFacts DEF NumberInv
    <2>6. \A q \in Proc : op[q].iid # i
      BY <2>3, IidFacts DEF NumberInv
    <2>7. Holds(p)'
      BY <2>1 DEF Holds
    <2>8. \A q \in Proc : op[q].issue # NoIssue => op[q].issue \in Issue
      BY EmptyValues DEF TypeOK, Op
    <2>9. ASSUME NEW q \in Proc \ {p}, p \notin crossed' \/ q \notin crossed'
          PROVE  Apart(p, q)'
      <3>1. Apart(p, q) \/ Apart(q, p)
        BY <2>1, <2>9 DEF SerialInv
      <3>2. op'[q] = op[q]
        BY <2>1, <2>9 DEF Others
      <3>3. QED
        BY <2>1, <2>2, <2>4, <2>5, <2>6, <2>8, <3>1, <3>2 DEF Apart
    <2>10. QED
      BY <2>1, <2>4, <2>7, <2>9, SerialFrame
  <1>6. ASSUME NEW p \in Proc, StorePull(p) PROVE SerialInv'
    <2>1. PICK r \in Issue :
            /\ Others(p) /\ op[p] \in Op /\ op[p].kind = "pull" /\ crossed' = crossed
            /\ op'[p].at = "ref" /\ op'[p].issue = r /\ op'[p].iid = op[p].iid
            /\ iid[r] = op[p].iid \/ (r = op[p].iid /\ ~Exists(r))
            /\ iid' = [iid EXCEPT ![r] = op[p].iid]
      BY <1>6, Pulled
    <2>2. op[p].iid # 0
      BY <2>1 DEF MapInv, PullInv
    <2>3. ASSUME NEW q \in Proc \ {p}, p \notin crossed \/ q \notin crossed, op[q].issue = r
          PROVE  FALSE
      <3>1. Apart(p, q) \/ Apart(q, p)
        BY <2>3 DEF SerialInv
      <3>2. iid[r] # op[p].iid
        BY <2>2, <2>3, <3>1, IidFacts DEF Apart
      <3>3. r = op[p].iid /\ ~Exists(r) /\ r \notin ApiIssue
        BY <2>1, <2>2, <3>2, IidFacts DEF Op
      <3>4. op[q] \in Op /\ OpInv(q)
        BY <2>3, IidFacts, EmptyValues DEF TypeOK, MapInv
      <3>5. op[q].kind = "pull" /\ op[q].at = "ref"
        BY <2>3, <3>3, <3>4, IidFacts DEF OpInv, Op, Kind
      <3>6. QED
        BY <2>3, <3>3, <3>4, <3>5 DEF OpInv
    <2>4. QED
      BY <2>1, <2>2, <2>3, SerialWrite
  <1>7. ASSUME NEW p \in Proc, Link(p) \/ Insert(p) PROVE SerialInv'
    <2>1. PICK r \in Issue : r = op[p].issue
      BY <1>7 DEF Link, Insert, At, MapInv, OpInv, Issue
    <2>2. op[p].iid # 0 /\ iid' = [iid EXCEPT ![r] = op[p].iid]
      BY <1>7, <2>1 DEF Link, Insert, At, MapInv, OpInv
    <2>3. \A q \in Proc \ {p} : p \notin crossed \/ q \notin crossed => op[q].issue # r
      BY <2>1, IidFacts DEF SerialInv, Apart
    <2>4. /\ Others(p)
          /\ \/ op'[p].issue = NoIssue /\ op'[p].iid = 0 /\ crossed' = crossed \ {p}
             \/ op'[p].issue = r /\ op'[p].iid = op[p].iid /\ crossed' = crossed
      BY <1>7, <2>1, Continued, Ended
    <2>5. QED
      BY <2>2, <2>3, <2>4, SerialWrite
  <1>8. ASSUME NEW p \in Proc, Work(p) \/ Fail(p) PROVE SerialInv'
    BY <1>3, <1>4, <1>5, <1>6, <1>7, <1>8 DEF Work
  <1>9. CASE \/ UNCHANGED vars \/ Toggle
             \/ \E i \in Iid : GitlabEdit(i) \/ RequestPull(i) \/ LosePull(i)
             \/ \E r \in Issue : RequestPush(r)
    BY <1>1, <1>9 DEF vars, rowVars, history, Toggle, GitlabEdit, RequestPull, LosePull,
                      RequestPush
  <1>10. QED
    BY <1>2, <1>8, <1>9 DEF Next

-----------------------------------------------------------------------------
(***************************************************************************)
(* Idle rows.  A row that is idle has GitLab's text, unless its issue is   *)
(* noted for a pull or a pull has not written it yet; and whoever is about *)
(* to call a row idle has GitLab's text, or has seen to the note.  Crossed *)
(* activities, and the rows that they wrote last, are left out.            *)
(***************************************************************************)
IdleRow(r) ==
  sync_state[r] = "idle" /\ iid[r] # 0 =>
    \/ Noted(iid[r]) \/ text[r] = gitlab[iid[r]]
    \/ \E p \in Proc : Pulling(p, iid[r]) /\ op[p].at # "ref"

Fetches(p) == op[p].kind = "pull" /\ op[p].at = "store"
Answered(p) == \/ op[p].kind \in {"push", "update"} /\ op[p].at = "store"
               \/ op[p].at \in {"link", "insert"}

Informed(p) ==
  /\ Fetches(p) => Noted(op[p].iid) \/ op[p].text = gitlab[op[p].iid]
  /\ Answered(p) => op[p].iid # 0 /\ Noted(op[p].iid)

IdleInv ==
  /\ \A r \in Issue \ blurred : IdleRow(r)
  /\ \A p \in Proc \ crossed : Informed(p)

\* How an activity comes to be about to write.
LEMMA Arrivals ==
  ASSUME TypeOK, [Next]_vars, NEW p \in Proc
  PROVE  /\ Fetches(p)' => op'[p] = op[p] \/ Fetch(p)
         /\ Answered(p)' => op'[p] = op[p] \/ Put(p) \/ Post(p)
  <1> DEFINE Arrives == /\ Fetches(p)' => op'[p] = op[p] \/ Fetch(p)
                        /\ Answered(p)' => op'[p] = op[p] \/ Put(p) \/ Post(p)
  <1>1. ASSUME NEW q \in Proc, NEW kind, NEW r, NEW i, NEW t, NEW event,
               Begin(q, kind, r, i, t, event)
        PROVE  Arrives
    BY <1>1, Begun DEF Others, Fetches, Answered
  <1>2. CASE \E q \in Proc : \/ \E i \in Iid : BeginPull(q, i)
                             \/ \E r \in Issue : BeginPush(q, r) \/ BeginUpdate(q, r)
                             \/ \E r \in ApiIssue : BeginCreate(q, r)
    BY <1>1, <1>2 DEF BeginPull, BeginPush, BeginUpdate, BeginCreate
  <1>3. ASSUME NEW q \in Proc, q # p, Work(q) \/ Fail(q) PROVE op'[p] = op[p]
    BY <1>3, Ended, Continued, Fetched, Written, Created, Pulled DEF Work, Others
  <1>4. ASSUME Work(p) \/ Fail(p), ~Fetch(p), ~Put(p), ~Post(p) PROVE Arrives
    BY <1>4, Ended, Continued, Pulled DEF Work, Fetches, Answered
  <1>5. ASSUME Fetch(p) PROVE Arrives
    BY <1>5, Fetched DEF Fetches, Answered
  <1>6. ASSUME Put(p) PROVE Arrives
    BY <1>6, Written DEF Fetches, Answered
  <1>7. ASSUME Post(p) PROVE Arrives
    BY <1>7, Created DEF Fetches, Answered
  <1>8. CASE \E q \in Proc : Work(q) \/ Fail(q)
    BY <1>3, <1>4, <1>5, <1>6, <1>7, <1>8
  <1>9. CASE UNCHANGED op
    BY <1>9
  <1>10. QED
    BY <1>2, <1>8, <1>9
       DEF Next, vars, Toggle, GitlabEdit, RequestPull, LosePull, RequestPush

\* Only an activity that ends is no longer crossed.
LEMMA CrossedStays ==
  ASSUME TypeOK, [Next]_vars, NEW p \in Proc, p \in crossed, p \notin crossed'
  PROVE  op'[p] = Idle
  <1>1. ASSUME NEW q \in Proc, NEW kind, NEW r, NEW i, NEW t, NEW event,
               Begin(q, kind, r, i, t, event)
        PROVE  FALSE
    BY <1>1, Begun
  <1>2. CASE \E q \in Proc : \/ \E i \in Iid : BeginPull(q, i)
                             \/ \E r \in Issue : BeginPush(q, r) \/ BeginUpdate(q, r)
                             \/ \E r \in ApiIssue : BeginCreate(q, r)
    BY <1>1, <1>2 DEF BeginPull, BeginPush, BeginUpdate, BeginCreate
  <1>3. CASE \E q \in Proc : Work(q) \/ Fail(q)
    BY <1>3, Ended, Continued, Fetched, Written, Created, Pulled DEF Work
  <1>4. CASE UNCHANGED crossed
    BY <1>4
  <1>5. QED
    BY <1>2, <1>3, <1>4
       DEF Next, vars, history, Toggle, GitlabEdit, RequestPull, LosePull, RequestPush

\* Every step leaves those about to write informed: only the activity itself
\* may take the note of its issue away, and then it has just asked GitLab.
LEMMA InformedStep ==
  ASSUME TypeOK, TypeOK', PullInv, SerialInv', IdleInv, [Next]_vars, NEW p \in Proc,
         p \notin crossed'
  PROVE  Informed(p)'
  <1> DEFINE NextNoted(i) == pull_due'[i] \/ missed'[i]
  <1>1. ASSUME op'[p] = op[p], op[p].iid \in Iid, Noted(op[p].iid), Fetches(p) \/ Answered(p)
        PROVE  \/ NextNoted(op[p].iid)
               \/ Fetches(p)' /\ op'[p].text = gitlab'[op[p].iid]
    <2>1. PICK i \in Iid : i = op[p].iid
      BY <1>1
    <2>2. ASSUME NEW q \in Proc, Pulling(q, i)',
                 \/ op'[q].at = "load"
                 \/ op'[q].at = "store" /\ op'[q].text = gitlab'[i]
          PROVE  Fetches(p)' /\ op'[p].text = gitlab'[i]
      <3>1. p = q
        BY <1>1, <2>1, <2>2, IidFacts DEF SerialInv, Apart, Pulling
      <3>2. QED
        BY <1>1, <2>2, <3>1 DEF Pulling, Fetches, Answered
    <2>3. Noted(i)' => NextNoted(i)
      BY DEF Noted
    <2>4. QED
      BY <1>1, <2>1, <2>2, <2>3, NotesStay
  <1>2. op'[p] = op[p] /\ op[p] # Idle => p \notin crossed
    BY CrossedStays
  <1>3. ASSUME Fetches(p)' PROVE NextNoted(op'[p].iid) \/ op'[p].text = gitlab'[op'[p].iid]
    <2>1. CASE Fetch(p)
      BY <2>1, Fetched DEF Fetch
    <2>2. CASE op'[p] = op[p]
      <3>1. op[p] # Idle /\ op[p] \in Op /\ op[p].iid # 0 /\ Fetches(p)
        BY <1>3, <2>2, EmptyValues DEF Fetches, TypeOK, PullInv
      <3>2. op[p].iid \in Iid
        BY <3>1 DEF Op
      <3>3. CASE Noted(op[p].iid)
        BY <1>1, <2>2, <3>1, <3>2, <3>3
      <3>4. CASE op[p].text = gitlab[op[p].iid]
        <4>1. gitlab'[op[p].iid] # gitlab[op[p].iid] => pull_due'[op[p].iid]
          BY <3>2, WritesAreNoted
        <4>2. QED
          BY <2>2, <3>4, <4>1
      <3>5. QED
        BY <1>2, <2>2, <3>1, <3>3, <3>4 DEF IdleInv, Informed
    <2>3. QED
      BY <1>3, <2>1, <2>2, Arrivals
  <1>4. ASSUME Answered(p)' PROVE op'[p].iid # 0 /\ NextNoted(op'[p].iid)
    <2>1. ASSUME op'[p].iid \in Iid, NEW t, GitlabWrites(op'[p].iid, t)
          PROVE  op'[p].iid # 0 /\ NextNoted(op'[p].iid)
      BY <2>1, IidFacts DEF GitlabWrites, TypeOK
    <2>2. CASE Put(p) \/ Post(p)
      BY <2>1, <2>2, Written, Created
    <2>3. CASE op'[p] = op[p]
      <3>1. Answered(p) /\ ~Fetches(p)' /\ op[p] # Idle
        BY <1>4, <2>3, EmptyValues DEF Answered, Fetches
      <3>2. op[p].iid # 0 /\ Noted(op[p].iid)
        BY <1>2, <2>3, <3>1 DEF IdleInv, Informed
      <3>3. op[p].iid \in Iid
        BY <3>2, EmptyValues DEF TypeOK, Op
      <3>4. QED
        BY <1>1, <2>3, <3>1, <3>2, <3>3
    <2>4. QED
      BY <1>4, <2>2, <2>3, Arrivals
  <1>5. QED
    BY <1>3, <1>4 DEF Informed, Noted

\* What holds of row r if its number is i: the right-hand side of IdleRow.
Excused(r, i) ==
  \/ Noted(i) \/ text[r] = gitlab[i]
  \/ \E p \in Proc : Pulling(p, i) /\ op[p].at # "ref"

\* The pull that stores what it has fetched has the row with its number agree.
LEMMA PulledRow ==
  ASSUME TypeOK, MapInv, IdleInv, NumberInv', NEW p \in Proc, StorePull(p), NEW r \in Issue,
         NEW i \in Iid, iid'[r] = i, op[p].iid = i, r \notin blurred'
  PROVE  Excused(r, i)'
  <1>1. PICK s \in Issue :
          /\ iid' = [iid EXCEPT ![s] = op[p].iid] /\ text' = [text EXCEPT ![s] = op[p].text]
          /\ op[p].kind = "pull" /\ op[p].at = "store" /\ Writes(p, s, "idle")
    BY Pulled
  <1>2. r = s
    BY <1>1, IidFacts DEF NumberInv, TypeOK
  <1>3. text'[r] = op[p].text
    BY <1>1, <1>2 DEF TypeOK
  <1>4. Noted(i) \/ op[p].text = gitlab[i]
    BY <1>1, <1>2 DEF IdleInv, Informed, Fetches, Writes
  <1>5. UNCHANGED <<gitlab, pull_due, missed>>
    BY DEF StorePull, queueVars
  <1>6. QED
    BY <1>3, <1>4, <1>5 DEF Noted, Excused

\* A step that leaves an idle row alone.
LEMMA KeptRow ==
  ASSUME TypeOK, MapInv, IdleInv, NumberInv', [Next]_vars, NEW r \in Issue, NEW i \in Iid,
         r \notin blurred, r \notin blurred',
         iid[r] = i, sync_state[r] = "idle", text'[r] = text[r], iid'[r] = i
  PROVE  Excused(r, i)'
  <1>1. CASE Noted(i)
    BY <1>1, NotesStay DEF Excused
  <1>2. CASE text[r] = gitlab[i]
    BY <1>2, WritesAreNoted DEF Excused, Noted
  <1>3. ASSUME NEW p \in Proc, Pulling(p, i), op[p].at # "ref" PROVE Excused(r, i)'
    <2>1. CASE Noted(i)'
      BY <2>1 DEF Excused
    <2>2. CASE op'[p] = op[p]
      BY <1>3, <2>2 DEF Excused, Pulling
    <2>3. CASE Pulling(p, i)' /\ (GoRemote(p) \/ Fetch(p))
      <3>1. op'[p].at # "ref"
        BY <2>3, Continued, Fetched
      <3>2. QED
        BY <2>3, <3>1 DEF Excused
    <2>4. CASE StorePull(p)
      BY <1>3, <2>4, PulledRow DEF Pulling
    <2>5. CASE StoreRef(p)
      BY <1>3, <2>5 DEF StoreRef
    <2>6. QED
      BY <1>3, <2>1, <2>2, <2>3, <2>4, <2>5, PullsGoOn
  <1>4. QED
    BY <1>1, <1>2, <1>3, IidFacts DEF IdleInv, IdleRow

\* A step that writes a row.
LEMMA WrittenRow ==
  ASSUME TypeOK, MapInv, SerialInv, IdleInv, NumberInv', NEW p \in Proc, Work(p),
         NEW r \in Issue, NEW i \in Iid,
         r \notin blurred', sync_state'[r] = "idle", iid'[r] = i,
         ~(r \notin blurred /\ sync_state[r] = "idle" /\ iid[r] = i /\ text'[r] = text[r])
  PROVE  Excused(r, i)'
  <1>1. CASE StorePull(p)
    <2>1. PICK s \in Issue :
            /\ iid' = [iid EXCEPT ![s] = op[p].iid] /\ text' = [text EXCEPT ![s] = op[p].text]
            /\ Writes(p, s, "idle")
      BY <1>1, Pulled
    <2>2. r = s /\ op[p].iid = i
      BY <2>1 DEF TypeOK, Writes
    <2>3. QED
      BY <1>1, <2>2, PulledRow
  <1>2. ASSUME Answered(p), UNCHANGED <<pull_due, missed>>, Writes(p, op[p].issue, "idle"),
               op[p].issue = r /\ p \notin crossed => op[p].iid = i,
               \A s \in Issue \ {op[p].issue} : iid'[s] = iid[s] /\ text'[s] = text[s]
        PROVE  Excused(r, i)'
    <2>1. op[p].issue = r
      BY <1>2 DEF Writes, TypeOK
    <2>2. p \notin crossed
      BY <1>2, <2>1 DEF Writes
    <2>3. Noted(i)
      BY <1>2, <2>1, <2>2 DEF IdleInv, Informed
    <2>4. QED
      BY <1>2, <2>3 DEF Excused, Noted
  <1>3. CASE StorePush(p) \/ StoreUpdate(p)
    <2>1. Answered(p)
      BY <1>3 DEF StorePush, StoreUpdate, At, Answered
    <2>2. /\ op[p].issue \in Issue
          /\ p \notin crossed => iid[op[p].issue] = op[p].iid
      BY <1>3, IidFacts DEF StorePush, StoreUpdate, At, MapInv, OpInv, SerialInv, Holds
    <2>3. UNCHANGED <<iid, pull_due, missed>> /\ Writes(p, op[p].issue, "idle")
      BY <1>3 DEF StorePush, StoreUpdate, queueVars
    <2>4. \A s \in Issue \ {op[p].issue} : text'[s] = text[s]
      BY <1>3 DEF StorePush, StoreUpdate, TypeOK
    <2>5. QED
      BY <1>2, <2>1, <2>2, <2>3, <2>4
  <1>4. CASE Link(p) \/ Insert(p)
    <2>1. Answered(p)
      BY <1>4 DEF Link, Insert, At, Answered
    <2>2. op[p].issue \in Issue
      BY <1>4 DEF Link, Insert, At, MapInv, OpInv, Issue
    <2>3. /\ iid' = [iid EXCEPT ![op[p].issue] = op[p].iid] /\ UNCHANGED <<pull_due, missed>>
          /\ Writes(p, op[p].issue, "idle")
      BY <1>4 DEF Link, Insert, queueVars
    <2>4. \A s \in Issue \ {op[p].issue} : text'[s] = text[s]
      BY <1>4 DEF Link, Insert, TypeOK
    <2>5. QED
      BY <1>2, <2>1, <2>2, <2>3, <2>4 DEF TypeOK
  <1>5. CASE LocalWrite(p)
    BY <1>5 DEF LocalWrite, Writes, TypeOK
  <1>6. CASE UNCHANGED <<iid, text, sync_state, blurred>>
    BY <1>6
  <1>7. QED
    BY <1>1, <1>3, <1>4, <1>5, <1>6
       DEF Work, rowVars, history, GoRemote, GoLocal, Skip, Fetch, Put, Post, StoreRef, Reject,
           Abort

\* Every step keeps IdleInv.
LEMMA IdleStep ==
  ASSUME TypeOK, TypeOK', MapInv, SerialInv, SerialInv', NumberInv', IdleInv, [Next]_vars
  PROVE  IdleInv'
  <1>1. ASSUME NEW r \in Issue, NEW i \in Iid, r \notin blurred', sync_state'[r] = "idle",
               iid'[r] = i
        PROVE  Excused(r, i)'
    <2>1. CASE /\ r \notin blurred /\ sync_state[r] = "idle" /\ iid[r] = i
               /\ text'[r] = text[r]
      BY <1>1, <2>1, KeptRow
    <2>2. CASE \E p \in Proc : Work(p)
      BY <1>1, <2>1, <2>2, WrittenRow
    <2>3. CASE UNCHANGED <<iid, text, sync_state, blurred>>
      BY <1>1, <2>1, <2>3
    <2>4. QED
      BY <2>2, <2>3
         DEF Next, vars, rowVars, history, Toggle, GitlabEdit, RequestPull, LosePull,
             RequestPush, BeginPull, BeginPush, BeginUpdate, BeginCreate, Fail, Abort
  <1>2. ASSUME NEW r \in Issue, r \notin blurred' PROVE IdleRow(r)'
    <2>1. PICK i \in Iid \cup {0} : iid'[r] = i
      BY DEF TypeOK
    <2>2. CASE sync_state'[r] = "idle" /\ i # 0
      <3>1. Excused(r, i)'
        BY <1>1, <1>2, <2>1, <2>2
      <3>2. QED
        BY <2>1, <3>1 DEF IdleRow, Excused, Noted, Pulling
    <2>3. CASE ~(sync_state'[r] = "idle" /\ i # 0)
      BY <2>1, <2>3 DEF IdleRow
    <2>4. QED
      BY <2>2, <2>3
  <1>3. \A p \in Proc : p \notin crossed' => Informed(p)'
    BY InformedStep DEF MapInv
  <1>4. QED
    BY <1>2, <1>3 DEF IdleInv

\* An idle row that nobody works on has GitLab's text, unless a pull of its issue
\* is due or was lost, or the last to write it had to share the issue: whoever
\* writes, on either side, wherever an activity fails and whatever overlaps, the
\* last to call the row idle has told the truth.
THEOREM IdleIsSynced == Spec => []IdleMeansSynced
  <1>1. Init => SerialInv /\ IdleInv
    BY EmptyValues
       DEF Init, SerialInv, Apart, Holds, IdleInv, IdleRow, Informed, Fetches, Answered
  <1>2. FullInv /\ FullInv' /\ SerialInv /\ IdleInv /\ [Next]_vars => SerialInv' /\ IdleInv'
    BY SerialStep, IdleStep DEF FullInv, Inv
  <1>3. IdleInv => IdleMeansSynced
    <2> SUFFICES ASSUME IdleInv, NEW r \in Issue, r \notin blurred,
                        sync_state[r] = "idle", iid[r] # 0, ~pull_due[iid[r]], ~missed[iid[r]],
                        \A p \in Proc : ~Touches(p, r, iid[r])
                 PROVE  text[r] = gitlab[iid[r]]
      BY DEF IdleMeansSynced
    <2>1. \A p \in Proc : op[p].iid # iid[r]
      BY DEF Touches
    <2>2. QED
      BY <2>1 DEF IdleInv, IdleRow, Noted, Pulling
  <1>4. QED
    BY <1>1, <1>2, <1>3, FullInvariant, PTL DEF Spec

=============================================================================
