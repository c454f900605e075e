--------------------------- MODULE Services_proofs ---------------------------
(***************************************************************************)
(* Theorems about the five components of MCServices, each for all values   *)
(* of its constants: every behaviour of MCServices is one of each          *)
(* component, and what holds of the component holds of it.                 *)
(***************************************************************************)
EXTENDS MCServices, FiniteSetTheorems, SequenceTheorems, WellFoundedInduction, TLAPS

-----------------------------------------------------------------------------
(***************************************************************************)
(* Invitations.                                                            *)
(***************************************************************************)
InvitationType ==
  /\ istatus \in [I!Row -> {"absent", "pending", "accepted"}]
  /\ itoken \in [I!Row -> Nat] /\ mail \in [I!Row -> Nat]
  /\ user \in BOOLEAN /\ vanished \in BOOLEAN
  /\ irows \in 0 .. MaxRows /\ tokens \in Nat
  /\ ipc \in [Request -> {"idle", "select", "write", "mail"}]
  /\ on \in [Request -> I!Row \cup {I!NoRow}]
  /\ held \in [Request -> Nat]
  /\ \A r \in Request : ipc[r] = "mail" => on[r] # I!NoRow
  /\ vpc \in [Visitor -> {"idle", "insert", "commit"}]
  /\ reads \in [Visitor -> I!Row \cup {I!NoRow}]
  /\ \A v \in Visitor : vpc[v] # "idle" => reads[v] # I!NoRow
  /\ undisturbed \subseteq I!Row

\* The unique email lets one visitor at a time to the end, and nobody once the
\* user exists; a row that is not inserted yet cannot be accepted.
AcceptedInv ==
  /\ \A v, w \in Visitor : vpc[v] = "commit" /\ vpc[w] = "commit" => v = w
  /\ \A v \in Visitor : vpc[v] = "commit" => ~user
  /\ \A i, j \in I!Row : istatus[i] = "accepted" /\ istatus[j] = "accepted" => i = j
  /\ \A i \in I!Row : istatus[i] = "accepted" => user
  /\ \A i \in I!Row : i > irows => istatus[i] = "absent"
  /\ user /\ ~vanished => \E i \in I!Row : istatus[i] = "accepted"

\* The link of an undisturbed row is either queued or in the hands of the one
\* request that is to queue it.
Mails(r, i) == ipc[r] = "mail" /\ on[r] = i

Linked(i) ==
  /\ \A r, q \in Request : Mails(r, i) /\ Mails(q, i) => r = q
  /\ \A r \in Request : Mails(r, i) => istatus[i] # "absent" /\ held[r] = itoken[i]
  /\ (\A r \in Request : ~Mails(r, i)) =>
       mail[i] = IF istatus[i] = "absent" THEN 0 ELSE itoken[i]

LinkInv == \A i \in undisturbed : Linked(i)

\* There is a newest row among any rows.
LEMMA Newest ==
  ASSUME NEW R, R \subseteq 1 .. MaxRows, R # {}
  PROVE  \E i \in R : \A j \in R : j <= i
  <1> DEFINE younger == {MaxRows - i : i \in R}
  <1>1. younger \subseteq Nat /\ younger # {}
    <2>1. \A i \in R : MaxRows - i \in Nat
      BY Bounds
    <2>2. QED
      BY <2>1
  <1>2. PICK least \in younger : \A k \in younger : <<k, least>> \notin OpToRel(<, Nat)
    BY <1>1, WFMin, NatLessThanWellFounded, Zenon
  <1>3. ASSUME NEW k \in younger PROVE ~(k < least)
    <2> HIDE DEF younger
    <2>1. <<k, least>> \in Nat \X Nat
      BY <1>1
    <2>2. k < least => <<k, least>> \in OpToRel(<, Nat)
      BY <2>1, Zenon DEF OpToRel
    <2>3. QED
      BY <1>2, <2>2
  <1>4. PICK i \in R : least = MaxRows - i
    OBVIOUS
  <1>5. ASSUME NEW j \in R PROVE j <= i
    <2>1. MaxRows - j \in younger
      OBVIOUS
    <2>2. ~(MaxRows - j < MaxRows - i)
      BY <1>3, <1>4, <2>1
    <2>3. i \in Nat /\ j \in Nat /\ MaxRows \in Nat
      BY Bounds
    <2>4. QED
      BY <2>2, <2>3
  <1>6. QED
    BY <1>5

LEMMA InvitationTypeStep == InvitationType /\ [I!Next]_(I!vars) => InvitationType'
  <1> SUFFICES ASSUME InvitationType, [I!Next]_(I!vars) PROVE InvitationType'
    OBVIOUS
  <1> USE Bounds DEF InvitationType, I!NoRow, I!rowVars, I!requestVars, I!visitorVars
  <1>0. I!Row \subseteq 1 .. MaxRows /\ \A i \in 0 .. MaxRows : i < MaxRows => i + 1 \in I!Row
    BY DEF I!Row
  <1>1. CASE UNCHANGED I!vars
    BY <1>1 DEF I!vars
  <1>2. ASSUME NEW r \in Request, I!Check(r) PROVE InvitationType'
    BY <1>2 DEF I!Check
  <1>3. ASSUME NEW r \in Request, I!Select(r) PROVE InvitationType'
    <2>1. ASSUME NEW R \in SUBSET I!Row, R # {}
          PROVE  (CHOOSE i \in R : \A j \in R : j <= i) \in R
      BY <1>0, <2>1, Newest
    <2>2. on' \in [Request -> I!Row \cup {I!NoRow}]
      BY <1>3, <2>1 DEF I!Select
    <2>3. QED
      BY <1>3, <2>2 DEF I!Select
  <1>4. ASSUME NEW r \in Request, NEW i \in I!Row, I!Write(r, i)
        PROVE  /\ itoken' \in [I!Row -> Nat] /\ tokens' \in Nat
               /\ ipc' \in [Request -> {"idle", "select", "write", "mail"}]
               /\ on' \in [Request -> I!Row \cup {I!NoRow}] /\ held' \in [Request -> Nat]
               /\ \A q \in Request : ipc'[q] = "mail" => on'[q] # I!NoRow
               /\ undisturbed' \subseteq I!Row
    BY <1>0, <1>4 DEF I!Write
  <1>5. ASSUME NEW r \in Request, I!Renew(r) PROVE InvitationType'
    <2>1. on[r] \in I!Row
      BY <1>5 DEF I!Renew
    <2>2. QED
      BY <1>4, <1>5, <2>1 DEF I!Renew
  <1>6. ASSUME NEW r \in Request, I!Insert(r) PROVE InvitationType'
    <2>1. irows + 1 \in I!Row
      BY <1>0, <1>6 DEF I!Insert
    <2>2. QED
      BY <1>4, <1>6, <2>1 DEF I!Insert
  <1>7. ASSUME NEW r \in Request, NEW i \in I!Row, I!Resend(r, i) PROVE InvitationType'
    BY <1>4, <1>7 DEF I!Resend
  <1>8. ASSUME NEW r \in Request, I!Enqueue(r) PROVE InvitationType'
    BY <1>8 DEF I!Enqueue, I!Ends
  <1>9. ASSUME NEW r \in Request, I!RequestFails(r) PROVE InvitationType'
    BY <1>9 DEF I!RequestFails, I!Ends
  <1>10. ASSUME NEW i \in I!Row, I!Delete(i) \/ I!Expire(i) PROVE InvitationType'
    BY <1>10 DEF I!Delete, I!Expire
  <1>11. ASSUME NEW v \in Visitor, NEW i \in I!Row, I!Read(v, i) PROVE InvitationType'
    BY <1>0, <1>11 DEF I!Read
  <1>12. ASSUME NEW v \in Visitor, I!InsertUser(v) PROVE InvitationType'
    BY <1>12 DEF I!InsertUser
  <1>13. ASSUME NEW v \in Visitor, I!Commit(v) PROVE InvitationType'
    BY <1>13 DEF I!Commit, I!Leaves
  <1>14. ASSUME NEW v \in Visitor, I!VisitFails(v) PROVE InvitationType'
    BY <1>14 DEF I!VisitFails, I!Leaves
  <1>15. QED
    BY <1>1, <1>2, <1>3, <1>5, <1>6, <1>7, <1>8, <1>9, <1>10, <1>11, <1>12, <1>13, <1>14 DEF I!Next

LEMMA AcceptedStep == InvitationType /\ AcceptedInv /\ [I!Next]_(I!vars) => AcceptedInv'
  <1> SUFFICES ASSUME InvitationType, AcceptedInv, [I!Next]_(I!vars) PROVE AcceptedInv'
    OBVIOUS
  <1> USE Bounds DEF AcceptedInv, InvitationType, I!rowVars, I!visitorVars
  <1>0. I!Row \subseteq Nat /\ I!NoRow \notin I!Row
    BY DEF I!Row, I!NoRow
  <1>1. CASE UNCHANGED I!vars
    BY <1>1 DEF I!vars
  <1>2. ASSUME NEW r \in Request,
               I!Check(r) \/ I!Select(r) \/ I!Renew(r) \/ I!Enqueue(r) \/ I!RequestFails(r)
        PROVE  AcceptedInv'
    BY <1>2 DEF I!Check, I!Select, I!Renew, I!Enqueue, I!RequestFails
  <1>3. ASSUME NEW r \in Request, I!Insert(r) PROVE AcceptedInv'
    <2>1. /\ irows' = irows + 1 /\ istatus[irows + 1] # "accepted"
          /\ istatus' = [istatus EXCEPT ![irows + 1] = "pending"]
          /\ UNCHANGED <<user, vpc, reads, vanished>>
      BY <1>3 DEF I!Insert, I!Row
    <2>2. \A i \in I!Row : istatus'[i] = "accepted" <=> istatus[i] = "accepted"
      BY <2>1
    <2>3. \A i \in I!Row : i > irows' => istatus'[i] = "absent"
      BY <1>0, <2>1
    <2>4. QED
      BY <2>1, <2>2, <2>3
  <1>4. ASSUME NEW r \in Request, NEW i \in I!Row, I!Resend(r, i) PROVE AcceptedInv'
    <2>1. istatus' = istatus /\ UNCHANGED <<irows, user, vpc, reads, vanished>>
      BY <1>4 DEF I!Resend
    <2>2. QED
      BY <2>1
  <1>5. ASSUME NEW i \in I!Row, I!Delete(i) \/ I!Expire(i) PROVE AcceptedInv'
    <2>1. /\ UNCHANGED <<irows, user, vpc, reads, vanished>>
          /\ \A j \in I!Row : /\ istatus'[j] \in {istatus[j], "absent"}
                              /\ istatus[j] = "accepted" => istatus'[j] = "accepted"
      BY <1>5 DEF I!Delete, I!Expire
    <2>2. QED
      BY <2>1
  <1>6. ASSUME NEW v \in Visitor, NEW i \in I!Row, I!Read(v, i) PROVE AcceptedInv'
    BY <1>6 DEF I!Read
  <1>7. ASSUME NEW v \in Visitor, I!InsertUser(v) PROVE AcceptedInv'
    BY <1>7 DEF I!InsertUser
  <1>8. ASSUME NEW v \in Visitor, I!Commit(v) PROVE AcceptedInv'
    <2>1. /\ reads[v] \in I!Row /\ user' = TRUE /\ ~user /\ irows' = irows
          /\ vpc' = [vpc EXCEPT ![v] = "idle"]
          /\ vanished' = (istatus[reads[v]] = "absent")
          /\ \A j \in I!Row : istatus[j] # "accepted"
          /\ \A j \in I!Row :
               istatus'[j] = IF j = reads[v] /\ istatus[j] # "absent" THEN "accepted" ELSE istatus[j]
      BY <1>0, <1>8 DEF I!Commit, I!Leaves
    <2>2. \A w \in Visitor : vpc'[w] # "commit"
      BY <1>8, <2>1 DEF I!Commit
    <2>3. QED
      BY <2>1, <2>2
  <1>9. ASSUME NEW v \in Visitor, I!VisitFails(v) PROVE AcceptedInv'
    BY <1>9 DEF I!VisitFails, I!Leaves
  <1>10. QED
    BY <1>1, <1>2, <1>3, <1>4, <1>5, <1>6, <1>7, <1>8, <1>9 DEF I!Next

\* A write leaves the row with one request that holds its token, unless another
\* is to mail it, too.
LEMMA WriteLinks ==
  ASSUME InvitationType, LinkInv, NEW r \in Request, NEW i \in I!Row, I!Write(r, i),
         ipc[r] # "mail", mail' = mail, istatus'[i] # "absent",
         \A j \in I!Row \ {i} : istatus'[j] = istatus[j]
  PROVE  LinkInv'
  <1>1. /\ undisturbed' \subseteq undisturbed \cup {i}
        /\ i \in undisturbed' => \A q \in Request : ~Mails(q, i)
    BY DEF I!Write, I!Mailing, Mails
  <1>2. /\ \A j \in I!Row \ {i} : itoken'[j] = itoken[j]
        /\ \A q \in Request, j \in I!Row : Mails(q, j)' <=> IF q = r THEN j = i ELSE Mails(q, j)
        /\ \A q \in Request \ {r} : held'[q] = held[q]
        /\ held'[r] = itoken'[i] /\ \A j \in I!Row : ~Mails(r, j)
    BY DEF I!Write, Mails, InvitationType
  <1>3. ASSUME i \in undisturbed' PROVE Linked(i)'
    BY <1>1, <1>2, <1>3 DEF Linked
  <1>4. ASSUME NEW j \in undisturbed', j # i PROVE Linked(j)'
    <2>1. j \in I!Row /\ Linked(j) /\ mail'[j] = mail[j]
          /\ istatus'[j] = istatus[j] /\ itoken'[j] = itoken[j]
          /\ \A q \in Request : /\ Mails(q, j)' <=> Mails(q, j)
                                /\ Mails(q, j) => held'[q] = held[q]
      BY <1>1, <1>2, <1>4 DEF LinkInv, InvitationType
    <2>2. QED
      BY <2>1 DEF Linked
  <1>5. QED
    BY <1>3, <1>4 DEF LinkInv

\* Steps that leave a row, its token and its job alone.
LEMMA LinkKept ==
  ASSUME NEW i, Linked(i), mail'[i] = mail[i], itoken'[i] = itoken[i],
         istatus'[i] = "absent" <=> istatus[i] = "absent",
         \A r \in Request : /\ Mails(r, i)' <=> Mails(r, i)
                            /\ Mails(r, i) => held'[r] = held[r]
  PROVE  Linked(i)'
  BY DEF Linked

LEMMA LinkStep == InvitationType /\ AcceptedInv /\ LinkInv /\ [I!Next]_(I!vars) => LinkInv'
  <1> SUFFICES ASSUME InvitationType, AcceptedInv, LinkInv, [I!Next]_(I!vars) PROVE LinkInv'
    OBVIOUS
  <1> USE DEF I!rowVars, I!requestVars, I!visitorVars
  <1>0. undisturbed \subseteq I!Row /\ \A r \in Request : ipc[r] = "mail" => on[r] \in I!Row
    BY DEF InvitationType
  <1>1. CASE UNCHANGED I!vars
    BY <1>1 DEF I!vars, LinkInv, Linked, Mails
  <1>2. ASSUME NEW r \in Request, I!Check(r) \/ I!Select(r) PROVE LinkInv'
    <2>1. /\ UNCHANGED <<istatus, itoken, mail, held, undisturbed>>
          /\ \A q \in Request, j \in I!Row : Mails(q, j)' <=> Mails(q, j)
      BY <1>2 DEF I!Check, I!Select, Mails, InvitationType
    <2>2. QED
      BY <1>0, <2>1, LinkKept DEF LinkInv
  <1>3. ASSUME NEW r \in Request, I!Renew(r) PROVE LinkInv'
    <2>1. /\ on[r] \in I!Row /\ I!Write(r, on[r]) /\ ipc[r] = "write"
          /\ UNCHANGED <<istatus, mail>> /\ istatus[on[r]] # "absent"
      BY <1>3 DEF I!Renew, InvitationType
    <2>2. QED
      BY <2>1, WriteLinks
  <1>4. ASSUME NEW r \in Request, I!Insert(r) PROVE LinkInv'
    <2>1. /\ irows + 1 \in I!Row /\ I!Write(r, irows + 1) /\ ipc[r] = "write" /\ mail' = mail
          /\ istatus' = [istatus EXCEPT ![irows + 1] = "pending"]
      BY <1>4, Bounds DEF I!Insert, InvitationType, I!Row
    <2>2. istatus'[irows + 1] = "pending"
          /\ \A j \in I!Row \ {irows + 1} : istatus'[j] = istatus[j]
      BY <2>1 DEF InvitationType
    <2>3. QED
      BY <2>1, <2>2, WriteLinks
  <1>5. ASSUME NEW r \in Request, NEW i \in I!Row, I!Resend(r, i) PROVE LinkInv'
    <2>1. /\ I!Write(r, i) /\ ipc[r] = "idle" /\ mail' = mail /\ istatus'[i] = "pending"
          /\ \A j \in I!Row \ {i} : istatus'[j] = istatus[j]
      BY <1>5 DEF I!Resend, InvitationType
    <2>2. QED
      BY <2>1, WriteLinks
  <1>6. ASSUME NEW r \in Request, I!Enqueue(r) PROVE LinkInv'
    <2>1. /\ UNCHANGED <<istatus, itoken, undisturbed>>
          /\ Mails(r, on[r]) /\ on[r] \in I!Row
          /\ mail' = [mail EXCEPT ![on[r]] = held[r]]
          /\ \A q \in Request, j \in I!Row : Mails(q, j)' <=> Mails(q, j) /\ q # r
          /\ \A q \in Request \ {r} : held'[q] = held[q]
      BY <1>0, <1>6 DEF I!Enqueue, I!Ends, Mails, InvitationType, I!NoRow, I!Row
    <2>2. ASSUME NEW i \in undisturbed PROVE Linked(i)'
      <3>1. CASE i = on[r]
        <4>1. Linked(i) /\ mail'[i] = held[r] /\ i \in I!Row
          BY <1>0, <2>1, <3>1 DEF LinkInv, InvitationType
        <4>2. \A q \in Request : ~Mails(q, i)'
          BY <2>1, <3>1, <4>1 DEF Linked
        <4>3. istatus'[i] # "absent" /\ mail'[i] = itoken'[i]
          BY <2>1, <3>1, <4>1 DEF Linked
        <4>4. QED
          BY <4>2, <4>3 DEF Linked
      <3>2. CASE i # on[r]
        <4>1. i \in I!Row /\ Linked(i) /\ mail'[i] = mail[i] /\ ~Mails(r, i)
          BY <1>0, <2>1, <3>2 DEF LinkInv, InvitationType, Mails
        <4>2. QED
          BY <2>1, <4>1, LinkKept
      <3>3. QED
        BY <3>1, <3>2
    <2>3. QED
      BY <2>1, <2>2 DEF LinkInv
  <1>7. ASSUME NEW r \in Request, I!RequestFails(r) PROVE LinkInv'
    <2>1. /\ UNCHANGED <<istatus, itoken, mail>>
          /\ undisturbed' \subseteq undisturbed
          /\ \A i \in undisturbed' : ~Mails(r, i)
          /\ \A q \in Request, j \in I!Row : Mails(q, j)' <=> Mails(q, j) /\ q # r
          /\ \A q \in Request \ {r} : held'[q] = held[q]
      BY <1>0, <1>7 DEF I!RequestFails, I!Ends, Mails, InvitationType, I!NoRow, I!Row
    <2>2. QED
      BY <1>0, <2>1, LinkKept DEF LinkInv
  <1>8. ASSUME NEW i \in I!Row, I!Delete(i) PROVE LinkInv'
    <2>1. /\ UNCHANGED <<itoken, ipc, on, held>>
          /\ undisturbed' \subseteq undisturbed \cup {i}
          /\ i \in undisturbed' => \A q \in Request : ~Mails(q, i)
          /\ istatus'[i] = "absent" /\ mail'[i] = 0
          /\ \A j \in I!Row \ {i} : istatus'[j] = istatus[j] /\ mail'[j] = mail[j]
      BY <1>8 DEF I!Delete, I!Mailing, Mails, InvitationType
    <2>2. \A q \in Request, j \in I!Row : Mails(q, j)' <=> Mails(q, j)
      BY <2>1 DEF Mails
    <2>3. ASSUME i \in undisturbed' PROVE Linked(i)'
      BY <2>1, <2>2, <2>3 DEF Linked
    <2>4. ASSUME NEW j \in undisturbed', j # i PROVE Linked(j)'
      <3>1. j \in I!Row /\ Linked(j)
        BY <1>0, <2>1, <2>4 DEF LinkInv
      <3>2. QED
        BY <2>1, <2>2, <2>4, <3>1, LinkKept
    <2>5. QED
      BY <2>3, <2>4 DEF LinkInv
  <1>9. ASSUME NEW i \in I!Row, I!Expire(i) PROVE LinkInv'
    BY <1>9 DEF I!Expire, LinkInv, Linked, Mails
  <1>10. ASSUME NEW v \in Visitor,
                I!InsertUser(v) \/ I!VisitFails(v) \/ \E i \in I!Row : I!Read(v, i)
         PROVE  LinkInv'
    BY <1>10 DEF I!InsertUser, I!VisitFails, I!Read, LinkInv, Linked, Mails
  <1>11. ASSUME NEW v \in Visitor, I!Commit(v) PROVE LinkInv'
    <2>1. /\ UNCHANGED <<itoken, mail, ipc, on, held, undisturbed>>
          /\ \A i \in I!Row : istatus'[i] = "absent" <=> istatus[i] = "absent"
      BY <1>11 DEF I!Commit, InvitationType
    <2>2. QED
      BY <1>0, <2>1, LinkKept DEF LinkInv, Mails
  <1>12. QED
    BY <1>1, <1>2, <1>3, <1>4, <1>5, <1>6, <1>7, <1>8, <1>9, <1>10, <1>11 DEF I!Next

LEMMA InvitationInit == I!Init => InvitationType /\ AcceptedInv /\ LinkInv
  <1> SUFFICES ASSUME I!Init PROVE InvitationType /\ AcceptedInv /\ LinkInv
    OBVIOUS
  <1>1. InvitationType
    <2>1. 0 \in 0 .. MaxRows
      BY Bounds
    <2>2. QED
      BY <2>1 DEF I!Init, InvitationType, I!NoRow
  <1>2. AcceptedInv /\ LinkInv
    BY DEF I!Init, AcceptedInv, LinkInv
  <1>3. QED
    BY <1>1, <1>2

\* The instance counts as FiniteSets does.
LEMMA SameCount == \A X : I!Cardinality(X) = Cardinality(X)
  BY Zenon DEF I!Cardinality, Cardinality

LEMMA AcceptedOnceHolds == InvitationType /\ AcceptedInv => AcceptedOnce
  <1> SUFFICES ASSUME InvitationType, AcceptedInv PROVE AcceptedOnce
    OBVIOUS
  <1> DEFINE accepted == {i \in I!Row : istatus[i] = "accepted"}
  <1>1. Cardinality(accepted) <= 1
    <2>1. CASE accepted = {}
      BY <2>1, FS_EmptySet
    <2>2. CASE \E i \in accepted : TRUE
      <3>1. PICK i \in accepted : TRUE
        BY <2>2
      <3>2. accepted = {i}
        BY <3>1 DEF AcceptedInv
      <3>3. Cardinality(accepted) = 1
        BY <3>2, FS_Singleton
      <3>4. QED
        BY <3>3
    <2>3. QED
      BY <2>1, <2>2
  <1>2. (accepted # {} => user) /\ (user /\ ~vanished => accepted # {})
    BY DEF AcceptedInv
  <1>3. QED
    BY <1>1, <1>2, SameCount, Zenon DEF AcceptedOnce, I!AcceptedOnce

-----------------------------------------------------------------------------
(***************************************************************************)
(* Integrations.                                                           *)
(***************************************************************************)
Plain == [id |-> 1, settings |-> 1, secret |-> 0, plain |-> 1]
Sealed == [id |-> 1, settings |-> 1, secret |-> 1, plain |-> 0]
Copied == [id |-> 1, settings |-> 1, secret |-> 0, plain |-> 0]
IntegrationRow == [id : Nat, settings : Nat, secret : Nat, plain : Nat]

IntegrationType ==
  /\ project \in {"new", "exists", "deleted"}
  /\ legacy \in IntegrationRow /\ neutral \in IntegrationRow
  /\ migrated \in BOOLEAN
  /\ server \in [Server -> {"down", "read", "update", "up"}]
  /\ saw \in [Server -> IntegrationRow]
  /\ gpc \in [Call -> {"idle", "legacy", "neutral", "delete"}]
  /\ gwith \in [Call -> Nat]
  /\ settings \in Nat /\ crossed \subseteq Call /\ settled \in BOOLEAN

Encrypting == \E p \in Server : server[p] = "update"

\* Plain secrets are those of the row that was there before the first server.
BackfillInv ==
  /\ \A p \in Server : /\ server[p] # "down" => migrated
                       /\ server[p] = "update" => saw[p] = Plain
  /\ legacy.plain # 0 => legacy = Plain /\ ~G!Running
  /\ \A c \in Call : gpc[c] # "idle" => G!Running

\* A call that nothing has overlapped has had the tables for itself.
Alone(c) ==
  /\ gpc[c] # "idle" => ~Encrypting /\ \A d \in Call \ {c} : gpc[d] = "idle"
  /\ gpc[c] = "neutral" /\ project = "exists" =>
       legacy.settings = gwith[c] /\ legacy.secret = gwith[c]
  /\ gpc[c] = "delete" => legacy = G!NoRow

AloneInv ==
  /\ project = "new" => \A c \in Call : gpc[c] \in {"idle", "delete"}
  /\ \A c \in Call \ crossed : Alone(c)

Agree ==
  /\ neutral.settings = legacy.settings
  /\ legacy.secret = legacy.settings
  /\ neutral.secret = legacy.secret \/ (neutral.secret = 0 /\ legacy.settings = 1)

\* The tables agree as soon as the old row has been copied and encrypted.
AgreeInv ==
  settled =>
    /\ \/ ~migrated /\ neutral = G!NoRow /\ legacy \in {G!NoRow, Plain, Sealed}
       \/ migrated /\ legacy = Plain /\ neutral = Copied
       \/ migrated /\ legacy.plain = 0 /\ Agree
    /\ Encrypting => legacy = G!NoRow \/ legacy.settings = 1

IntegrationInv == IntegrationType /\ BackfillInv /\ AloneInv /\ AgreeInv

LEMMA IntegrationInit == G!Init => IntegrationInv
  <1> SUFFICES ASSUME G!Init PROVE IntegrationInv
    OBVIOUS
  <1> USE DEF G!Init, G!NoRow, G!None, Plain, Sealed
  <1>1. legacy \in {G!NoRow, Plain, Sealed} /\ neutral = G!NoRow
    OBVIOUS
  <1>2. IntegrationType
    <2>1. {G!NoRow, Plain, Sealed} \subseteq IntegrationRow
      BY DEF IntegrationRow
    <2>2. legacy \in IntegrationRow /\ neutral \in IntegrationRow
      BY <1>1, <2>1
    <2>3. saw \in [Server -> IntegrationRow]
      BY <2>1
    <2>4. QED
      BY <2>2, <2>3 DEF IntegrationType
  <1>3. BackfillInv
    BY <1>1 DEF BackfillInv, G!Running
  <1>4. AloneInv
    BY DEF AloneInv, Alone
  <1>5. AgreeInv
    BY <1>1 DEF AgreeInv, Encrypting
  <1>6. QED
    BY <1>2, <1>3, <1>4, <1>5 DEF IntegrationInv

LEMMA IntegrationTypeStep == IntegrationType /\ [G!Next]_(G!vars) => IntegrationType'
  <1> SUFFICES ASSUME IntegrationType, [G!Next]_(G!vars) PROVE IntegrationType'
    OBVIOUS
  <1> USE DEF IntegrationType, G!tables, G!starts
  <1>0. G!NoRow \in IntegrationRow /\ G!None \in Nat
    BY DEF G!NoRow, G!None, IntegrationRow
  <1>1. CASE UNCHANGED G!vars
    BY <1>1 DEF G!vars
  <1>2. ASSUME NEW p \in Server, G!Migrate(p) PROVE IntegrationType'
    <2>1. [legacy EXCEPT !.plain = G!None] \in IntegrationRow
      BY <1>0 DEF IntegrationRow
    <2>2. QED
      BY <1>2, <2>1 DEF G!Migrate
  <1>3. ASSUME NEW p \in Server, G!Backfill(p) PROVE IntegrationType'
    BY <1>3 DEF G!Backfill
  <1>4. ASSUME NEW p \in Server, G!Encrypt(p) PROVE IntegrationType'
    <2>1. saw[p].plain \in Nat
      BY DEF IntegrationRow
    <2>2. [legacy EXCEPT !.secret = saw[p].plain, !.plain = G!None] \in IntegrationRow
      BY <1>0, <2>1 DEF IntegrationRow
    <2>3. QED
      BY <1>0, <1>4, <2>2 DEF G!Encrypt
  <1>5. ASSUME NEW p \in Server, G!Stop(p) PROVE IntegrationType'
    BY <1>0, <1>5 DEF G!Stop
  <1>6. ASSUME NEW c \in Call, NEW t \in {"legacy", "delete"}, G!Starts(c, t)
        PROVE  gpc' \in [Call -> {"idle", "legacy", "neutral", "delete"}] /\ crossed' \subseteq Call
    BY <1>6 DEF G!Starts
  <1>7. ASSUME NEW c \in Call, NEW v \in IntegrationRow PROVE G!Whole(c, v) \in IntegrationRow
    <2>1. v.id \in Nat /\ gwith[c] \in Nat
      BY DEF IntegrationRow
    <2>2. QED
      BY <1>0, <2>1 DEF G!Whole, IntegrationRow
  <1>8. ASSUME NEW c \in Call, G!Upsert(c) PROVE IntegrationType'
    BY <1>6, <1>8 DEF G!Upsert
  <1>9. ASSUME NEW c \in Call, G!WriteLegacy(c) PROVE IntegrationType'
    BY <1>7, <1>9 DEF G!WriteLegacy
  <1>10. ASSUME NEW c \in Call, G!WriteNeutral(c) PROVE IntegrationType'
    <2>1. G!Whole(c, neutral) \in IntegrationRow
      BY <1>7
    <2>2. QED
      BY <1>0, <1>10, <2>1 DEF G!WriteNeutral, G!Ends
  <1>11. ASSUME NEW c \in Call, G!Delete(c) PROVE IntegrationType'
    BY <1>0, <1>6, <1>11 DEF G!Delete
  <1>12. ASSUME NEW c \in Call, G!DeleteNeutral(c) \/ G!Fail(c) PROVE IntegrationType'
    BY <1>0, <1>12 DEF G!DeleteNeutral, G!Fail, G!Ends
  <1>13. CASE G!Create \/ G!DeleteProject
    BY <1>0, <1>13 DEF G!Create, G!DeleteProject
  <1>14. QED
    BY <1>1, <1>2, <1>3, <1>4, <1>5, <1>8, <1>9, <1>10, <1>11, <1>12, <1>13 DEF G!Next

LEMMA BackfillStep == IntegrationType /\ BackfillInv /\ [G!Next]_(G!vars) => BackfillInv'
  <1> SUFFICES ASSUME IntegrationType, BackfillInv, [G!Next]_(G!vars) PROVE BackfillInv'
    OBVIOUS
  <1> USE DEF IntegrationType, BackfillInv, G!tables, G!starts, G!None
  <1>1. CASE UNCHANGED G!vars
    BY <1>1 DEF G!vars, G!Running
  <1>2. ASSUME NEW p \in Server, G!Migrate(p) PROVE BackfillInv'
    <2>1. /\ UNCHANGED <<legacy, saw, gpc>> /\ migrated' /\ server[p] = "down"
          /\ server' = [server EXCEPT ![p] = "read"]
      BY <1>2 DEF G!Migrate
    <2>2. G!Running' <=> G!Running
      BY <2>1 DEF G!Running
    <2>3. QED
      BY <2>1, <2>2
  <1>3. ASSUME NEW p \in Server, G!Backfill(p) PROVE BackfillInv'
    <2>1. UNCHANGED <<legacy, gpc, migrated>> /\ server[p] = "read"
      BY <1>3 DEF G!Backfill
    <2>2. CASE legacy.plain = 0
      <3>1. server' = [server EXCEPT ![p] = "up"] /\ saw' = saw
        BY <1>3, <2>2 DEF G!Backfill
      <3>2. G!Running'
        BY <3>1 DEF G!Running
      <3>3. QED
        BY <2>1, <2>2, <3>1, <3>2
    <2>3. CASE legacy.plain # 0
      <3>1. server' = [server EXCEPT ![p] = "update"] /\ saw' = [saw EXCEPT ![p] = Plain]
        BY <1>3, <2>3 DEF G!Backfill
      <3>2. G!Running' <=> G!Running
        BY <2>1, <3>1 DEF G!Running
      <3>3. QED
        BY <2>1, <2>3, <3>1, <3>2
    <2>4. QED
      BY <2>2, <2>3
  <1>4. ASSUME NEW p \in Server, G!Encrypt(p) PROVE BackfillInv'
    <2>1. /\ UNCHANGED <<gpc, migrated>> /\ server[p] = "update" /\ saw[p] = Plain
          /\ server' = [server EXCEPT ![p] = "up"]
          /\ saw' = [saw EXCEPT ![p] = G!NoRow]
      BY <1>4 DEF G!Encrypt
    <2>2. legacy'.plain = 0
      <3>1. CASE legacy.id # Plain.id
        BY <1>4, <2>1, <3>1 DEF G!Encrypt
      <3>2. CASE legacy.id = Plain.id
        BY <1>4, <2>1, <3>2 DEF G!Encrypt, IntegrationRow
      <3>3. QED
        BY <3>1, <3>2
    <2>3. G!Running'
      BY <2>1 DEF G!Running
    <2>4. QED
      BY <2>1, <2>2, <2>3
  <1>5. ASSUME NEW p \in Server, G!Stop(p) PROVE BackfillInv'
    <2>1. /\ UNCHANGED <<legacy, migrated>>
          /\ server' = [server EXCEPT ![p] = "down"]
          /\ saw' = [saw EXCEPT ![p] = G!NoRow]
      BY <1>5 DEF G!Stop
    <2>2. G!Running' => G!Running
      BY <2>1 DEF G!Running
    <2>3. CASE \E q \in Server \ {p} : server[q] = "up"
      <3>1. G!Running' /\ gpc' = gpc
        BY <1>5, <2>1, <2>3 DEF G!Running, G!Stop
      <3>2. QED
        BY <2>1, <2>2, <3>1
    <2>4. CASE ~\E q \in Server \ {p} : server[q] = "up"
      <3>1. \A c \in Call : gpc'[c] = "idle"
        BY <1>5, <2>4 DEF G!Stop
      <3>2. QED
        BY <2>1, <2>2, <3>1
    <2>5. QED
      BY <2>3, <2>4
  <1>6. ASSUME NEW c \in Call, G!Upsert(c) \/ G!Delete(c) PROVE BackfillInv'
    <2>1. /\ UNCHANGED <<migrated, server, saw>> /\ G!Running
          /\ legacy' = legacy \/ legacy' = G!NoRow
      BY <1>6 DEF G!Upsert, G!Delete, G!Starts
    <2>2. G!Running' /\ legacy'.plain = 0
      BY <2>1 DEF G!Running, G!NoRow
    <2>3. QED
      BY <2>1, <2>2
  <1>7. ASSUME NEW c \in Call, G!WriteLegacy(c) PROVE BackfillInv'
    <2>1. UNCHANGED <<migrated, server, saw>> /\ G!Running /\ legacy'.plain = 0
      BY <1>7 DEF G!WriteLegacy, G!Whole
    <2>2. G!Running'
      BY <2>1 DEF G!Running
    <2>3. QED
      BY <2>1, <2>2
  <1>8. ASSUME NEW c \in Call, G!WriteNeutral(c) \/ G!DeleteNeutral(c) \/ G!Fail(c)
        PROVE  BackfillInv'
    <2>1. UNCHANGED <<legacy, migrated, server, saw>>
          /\ \A d \in Call : gpc'[d] # "idle" => gpc[d] # "idle"
      BY <1>8 DEF G!WriteNeutral, G!DeleteNeutral, G!Fail, G!Ends
    <2>2. G!Running' <=> G!Running
      BY <2>1 DEF G!Running
    <2>3. QED
      BY <2>1, <2>2
  <1>9. CASE G!Create \/ G!DeleteProject
    <2>1. UNCHANGED <<gpc, migrated, server, saw>> /\ (legacy' = legacy \/ legacy' = G!NoRow)
      BY <1>9 DEF G!Create, G!DeleteProject
    <2>2. G!Running' <=> G!Running
      BY <2>1 DEF G!Running
    <2>3. QED
      BY <2>1, <2>2 DEF G!NoRow
  <1>10. QED
    BY <1>1, <1>2, <1>3, <1>4, <1>5, <1>6, <1>7, <1>8, <1>9 DEF G!Next

LEMMA AloneStep == IntegrationType /\ BackfillInv /\ AloneInv /\ [G!Next]_(G!vars) => AloneInv'
  <1> SUFFICES ASSUME IntegrationType, BackfillInv, AloneInv, [G!Next]_(G!vars) PROVE AloneInv'
    OBVIOUS
  <1> USE DEF G!tables, G!starts
  <1>1. CASE UNCHANGED G!vars
    BY <1>1 DEF G!vars, AloneInv, Alone, Encrypting
  <1>2. ASSUME NEW p \in Server, G!Migrate(p) PROVE AloneInv'
    <2>1. /\ UNCHANGED <<project, legacy, gpc, gwith, crossed>>
          /\ server' = [server EXCEPT ![p] = "read"]
      BY <1>2 DEF G!Migrate
    <2>2. Encrypting' => Encrypting
      BY <2>1 DEF Encrypting
    <2>3. QED
      BY <2>1, <2>2 DEF AloneInv, Alone
  <1>3. ASSUME NEW p \in Server, G!Backfill(p) PROVE AloneInv'
    <2>1. UNCHANGED <<project, legacy, gpc, gwith>> /\ crossed \subseteq crossed'
      BY <1>3 DEF G!Backfill
    <2>2. CASE legacy.plain = G!None
      <3>1. server' = [server EXCEPT ![p] = "up"]
        BY <1>3, <2>2 DEF G!Backfill
      <3>2. Encrypting' => Encrypting
        BY <3>1 DEF Encrypting
      <3>3. QED
        BY <2>1, <3>2 DEF AloneInv, Alone
    <2>3. CASE legacy.plain # G!None
      <3>1. \A c \in Call : gpc[c] = "idle"
        BY <2>3 DEF BackfillInv, G!None
      <3>2. QED
        BY <2>1, <3>1 DEF AloneInv, Alone
    <2>4. QED
      BY <2>2, <2>3
  <1>4. ASSUME NEW p \in Server, G!Encrypt(p) PROVE AloneInv'
    <2>1. UNCHANGED <<project, gpc, gwith, crossed>> /\ Encrypting
      BY <1>4 DEF G!Encrypt, Encrypting
    <2>2. \A c \in Call \ crossed : gpc[c] = "idle"
      BY <2>1 DEF AloneInv, Alone
    <2>3. QED
      BY <2>1, <2>2 DEF AloneInv, Alone
  <1>5. ASSUME NEW p \in Server, G!Stop(p) PROVE AloneInv'
    <2>1. /\ UNCHANGED <<project, legacy, crossed>>
          /\ server' = [server EXCEPT ![p] = "down"]
          /\ UNCHANGED <<gpc, gwith>> \/ \A c \in Call : gpc'[c] = "idle"
      BY <1>5 DEF G!Stop
    <2>2. Encrypting' => Encrypting
      BY <2>1 DEF Encrypting
    <2>3. QED
      BY <2>1, <2>2 DEF AloneInv, Alone
  <1>6. ASSUME NEW c \in Call, G!Upsert(c) \/ G!Delete(c) PROVE AloneInv'
    <2>1. /\ UNCHANGED <<project, server>> /\ gpc[c] = "idle"
          /\ \A d \in Call \ {c} : gpc'[d] = gpc[d]
          /\ crossed \ {c} \subseteq crossed'
          /\ \A d \in Call \ {c} : gpc[d] # "idle" => d \in crossed' /\ c \in crossed'
          /\ Encrypting => c \in crossed'
      BY <1>6 DEF G!Upsert, G!Delete, G!Starts, IntegrationType, Encrypting
    <2>2. /\ gpc'[c] \in {"legacy", "delete"}
          /\ gpc'[c] = "legacy" => project = "exists"
          /\ gpc'[c] = "delete" => legacy' = G!NoRow
      BY <1>6 DEF G!Upsert, G!Delete, G!Starts, IntegrationType
    <2>3. Encrypting' <=> Encrypting
      BY <2>1 DEF Encrypting
    <2>4. \A d \in Call \ crossed' : d # c => gpc'[d] = "idle"
      BY <2>1
    <2>5. c \notin crossed' => ~Encrypting' /\ \A d \in Call \ {c} : gpc'[d] = "idle"
      BY <2>1, <2>3
    <2>6. project' = "new" => \A d \in Call : gpc'[d] \in {"idle", "delete"}
      BY <2>1, <2>2 DEF AloneInv
    <2>7. \A d \in Call \ crossed' : Alone(d)'
      BY <2>2, <2>4, <2>5 DEF Alone
    <2>8. QED
      BY <2>6, <2>7 DEF AloneInv
  <1>7. ASSUME NEW c \in Call, gpc[c] # "idle", UNCHANGED <<project, server, crossed>>,
               \A d \in Call \ {c} : gpc'[d] = gpc[d],
               \/ gpc'[c] = "idle"
               \/ /\ gpc'[c] = "neutral" /\ gpc[c] = "legacy"
                  /\ legacy'.settings = gwith'[c] /\ legacy'.secret = gwith'[c]
        PROVE  AloneInv'
    <2>1. \A d \in Call \ crossed : d # c => gpc'[d] = "idle"
      BY <1>7 DEF AloneInv, Alone
    <2>2. c \notin crossed => ~Encrypting' /\ \A d \in Call \ {c} : gpc'[d] = "idle"
      BY <1>7 DEF AloneInv, Alone, Encrypting
    <2>3. \A d \in Call \ crossed' : Alone(d)'
      BY <1>7, <2>1, <2>2 DEF Alone
    <2>4. QED
      BY <1>7, <2>3 DEF AloneInv
  <1>8. ASSUME NEW c \in Call, G!WriteLegacy(c) PROVE AloneInv'
    <2>1. /\ gpc[c] = "legacy" /\ gpc' = [gpc EXCEPT ![c] = "neutral"]
          /\ UNCHANGED <<project, server, crossed, gwith>>
          /\ legacy'.settings = gwith[c] /\ legacy'.secret = gwith[c]
      BY <1>8 DEF G!WriteLegacy, G!Whole
    <2>2. gpc'[c] = "neutral" /\ \A d \in Call \ {c} : gpc'[d] = gpc[d]
      BY <2>1 DEF IntegrationType
    <2>3. QED
      BY <2>1, <2>2, <1>7
  <1>9. ASSUME NEW c \in Call, G!WriteNeutral(c) \/ G!DeleteNeutral(c) \/ G!Fail(c)
        PROVE  AloneInv'
    <2>1. /\ gpc[c] # "idle" /\ gpc' = [gpc EXCEPT ![c] = "idle"]
          /\ UNCHANGED <<project, server, crossed>>
      BY <1>9 DEF G!WriteNeutral, G!DeleteNeutral, G!Fail, G!Ends
    <2>2. gpc'[c] = "idle" /\ \A d \in Call \ {c} : gpc'[d] = gpc[d]
      BY <2>1 DEF IntegrationType
    <2>3. QED
      BY <2>1, <2>2, <1>7
  <1>10. CASE G!Create
    <2>1. /\ UNCHANGED <<legacy, gpc, gwith, crossed, server>>
          /\ project' # "new" /\ \A c \in Call : gpc[c] # "neutral"
      BY <1>10 DEF G!Create, AloneInv
    <2>2. QED
      BY <2>1 DEF AloneInv, Alone, Encrypting
  <1>11. CASE G!DeleteProject
    BY <1>11 DEF G!DeleteProject, AloneInv, Alone, Encrypting
  <1>12. QED
    BY <1>1, <1>2, <1>3, <1>4, <1>5, <1>6, <1>8, <1>9, <1>10, <1>11 DEF G!Next

LEMMA AgreeStep == IntegrationInv /\ [G!Next]_(G!vars) => AgreeInv'
  <1> SUFFICES ASSUME IntegrationType, BackfillInv, AloneInv, AgreeInv, [G!Next]_(G!vars)
               PROVE  AgreeInv'
    BY DEF IntegrationInv
  <1> USE DEF G!tables, G!starts
  <1>0. /\ G!NoRow = [id |-> 0, settings |-> 0, secret |-> 0, plain |-> 0]
        /\ \A c \in Call : gpc[c] # "idle" => G!Running
        /\ G!Running => migrated /\ legacy.plain = 0
    BY DEF G!NoRow, G!None, G!Running, BackfillInv
  <1>1. CASE UNCHANGED G!vars
    BY <1>1 DEF G!vars, AgreeInv, Agree, Encrypting
  <1>2. ASSUME NEW p \in Server, G!Migrate(p) PROVE AgreeInv'
    <2>1. /\ UNCHANGED <<legacy, settled>> /\ migrated'
          /\ neutral' = IF migrated THEN neutral ELSE [legacy EXCEPT !.plain = 0]
          /\ server' = [server EXCEPT ![p] = "read"]
      BY <1>2 DEF G!Migrate, G!None
    <2>2. Encrypting' => Encrypting
      BY <2>1 DEF Encrypting
    <2>3. CASE migrated
      BY <2>1, <2>2, <2>3 DEF AgreeInv, Agree
    <2>4. CASE ~migrated /\ settled
      <3>1. CASE legacy = Plain
        BY <2>1, <2>2, <2>4, <3>1 DEF AgreeInv, Plain, Copied
      <3>2. CASE legacy \in {G!NoRow, Sealed}
        <4>1. neutral' = legacy /\ legacy.plain = 0 /\ legacy.secret = legacy.settings
          BY <1>0, <2>1, <2>4, <3>2 DEF Sealed
        <4>2. QED
          BY <2>1, <2>2, <2>4, <4>1 DEF AgreeInv, Agree
      <3>3. QED
        BY <2>4, <3>1, <3>2 DEF AgreeInv
    <2>5. CASE ~settled
      BY <2>1, <2>5 DEF AgreeInv
    <2>6. QED
      BY <2>3, <2>4, <2>5
  <1>3. ASSUME NEW p \in Server, G!Backfill(p) PROVE AgreeInv'
    <2>1. UNCHANGED <<legacy, neutral, migrated, settled>>
      BY <1>3 DEF G!Backfill
    <2>2. Encrypting' => Encrypting \/ legacy.settings = 1
      <3>1. CASE legacy.plain = G!None
        <4>1. server' = [server EXCEPT ![p] = "up"]
          BY <1>3, <3>1 DEF G!Backfill
        <4>2. QED
          BY <4>1 DEF Encrypting
      <3>2. CASE legacy.plain # G!None
        BY <3>2 DEF BackfillInv, G!None, Plain
      <3>3. QED
        BY <3>1, <3>2
    <2>3. QED
      BY <2>1, <2>2 DEF AgreeInv, Agree
  <1>4. ASSUME NEW p \in Server, G!Encrypt(p), settled PROVE AgreeInv'
    <2>0. migrated /\ saw[p].id = 1 /\ saw[p].plain = 1
      <3>1. migrated /\ saw[p] = Plain
        BY <1>4 DEF G!Encrypt, BackfillInv
      <3>2. QED
        BY <3>1 DEF Plain
    <2>1. /\ UNCHANGED <<neutral, migrated, settled>> /\ migrated
          /\ server[p] = "update" /\ server' = [server EXCEPT ![p] = "up"]
          /\ legacy' = IF legacy.id # 1 THEN legacy
                       ELSE [legacy EXCEPT !.secret = 1, !.plain = 0]
      BY <1>4, <2>0 DEF G!Encrypt, G!None
    <2>2. Encrypting /\ (Encrypting' => Encrypting)
      BY <2>1 DEF Encrypting
    <2>3. CASE legacy.id # 1
      BY <1>4, <2>1, <2>2, <2>3 DEF AgreeInv, Agree, Plain
    <2>4. CASE legacy.id = 1
      <3>1. legacy.settings = 1
        BY <1>0, <1>4, <2>2, <2>4 DEF AgreeInv
      <3>2. legacy'.settings = 1 /\ legacy'.secret = 1 /\ legacy'.plain = 0
        BY <2>1, <2>4, <3>1 DEF IntegrationType, IntegrationRow
      <3>3. neutral.settings = 1 /\ neutral.secret \in {0, 1}
        <4>1. CASE neutral = Copied
          BY <4>1 DEF Copied
        <4>2. CASE Agree
          BY <3>1, <4>2 DEF Agree
        <4>3. QED
          BY <1>4, <2>1, <4>1, <4>2 DEF AgreeInv
      <3>4. QED
        BY <2>1, <3>2, <3>3 DEF AgreeInv, Agree
    <2>5. QED
      BY <2>3, <2>4
  <1>5. ASSUME NEW p \in Server, G!Stop(p) PROVE AgreeInv'
    <2>1. /\ UNCHANGED <<legacy, neutral, migrated, settled>>
          /\ server' = [server EXCEPT ![p] = "down"]
      BY <1>5 DEF G!Stop
    <2>2. Encrypting' => Encrypting
      BY <2>1 DEF Encrypting
    <2>3. QED
      BY <2>1, <2>2 DEF AgreeInv, Agree
  <1>6. ASSUME NEW c \in Call, G!Upsert(c) \/ G!Fail(c) PROVE AgreeInv'
    BY <1>6 DEF G!Upsert, G!Fail, AgreeInv, Agree, Encrypting
  <1>7. ASSUME NEW c \in Call, G!WriteLegacy(c) \/ G!Delete(c) PROVE AgreeInv'
    BY <1>7 DEF G!WriteLegacy, G!Delete, AgreeInv
  <1>8. ASSUME NEW c \in Call, G!WriteNeutral(c), settled' PROVE AgreeInv'
    <2>1. /\ UNCHANGED <<legacy, server, migrated>> /\ c \notin crossed
          /\ gpc[c] = "neutral" /\ project = "exists"
          /\ neutral'.settings = gwith[c] /\ neutral'.secret = gwith[c]
      BY <1>8 DEF G!WriteNeutral, G!Whole
    <2>2. legacy.settings = gwith[c] /\ legacy.secret = gwith[c] /\ ~Encrypting'
      BY <2>1 DEF AloneInv, Alone, Encrypting
    <2>3. QED
      BY <1>0, <2>1, <2>2 DEF AgreeInv, Agree
  <1>9. ASSUME NEW c \in Call, G!DeleteNeutral(c), settled' PROVE AgreeInv'
    <2>1. /\ UNCHANGED <<legacy, server, migrated>> /\ c \notin crossed
          /\ gpc[c] = "delete" /\ neutral' = G!NoRow
      BY <1>9 DEF G!DeleteNeutral
    <2>2. legacy = G!NoRow
      BY <2>1 DEF AloneInv, Alone
    <2>3. QED
      BY <1>0, <2>1, <2>2 DEF AgreeInv, Agree
  <1>10. CASE G!DeleteProject
    <2>1. UNCHANGED <<server, migrated>> /\ G!Running /\ legacy' = G!NoRow /\ neutral' = G!NoRow
      BY <1>10 DEF G!DeleteProject
    <2>2. QED
      BY <1>0, <2>1 DEF AgreeInv, Agree
  <1>11. CASE G!Create
    BY <1>11 DEF G!Create, AgreeInv, Agree, Encrypting
  <1>12. ASSUME NEW p \in Server, G!Encrypt(p), ~settled PROVE AgreeInv'
    BY <1>12 DEF G!Encrypt, AgreeInv
  <1>13. ASSUME ~settled' PROVE AgreeInv'
    BY <1>13 DEF AgreeInv
  <1>14. QED
    BY <1>1, <1>2, <1>3, <1>4, <1>5, <1>6, <1>7, <1>8, <1>9, <1>10, <1>11, <1>12, <1>13 DEF G!Next

LEMMA IntegrationStep == IntegrationInv /\ [G!Next]_(G!vars) => IntegrationInv'
  BY IntegrationTypeStep, BackfillStep, AloneStep, AgreeStep DEF IntegrationInv

LEMMA TablesAgreeHolds == IntegrationInv => TablesAgree
  <1> SUFFICES ASSUME IntegrationInv, G!Running, settled PROVE Agree
    BY DEF TablesAgree, G!TablesAgree, Agree, G!None
  <1>1. migrated /\ legacy.plain = 0
    BY DEF IntegrationInv, BackfillInv, G!Running
  <1>2. QED
    BY <1>1 DEF IntegrationInv, AgreeInv, Plain

-----------------------------------------------------------------------------
(***************************************************************************)
(* Comments.                                                               *)
(***************************************************************************)
Discussion == Seq(C!Note) \ {<<>>}
Summary == [note : Nat, thread : Nat, at : Nat, reply : Nat]
Batch == Seq(Summary) \ {<<>>}
CommentRow == [thread : Nat, reply : Nat, at : Nat]

\* The values of the variables of Comments.
CommentType ==
  /\ threads \in Seq(Discussion)
  /\ owner \in [C!Note -> Nat] /\ at \in [C!Note -> Nat]
  /\ notes \in Nat /\ now \in Nat
  /\ rows \in [C!Note -> CommentRow]
  /\ activity \in Nat
  /\ rpc \in [Run -> {"idle", "fetch", "save"}]
  /\ page \in [Run -> Nat] /\ last \in [Run -> Nat]
  /\ got \in [Run -> Seq(Batch)]
  /\ \A r \in Run : rpc[r] = "fetch" => page[r] # 0
  /\ cpc \in [Commenter -> {"idle", "save", "touch"}]
  /\ posted \in [Commenter -> Seq(Summary)]
  /\ \A c \in Commenter : cpc[c] # "idle" => posted[c] # <<>>
  /\ quiet \subseteq Run /\ mirrored \in BOOLEAN

\* The notes of a discussion have one owner, and every note is in one place.
ThreadInv ==
  /\ \A n \in C!Note : n <= notes <=> owner[n] # 0
  /\ \A k \in DOMAIN threads : \A j \in DOMAIN threads[k] :
       /\ threads[k][j] <= notes
       /\ owner[threads[k][j]] = owner[threads[k][1]]
  /\ \A k, l \in DOMAIN threads : \A i \in DOMAIN threads[k], j \in DOMAIN threads[l] :
       threads[k][i] = threads[l][j] => k = l /\ i = j

\* RemoveAt takes one element out and moves those after it.
LEMMA Removed ==
  ASSUME NEW X, NEW s \in Seq(X), NEW i \in 1 .. Len(s)
  PROVE  /\ C!RemoveAt(s, i) \in Seq(X)
         /\ Len(C!RemoveAt(s, i)) = Len(s) - 1
         /\ \A j \in 1 .. Len(s) - 1 : C!RemoveAt(s, i)[j] = IF j < i THEN s[j] ELSE s[j + 1]
  <1> DEFINE a == SubSeq(s, 1, i - 1)  b == SubSeq(s, i + 1, Len(s))
  <1>0. Len(s) \in Nat /\ i \in Nat
    OBVIOUS
  <1>1. /\ a \in Seq(X) /\ Len(a) = i - 1
        /\ \A j \in 1 .. i - 1 : a[j] = s[j]
    <2>1. \A j \in 1 .. i - 1 : s[j] \in X
      BY <1>0, ElementOfSeq
    <2>2. QED
      BY <1>0, <2>1, SubSeqProperties
  <1>2. /\ b \in Seq(X) /\ Len(b) = Len(s) - i
        /\ \A j \in 1 .. Len(s) - i : b[j] = s[i + j]
    <2>1. \A j \in i + 1 .. Len(s) : s[j] \in X
      BY <1>0, ElementOfSeq
    <2>2. /\ b \in Seq(X) /\ Len(b) = IF i + 1 <= Len(s) THEN Len(s) - (i + 1) + 1 ELSE 0
          /\ \A j \in 1 .. Len(s) - (i + 1) + 1 : b[j] = s[(i + 1) + j - 1]
      BY <1>0, <2>1, SubSeqProperties
    <2> HIDE DEF b
    <2>3. QED
      BY <1>0, <2>2
  <1> HIDE DEF a, b
  <1>3. /\ a \o b \in Seq(X) /\ Len(a \o b) = Len(s) - 1
        /\ \A j \in 1 .. Len(s) - 1 : (a \o b)[j] = IF j <= i - 1 THEN a[j] ELSE b[j - (i - 1)]
    <2>1. /\ a \o b \in Seq(X) /\ Len(a \o b) = Len(a) + Len(b)
          /\ \A j \in 1 .. Len(a) + Len(b) :
               (a \o b)[j] = IF j <= Len(a) THEN a[j] ELSE b[j - Len(a)]
      BY <1>1, <1>2, ConcatProperties
    <2>2. Len(a) = i - 1 /\ Len(a) + Len(b) = Len(s) - 1
      BY <1>0, <1>1, <1>2
    <2>3. QED
      BY <2>1, <2>2
  <1>4. \A j \in 1 .. Len(s) - 1 : (a \o b)[j] = IF j < i THEN s[j] ELSE s[j + 1]
    <2> TAKE j \in 1 .. Len(s) - 1
    <2>1. CASE j < i
      BY <1>0, <1>1, <1>3, <2>1
    <2>2. CASE ~(j < i)
      <3>1. j - (i - 1) \in 1 .. Len(s) - i /\ i + (j - (i - 1)) = j + 1
        BY <1>0, <2>2
      <3>2. QED
        BY <1>0, <1>2, <1>3, <2>2, <3>1
    <2>3. QED
      BY <2>1, <2>2
  <1>5. C!RemoveAt(s, i) = a \o b
    BY DEF C!RemoveAt, a, b
  <1>6. QED
    BY <1>3, <1>4, <1>5

\* Sequences by their elements.
LEMMA Elements ==
  ASSUME CommentType
  PROVE  /\ Len(threads) \in Nat /\ DOMAIN threads = 1 .. Len(threads)
         /\ \A k \in DOMAIN threads :
              /\ threads[k] \in Discussion /\ threads[k] \in Seq(C!Note)
              /\ Len(threads[k]) \in Nat \ {0} /\ DOMAIN threads[k] = 1 .. Len(threads[k])
              /\ 1 \in DOMAIN threads[k]
              /\ \A j \in DOMAIN threads[k] : threads[k][j] \in C!Note
         /\ \A r \in Run :
              /\ Len(got[r]) \in Nat /\ DOMAIN got[r] = 1 .. Len(got[r])
              /\ \A k \in DOMAIN got[r] :
                   /\ got[r][k] \in Batch /\ got[r][k] \in Seq(Summary)
                   /\ Len(got[r][k]) \in Nat \ {0} /\ DOMAIN got[r][k] = 1 .. Len(got[r][k])
                   /\ \A j \in DOMAIN got[r][k] : got[r][k][j] \in Summary
  <1>1. ASSUME NEW X, NEW s \in Seq(X)
        PROVE  /\ Len(s) \in Nat /\ DOMAIN s = 1 .. Len(s) /\ \A k \in DOMAIN s : s[k] \in X
               /\ s # <<>> => Len(s) \in Nat \ {0} /\ 1 \in DOMAIN s
    BY LenProperties, ElementOfSeq, EmptySeq
  <1>2. \A k \in DOMAIN threads : threads[k] \in Discussion
    BY <1>1 DEF CommentType
  <1>3. \A r \in Run : got[r] \in Seq(Batch)
    BY DEF CommentType
  <1>4. Len(threads) \in Nat /\ DOMAIN threads = 1 .. Len(threads)
    BY <1>1 DEF CommentType
  <1>5. ASSUME NEW k \in DOMAIN threads
        PROVE  /\ threads[k] \in Discussion /\ threads[k] \in Seq(C!Note)
               /\ Len(threads[k]) \in Nat \ {0} /\ DOMAIN threads[k] = 1 .. Len(threads[k])
               /\ 1 \in DOMAIN threads[k]
               /\ \A j \in DOMAIN threads[k] : threads[k][j] \in C!Note
    BY <1>1, <1>2 DEF Discussion
  <1>6. ASSUME NEW r \in Run
        PROVE  Len(got[r]) \in Nat /\ DOMAIN got[r] = 1 .. Len(got[r])
    BY <1>1, <1>3
  <1>7. ASSUME NEW r \in Run, NEW k \in DOMAIN got[r]
        PROVE  /\ got[r][k] \in Batch /\ got[r][k] \in Seq(Summary)
               /\ Len(got[r][k]) \in Nat \ {0} /\ DOMAIN got[r][k] = 1 .. Len(got[r][k])
               /\ \A j \in DOMAIN got[r][k] : got[r][k][j] \in Summary
    <2>1. got[r][k] \in Batch
      BY <1>1, <1>3
    <2>2. got[r][k] \in Seq(Summary) /\ got[r][k] # <<>>
      BY <2>1 DEF Batch
    <2>3. QED
      BY <1>1, <2>1, <2>2
  <1>8. QED
    BY <1>4, <1>5, <1>6, <1>7

\* A new note is the last of its discussion; nothing else moves.
Added(n) ==
  \E k \in DOMAIN threads' : \E j \in DOMAIN threads'[k] :
    /\ threads'[k][j] = n
    /\ j # 1 => owner[threads'[k][1]] = owner'[n]
    /\ \A i \in DOMAIN threads'[k] : i <= j
    /\ \A l \in DOMAIN threads' : \A i \in DOMAIN threads'[l] :
         \/ l = k /\ i = j
         \/ l \in DOMAIN threads /\ i \in DOMAIN threads[l] /\ threads'[l][i] = threads[l][i]

LEMMA Grown ==
  ASSUME CommentType, ThreadInv, NEW d \in Nat, C!Grow(d)
  PROVE  /\ notes + 1 \in C!Note /\ notes' = notes + 1 /\ now' = now + 1
         /\ at' = [at EXCEPT ![notes + 1] = now + 1]
         /\ owner' = [owner EXCEPT ![notes + 1] = owner'[notes + 1]]
         /\ owner'[notes + 1] \in Nat \ {0}
         /\ d # 0 => owner'[notes + 1] = d
         /\ threads' \in Seq(Discussion) /\ Added(notes + 1)
         /\ quiet' = {} /\ mirrored' = FALSE
  <1> DEFINE n == notes + 1
  <1>0. n \in C!Note /\ n \in Nat \ {0} /\ notes \in Nat
    <2>1. notes \in Nat /\ notes < MaxNotes /\ MaxNotes \in Nat
      BY Bounds DEF C!Grow, CommentType
    <2>2. QED
      BY <2>1 DEF C!Note
  <1>1. /\ notes' = n /\ now' = now + 1 /\ at' = [at EXCEPT ![n] = now + 1]
        /\ quiet' = {} /\ mirrored' = FALSE
    BY DEF C!Grow, C!Disturb
  <1>2. CASE d = 0
    <2>1. threads' = Append(threads, <<n>>) /\ owner' = [owner EXCEPT ![n] = n]
      BY <1>2 DEF C!Grow, C!NoNote
    <2>2. <<n>> \in Discussion /\ Len(<<n>>) = 1 /\ DOMAIN <<n>> = {1} /\ <<n>>[1] = n
      BY <1>0 DEF Discussion
    <2>3. /\ threads' \in Seq(Discussion) /\ Len(threads') = Len(threads) + 1
          /\ \A k \in 1 .. Len(threads) : threads'[k] = threads[k]
          /\ threads'[Len(threads) + 1] = <<n>>
      BY <2>1, <2>2, AppendProperties DEF CommentType
    <2>4. DOMAIN threads' = 1 .. Len(threads) + 1
      BY <2>3, LenProperties
    <2>5. Len(threads) \in Nat /\ DOMAIN threads = 1 .. Len(threads)
      BY Elements
    <2>6. Added(n)
      BY <2>2, <2>3, <2>4, <2>5 DEF Added
    <2>7. owner'[n] = n /\ owner' = [owner EXCEPT ![n] = owner'[n]]
      BY <1>0, <2>1 DEF CommentType
    <2>8. QED
      BY <1>0, <1>1, <1>2, <2>3, <2>6, <2>7
  <1>3. CASE d # 0
    <2>1. PICK k \in DOMAIN threads :
            /\ owner[threads[k][1]] = d
            /\ threads' = [threads EXCEPT ![k] = Append(@, n)]
            /\ owner' = [owner EXCEPT ![n] = d]
      BY <1>3 DEF C!Grow, C!NoNote
    <2>2. threads[k] \in Seq(C!Note) /\ k \in 1 .. Len(threads) /\ Len(threads[k]) \in Nat \ {0}
      BY Elements
    <2> DEFINE new == Append(threads[k], n)
    <2>3. /\ new \in Discussion /\ Len(new) = Len(threads[k]) + 1
          /\ \A j \in 1 .. Len(threads[k]) : new[j] = threads[k][j]
          /\ new[Len(threads[k]) + 1] = n
          /\ DOMAIN new = 1 .. Len(threads[k]) + 1
      BY <1>0, <2>2, AppendProperties, LenProperties DEF Discussion
    <2>4. /\ threads' \in Seq(Discussion) /\ DOMAIN threads' = DOMAIN threads
          /\ threads'[k] = new
          /\ \A l \in DOMAIN threads \ {k} : threads'[l] = threads[l]
      <3> HIDE DEF new
      <3>1. threads' = [threads EXCEPT ![k] = new]
        BY <2>1 DEF new
      <3>2. QED
        BY <2>2, <2>3, <3>1, ExceptSeq DEF CommentType
    <2> HIDE DEF new
    <2>5. owner'[n] = d /\ d \in Nat \ {0} /\ owner' = [owner EXCEPT ![n] = owner'[n]]
      BY <1>0, <1>3, <2>1 DEF CommentType, C!Note, C!NoNote
    <2>6. Added(n)
      <3>1. DOMAIN threads[k] = 1 .. Len(threads[k])
        BY Elements
      <3>2. Len(threads[k]) + 1 \in DOMAIN threads'[k] /\ k \in DOMAIN threads'
        BY <2>2, <2>3, <2>4
      <3>3. new[1] = threads[k][1]
        BY <2>2, <2>3
      <3>4. threads'[k][Len(threads[k]) + 1] = n /\ owner[threads'[k][1]] = owner'[n]
        BY <2>1, <2>3, <2>4, <2>5, <3>3
      <3>5. ASSUME NEW l \in DOMAIN threads', NEW i \in DOMAIN threads'[l],
                   ~(l = k /\ i = Len(threads[k]) + 1)
            PROVE  l \in DOMAIN threads /\ i \in DOMAIN threads[l] /\ threads'[l][i] = threads[l][i]
        BY <2>2, <2>3, <2>4, <3>1, <3>5
      <3>6. \A i \in DOMAIN threads'[k] : i <= Len(threads[k]) + 1
        BY <2>2, <2>3, <2>4
      <3>7. QED
        BY <3>2, <3>4, <3>5, <3>6, Zenon DEF Added
    <2>7. QED
      BY <1>0, <1>1, <2>4, <2>5, <2>6
  <1>4. QED
    BY <1>2, <1>3

\* What a deletion leaves keeps its order, and no discussion is left empty.
LEMMA Deleted ==
  ASSUME CommentType, NEW n \in C!Note, C!Delete(n)
  PROVE  /\ threads' \in Seq(Discussion)
         /\ \A k \in DOMAIN threads' : \E l \in DOMAIN threads :
              /\ \A j \in DOMAIN threads'[k] :
                   \E i \in DOMAIN threads[l] : threads'[k][j] = threads[l][i]
         /\ ThreadInv => \A k, l \in DOMAIN threads' :
              \A i \in DOMAIN threads'[k], j \in DOMAIN threads'[l] :
                threads'[k][i] = threads'[l][j] => k = l /\ i = j
  <1>0. PICK k \in DOMAIN threads : \E j \in DOMAIN threads[k] :
          threads' = IF Len(threads[k]) = 1 THEN C!RemoveAt(threads, k)
                     ELSE [threads EXCEPT ![k] = C!RemoveAt(@, j)]
    BY DEF C!Delete
  <1>1. PICK j \in DOMAIN threads[k] :
          threads' = IF Len(threads[k]) = 1 THEN C!RemoveAt(threads, k)
                     ELSE [threads EXCEPT ![k] = C!RemoveAt(@, j)]
    BY <1>0
  <1>2. /\ threads \in Seq(Discussion) /\ k \in 1 .. Len(threads) /\ Len(threads) \in Nat
        /\ threads[k] \in Seq(C!Note) /\ j \in 1 .. Len(threads[k]) /\ Len(threads[k]) \in Nat \ {0}
        /\ DOMAIN threads = 1 .. Len(threads)
        /\ \A l \in DOMAIN threads : DOMAIN threads[l] = 1 .. Len(threads[l])
                                     /\ Len(threads[l]) \in Nat \ {0}
    BY Elements DEF CommentType
  <1>3. CASE Len(threads[k]) = 1
    <2>1. threads' = C!RemoveAt(threads, k)
      BY <1>1, <1>3
    <2>2. /\ threads' \in Seq(Discussion) /\ Len(threads') = Len(threads) - 1
          /\ \A l \in 1 .. Len(threads) - 1 :
               threads'[l] = IF l < k THEN threads[l] ELSE threads[l + 1]
      BY <1>2, <2>1, Removed
    <2>3. DOMAIN threads' = 1 .. Len(threads) - 1
      BY <2>2, LenProperties
    <2> DEFINE from(l) == IF l < k THEN l ELSE l + 1
    <2>4. \A l \in DOMAIN threads' : from(l) \in DOMAIN threads /\ threads'[l] = threads[from(l)]
      BY <1>2, <2>2, <2>3
    <2>5. \A l, m \in DOMAIN threads' : from(l) = from(m) => l = m
      BY <1>2, <2>3
    <2> HIDE DEF from
    <2>6. QED
      BY <2>2, <2>4, <2>5 DEF ThreadInv
  <1>4. CASE Len(threads[k]) # 1
    <2> DEFINE rest == C!RemoveAt(threads[k], j)
               from(i) == IF i < j THEN i ELSE i + 1
    <2>1. /\ rest \in Seq(C!Note) /\ Len(rest) = Len(threads[k]) - 1
          /\ \A i \in 1 .. Len(threads[k]) - 1 : rest[i] = threads[k][from(i)]
      BY <1>2, Removed
    <2>2. DOMAIN rest = 1 .. Len(threads[k]) - 1 /\ rest \in Discussion
      BY <1>2, <1>4, <2>1, LenProperties, EmptySeq DEF Discussion
    <2> HIDE DEF rest
    <2>3. \A i \in DOMAIN rest : from(i) \in DOMAIN threads[k] /\ rest[i] = threads[k][from(i)]
      <3>1. \A i \in 1 .. Len(threads[k]) - 1 : from(i) \in 1 .. Len(threads[k])
        BY <1>2
      <3>2. DOMAIN threads[k] = 1 .. Len(threads[k])
        BY <1>2
      <3> HIDE DEF from
      <3>3. QED
        BY <2>1, <2>2, <3>1, <3>2
    <2>4. \A i, m \in DOMAIN rest : from(i) = from(m) => i = m
      BY <1>2, <2>2
    <2> HIDE DEF from
    <2>5. threads' = [threads EXCEPT ![k] = rest]
      BY <1>1, <1>4 DEF rest
    <2>6. /\ threads' \in Seq(Discussion) /\ DOMAIN threads' = DOMAIN threads
          /\ threads'[k] = rest /\ \A l \in DOMAIN threads \ {k} : threads'[l] = threads[l]
      BY <1>2, <2>2, <2>5, ExceptSeq
    <2>7. \A l \in DOMAIN threads' : \A i \in DOMAIN threads'[l] :
            LET h == IF l = k THEN from(i) ELSE i
            IN  h \in DOMAIN threads[l] /\ threads'[l][i] = threads[l][h]
      BY <2>3, <2>6
    <2>8. \A l \in DOMAIN threads' : \A i, m \in DOMAIN threads'[l] :
            (IF l = k THEN from(i) ELSE i) = (IF l = k THEN from(m) ELSE m) => i = m
      BY <2>4, <2>6
    <2>9. QED
      BY <2>6, <2>7, <2>8 DEF ThreadInv
  <1>5. QED
    BY <1>3, <1>4

\* What the summaries of a discussion say.
LEMMA Summarised ==
  ASSUME CommentType, ThreadInv, NEW k \in DOMAIN threads
  PROVE  /\ C!Summaries(threads[k]) \in Batch
         /\ Len(C!Summaries(threads[k])) = Len(threads[k])
         /\ DOMAIN C!Summaries(threads[k]) = DOMAIN threads[k]
         /\ \A j \in DOMAIN threads[k] :
              C!Summaries(threads[k])[j] =
                [note |-> threads[k][j], thread |-> owner[threads[k][j]], at |-> at[threads[k][j]],
                 reply |-> IF j > 1 THEN threads[k][1] ELSE 0]
  <1> DEFINE T == threads[k]  X == C!Summaries(threads[k])
  <1>1. Len(T) \in Nat \ {0} /\ DOMAIN T = 1 .. Len(T) /\ \A j \in DOMAIN T : T[j] \in C!Note
    BY Elements
  <1>2. X = [j \in 1 .. Len(T) |->
               [note |-> T[j], thread |-> owner[T[j]], at |-> at[T[j]],
                reply |-> IF j > 1 THEN T[1] ELSE 0]]
    BY <1>1 DEF C!Summaries, C!NoNote
  <1>3. \A j \in 1 .. Len(T) : X[j] \in Summary
    <2> HIDE DEF X, T
    <2>1. C!Note \subseteq Nat /\ T[1] \in C!Note
      BY <1>1, Bounds DEF C!Note
    <2>2. \A j \in 1 .. Len(T) : /\ T[j] \in Nat /\ owner[T[j]] \in Nat /\ at[T[j]] \in Nat
                                 /\ (IF j > 1 THEN T[1] ELSE 0) \in Nat
      BY <1>1, <2>1 DEF CommentType
    <2>3. QED
      BY <1>2, <2>2 DEF Summary
  <1> HIDE DEF T
  <1>4. X \in [1 .. Len(T) -> Summary]
    BY <1>2, <1>3
  <1>5. X \in Seq(Summary)
    BY <1>1, <1>4, SeqDef
  <1>6. DOMAIN X = 1 .. Len(T) /\ Len(X) = Len(T)
    BY <1>1, <1>2, <1>5, LenProperties
  <1>7. X \in Batch
    BY <1>1, <1>5, <1>6, EmptySeq DEF Batch
  <1>8. QED
    BY <1>1, <1>2, <1>6, <1>7 DEF T

\* A page has the discussions from its first place on.
LEMMA Paged ==
  ASSUME CommentType, ThreadInv, NEW r \in Run, C!Fetch(r)
  PROVE  LET lo == (page[r] - 1) * PageSize
             isLast == lo + PageSize >= Len(threads)
         IN  /\ lo \in Nat /\ page[r] \in Nat \ {0}
             /\ rpc[r] = "fetch"
             /\ rpc' = [rpc EXCEPT ![r] = IF isLast THEN "save" ELSE "fetch"]
             /\ page' = [page EXCEPT ![r] = IF isLast THEN 0 ELSE page[r] + 1]
             /\ got' = [got EXCEPT ![r] = got'[r]] /\ got'[r] \in Seq(Batch)
             /\ lo <= Len(threads) =>
                  Len(got'[r]) = Len(got[r]) + (IF isLast THEN Len(threads) - lo ELSE PageSize)
             /\ \A k \in DOMAIN got'[r] :
                  \/ k \in DOMAIN got[r] /\ got'[r][k] = got[r][k]
                  \/ LET l == lo + k - Len(got[r])
                     IN  l \in DOMAIN threads /\ got'[r][k] = C!Summaries(threads[l])
             /\ UNCHANGED <<threads, owner, at, notes, now, rows, activity, last, cpc, posted,
                            quiet, mirrored>>
  <1> DEFINE lo == (page[r] - 1) * PageSize
             isLast == lo + PageSize >= Len(threads)
             up == IF isLast THEN Len(threads) ELSE lo + PageSize
             P == C!PageOf(page[r])
             new == [k \in DOMAIN P |-> C!Summaries(P[k])]
  <1>0. C!FetchPage(r, page[r] * PageSize >= Len(threads))
    BY DEF C!Fetch
  <1>1. page[r] \in Nat \ {0} /\ rpc[r] = "fetch"
    BY <1>0 DEF C!FetchPage, CommentType
  <1>2. lo \in Nat /\ PageSize \in Nat \ {0} /\ page[r] * PageSize = lo + PageSize
    BY <1>1, Bounds
  <1> HIDE DEF lo
  <1>3. Len(threads) \in Nat /\ DOMAIN threads = 1 .. Len(threads)
        /\ Len(got[r]) \in Nat /\ DOMAIN got[r] = 1 .. Len(got[r])
    BY Elements
  <1>4. P = SubSeq(threads, lo + 1, up)
    <2>1. lo = (page[r] - 1) * PageSize
      BY DEF lo
    <2>2. (IF page[r] * PageSize < Len(threads) THEN page[r] * PageSize ELSE Len(threads)) = up
      BY <1>2, <1>3
    <2>3. QED
      BY <2>1, <2>2 DEF C!PageOf
  <1>5. up \in Nat /\ up <= Len(threads) /\ (lo <= Len(threads) => lo <= up)
    BY <1>2, <1>3
  <1> HIDE DEF up, P
  <1>6. /\ P \in Seq(Discussion)
        /\ Len(P) = IF lo + 1 <= up THEN up - lo ELSE 0
        /\ \A k \in 1 .. up - lo : P[k] = threads[lo + k]
    <2>1. \A i \in lo + 1 .. up : threads[i] \in Discussion
      BY <1>2, <1>3, <1>5, Elements
    <2>2. /\ P \in Seq(Discussion)
          /\ Len(P) = IF lo + 1 <= up THEN up - (lo + 1) + 1 ELSE 0
          /\ \A k \in 1 .. up - (lo + 1) + 1 : P[k] = threads[(lo + 1) + k - 1]
      BY <1>2, <1>4, <1>5, <2>1, SubSeqProperties
    <2>3. QED
      BY <1>2, <1>5, <2>2
  <1>7. DOMAIN P = 1 .. Len(P) /\ Len(P) \in Nat
    BY <1>6, LenProperties
  <1>8. \A k \in 1 .. Len(P) : lo + k \in DOMAIN threads /\ P[k] = threads[lo + k]
    BY <1>2, <1>3, <1>5, <1>6
  <1>9. /\ new \in Seq(Batch) /\ Len(new) = Len(P) /\ DOMAIN new = 1 .. Len(P)
        /\ \A k \in 1 .. Len(P) : new[k] = C!Summaries(threads[lo + k])
    <2>1. new \in [1 .. Len(P) -> Batch]
      BY <1>7, <1>8, Summarised
    <2>2. new \in Seq(Batch)
      BY <1>7, <2>1, SeqDef
    <2>3. Len(new) = Len(P)
      BY <1>7, <2>2, LenProperties
    <2>4. QED
      BY <1>7, <1>8, <2>2, <2>3
  <1>10. got' = [got EXCEPT ![r] = got[r] \o new]
    BY <1>0 DEF C!FetchPage, P
  <1> HIDE DEF new
  <1>11. got'[r] = got[r] \o new /\ got[r] \in Seq(Batch)
    BY <1>10 DEF CommentType
  <1>12. /\ got'[r] \in Seq(Batch) /\ Len(got'[r]) = Len(got[r]) + Len(P)
         /\ \A k \in 1 .. Len(got[r]) + Len(P) :
              got'[r][k] = IF k <= Len(got[r]) THEN got[r][k] ELSE new[k - Len(got[r])]
    <2>1. /\ got[r] \o new \in Seq(Batch) /\ Len(got[r] \o new) = Len(got[r]) + Len(new)
          /\ \A k \in 1 .. Len(got[r]) + Len(new) :
               (got[r] \o new)[k] = IF k <= Len(got[r]) THEN got[r][k] ELSE new[k - Len(got[r])]
      <3> DEFINE old == got[r]
      <3>1. old \in Seq(Batch) /\ new \in Seq(Batch)
        BY <1>9, <1>11
      <3> HIDE DEF old
      <3>2. /\ old \o new \in Seq(Batch) /\ Len(old \o new) = Len(old) + Len(new)
            /\ \A k \in 1 .. Len(old) + Len(new) :
                 (old \o new)[k] = IF k <= Len(old) THEN old[k] ELSE new[k - Len(old)]
        BY <3>1, ConcatProperties
      <3>3. QED
        BY <3>2 DEF old
    <2>2. got'[r] = got[r] \o new /\ Len(new) = Len(P)
      BY <1>9, <1>11
    <2> DEFINE after == got'[r]
    <2>3. after = got[r] \o new
      BY <2>2
    <2> HIDE DEF after
    <2>4. /\ after \in Seq(Batch) /\ Len(after) = Len(got[r]) + Len(P)
          /\ \A k \in 1 .. Len(got[r]) + Len(P) :
               after[k] = IF k <= Len(got[r]) THEN got[r][k] ELSE new[k - Len(got[r])]
      BY <2>1, <2>2, <2>3
    <2>5. QED
      BY <2>4 DEF after
  <1>13. DOMAIN got'[r] = 1 .. Len(got[r]) + Len(P)
    BY <1>12, LenProperties
  <1>14. ASSUME NEW k \in DOMAIN got'[r]
         PROVE  \/ k \in DOMAIN got[r] /\ got'[r][k] = got[r][k]
                \/ LET l == lo + k - Len(got[r])
                   IN  l \in DOMAIN threads /\ got'[r][k] = C!Summaries(threads[l])
    <2>1. CASE k <= Len(got[r])
      BY <1>3, <1>12, <1>13, <2>1
    <2>2. CASE k > Len(got[r])
      <3>1. k - Len(got[r]) \in 1 .. Len(P) /\ lo + (k - Len(got[r])) = lo + k - Len(got[r])
        BY <1>2, <1>3, <1>7, <1>13, <2>2
      <3>2. got'[r][k] = new[k - Len(got[r])]
        BY <1>3, <1>12, <1>13, <2>2
      <3>3. QED
        BY <1>8, <1>9, <3>1, <3>2
    <2>3. QED
      BY <1>3, <1>13, <2>1, <2>2
  <1>15. lo <= Len(threads) =>
           Len(got'[r]) = Len(got[r]) + (IF isLast THEN Len(threads) - lo ELSE PageSize)
    <2>1. lo <= Len(threads) => Len(P) = up - lo
      BY <1>2, <1>3, <1>5, <1>6
    <2>2. up = IF isLast THEN Len(threads) ELSE lo + PageSize
      BY DEF up
    <2>3. lo <= Len(threads) => Len(got'[r]) = Len(got[r]) + (up - lo)
      BY <1>12, <2>1
    <2>4. up - lo = IF isLast THEN Len(threads) - lo ELSE PageSize
      BY <1>2, <1>3, <2>2
    <2> HIDE DEF isLast
    <2>5. QED
      BY <2>3, <2>4
  <1>16. /\ rpc' = [rpc EXCEPT ![r] = IF isLast THEN "save" ELSE "fetch"]
         /\ page' = [page EXCEPT ![r] = IF isLast THEN 0 ELSE page[r] + 1]
         /\ UNCHANGED <<threads, owner, at, notes, now, rows, activity, last, cpc, posted,
                        quiet, mirrored>>
    BY <1>0, <1>2 DEF C!FetchPage, C!gitlab, C!callVars
  <1>17. got' = [got EXCEPT ![r] = got'[r]]
    BY <1>10, <1>11
  <1>18. QED
    BY <1>1, <1>2, <1>12, <1>14, <1>15, <1>16, <1>17 DEF lo

\* One note is saved; those after it are left in their order.
LEMMA Saved ==
  ASSUME CommentType, NEW r \in Run, C!Save(r)
  PROVE  LET s == got[r][1][1]
         IN  /\ rpc[r] = "save" /\ 1 \in DOMAIN got[r] /\ 1 \in DOMAIN got[r][1] /\ s \in Summary
             /\ rows' = [rows EXCEPT ![s.note] = [thread |-> s.thread, reply |-> s.reply, at |-> s.at]]
             /\ last' = [last EXCEPT ![r] = IF s.at > last[r] THEN s.at ELSE last[r]]
             /\ got' = [got EXCEPT ![r] = got'[r]] /\ got'[r] \in Seq(Batch)
             /\ \A k \in DOMAIN got'[r] :
                  \/ \E l \in DOMAIN got[r] : got'[r][k] = got[r][l]
                  \/ \A j \in DOMAIN got'[r][k] :
                       j + 1 \in DOMAIN got[r][1] /\ got'[r][k][j] = got[r][1][j + 1]
             /\ \A l \in DOMAIN got[r] : \A i \in DOMAIN got[r][l] :
                  \/ l = 1 /\ i = 1
                  \/ \E k \in DOMAIN got'[r] : \E j \in DOMAIN got'[r][k] :
                       got'[r][k][j] = got[r][l][i]
             /\ UNCHANGED <<threads, owner, at, notes, now, activity, rpc, page, cpc, posted,
                            quiet, mirrored>>
  <1> DEFINE Before == got[r]  D == got[r][1]  s == got[r][1][1]
  <1>1. /\ rpc[r] = "save" /\ Before # <<>> /\ Before \in Seq(Batch)
        /\ rows' = [rows EXCEPT ![s.note] = [thread |-> s.thread, reply |-> s.reply, at |-> s.at]]
        /\ last' = [last EXCEPT ![r] = IF s.at > last[r] THEN s.at ELSE last[r]]
        /\ got' = [got EXCEPT ![r] = IF Len(D) = 1 THEN Tail(Before) ELSE [Before EXCEPT ![1] = Tail(D)]]
        /\ UNCHANGED <<threads, owner, at, notes, now, activity, rpc, page, cpc, posted,
                       quiet, mirrored>>
    <2>1. /\ rpc[r] = "save" /\ got[r] # <<>> /\ C!SaveNote(r, s)
          /\ got' = [got EXCEPT ![r] = IF Len(@[1]) = 1 THEN Tail(@)
                                       ELSE [@ EXCEPT ![1] = Tail(got[r][1])]]
      BY DEF C!Save
    <2>2. /\ C!Upsert(s)
          /\ last' = [last EXCEPT ![r] = IF s.at > @ THEN s.at ELSE @]
          /\ UNCHANGED <<threads, owner, at, notes, now, activity, rpc, page, cpc, posted,
                         quiet, mirrored>>
      BY <2>1 DEF C!SaveNote, C!gitlab, C!callVars
    <2>3. rows' = [rows EXCEPT ![s.note] = [thread |-> s.thread, reply |-> s.reply, at |-> s.at]]
      BY <2>2 DEF C!Upsert
    <2>4. got' = [got EXCEPT ![r] = IF Len(D) = 1 THEN Tail(Before) ELSE [Before EXCEPT ![1] = Tail(D)]]
      BY <2>1
    <2>5. Before \in Seq(Batch)
      BY DEF CommentType
    <2>6. QED
      BY <2>1, <2>2, <2>3, <2>4, <2>5
  <1>2. Len(Before) \in Nat \ {0} /\ DOMAIN Before = 1 .. Len(Before) /\ 1 \in DOMAIN Before
    BY <1>1, EmptySeq, LenProperties
  <1>3. /\ \A l \in DOMAIN Before : Before[l] \in Seq(Summary) /\ Len(Before[l]) \in Nat \ {0}
                               /\ DOMAIN Before[l] = 1 .. Len(Before[l])
        /\ D \in Seq(Summary) /\ D # <<>> /\ 1 \in DOMAIN D /\ s \in Summary
    BY <1>2, Elements DEF Batch
  <1>4. got'[r] = (IF Len(D) = 1 THEN Tail(Before) ELSE [Before EXCEPT ![1] = Tail(D)])
        /\ got' = [got EXCEPT ![r] = got'[r]]
    BY <1>1 DEF CommentType
  <1>5. CASE Len(D) = 1
    <2>1. /\ got'[r] \in Seq(Batch) /\ Len(got'[r]) = Len(Before) - 1
          /\ \A k \in 1 .. Len(Before) - 1 : got'[r][k] = Before[k + 1]
      <3> DEFINE old == got[r]  T == got'[r]
      <3>1. old \in Seq(Batch) /\ old # <<>> /\ T = Tail(old)
        BY <1>1, <1>4, <1>5
      <3> HIDE DEF old, T
      <3>2. /\ T \in Seq(Batch) /\ Len(T) = Len(old) - 1
            /\ \A k \in 1 .. Len(old) - 1 : T[k] = old[k + 1]
        BY <3>1, HeadTailProperties
      <3>3. QED
        BY <3>2 DEF old, T
    <2>2. DOMAIN got'[r] = 1 .. Len(Before) - 1
      BY <2>1, LenProperties
    <2>3. \A k \in DOMAIN got'[r] : k + 1 \in DOMAIN Before /\ got'[r][k] = Before[k + 1]
      BY <1>2, <2>1, <2>2
    <2>4. \A l \in DOMAIN Before : l = 1 \/ (l - 1 \in DOMAIN got'[r] /\ got'[r][l - 1] = Before[l])
      <3>1. \A l \in 1 .. Len(Before) : l # 1 => l - 1 \in 1 .. Len(Before) - 1 /\ (l - 1) + 1 = l
        BY <1>2
      <3>2. QED
        BY <1>2, <2>1, <2>2, <3>1
    <2>5. \A i \in DOMAIN D : i = 1
      BY <1>2, <1>3, <1>5
    <2>6. QED
      BY <1>1, <1>2, <1>3, <1>4, <2>1, <2>3, <2>4, <2>5
  <1>6. CASE Len(D) # 1
    <2>1. /\ Tail(D) \in Seq(Summary) /\ Len(Tail(D)) = Len(D) - 1
          /\ \A i \in 1 .. Len(D) - 1 : Tail(D)[i] = D[i + 1]
      BY <1>3, HeadTailProperties
    <2>2. Len(D) \in Nat \ {0}
      BY <1>2, <1>3
    <2>3. Tail(D) \in Batch /\ DOMAIN Tail(D) = 1 .. Len(D) - 1
      <3> DEFINE T == Tail(got[r][1])
      <3>1. T \in Seq(Summary) /\ Len(T) \in Nat \ {0}
        BY <1>6, <2>1, <2>2
      <3> HIDE DEF T
      <3>2. T \in Batch /\ DOMAIN T = 1 .. Len(T)
        BY <3>1, EmptySeq, LenProperties DEF Batch
      <3>3. QED
        BY <2>1, <3>2 DEF T
    <2>4. /\ got'[r] \in Seq(Batch) /\ DOMAIN got'[r] = DOMAIN Before
          /\ got'[r][1] = Tail(D) /\ \A k \in DOMAIN Before \ {1} : got'[r][k] = Before[k]
      <3> DEFINE old == got[r]  T == Tail(got[r][1])  N == got'[r]
      <3>1. old \in Seq(Batch) /\ 1 \in DOMAIN old /\ T \in Batch /\ N = [old EXCEPT ![1] = T]
        BY <1>1, <1>2, <1>4, <1>6, <2>3
      <3> HIDE DEF old, T, N
      <3>2. N \in Seq(Batch)
        BY <3>1, ExceptSeq
      <3>3. DOMAIN N = DOMAIN old /\ N[1] = T /\ \A k \in DOMAIN old \ {1} : N[k] = old[k]
        BY <3>1
      <3>4. QED
        BY <3>2, <3>3 DEF old, T, N
    <2>5. \A j \in DOMAIN Tail(D) : j + 1 \in DOMAIN D /\ Tail(D)[j] = D[j + 1]
      BY <1>2, <1>3, <2>1, <2>2, <2>3
    <2>6. \A i \in DOMAIN D : i = 1 \/ (i - 1 \in DOMAIN Tail(D) /\ Tail(D)[i - 1] = D[i])
      <3>1. \A i \in 1 .. Len(D) : i # 1 => i - 1 \in 1 .. Len(D) - 1 /\ (i - 1) + 1 = i
        BY <2>2
      <3>2. DOMAIN D = 1 .. Len(D)
        BY <1>2, <1>3
      <3>3. QED
        BY <2>1, <2>3, <3>1, <3>2
    <2>7. QED
      <3>1. \A k \in DOMAIN got'[r] :
              \/ \E l \in DOMAIN got[r] : got'[r][k] = got[r][l]
              \/ \A j \in DOMAIN got'[r][k] :
                   j + 1 \in DOMAIN got[r][1] /\ got'[r][k][j] = got[r][1][j + 1]
        BY <2>4, <2>5
      <3>2. ASSUME NEW l \in DOMAIN got[r], NEW i \in DOMAIN got[r][l], ~(l = 1 /\ i = 1)
            PROVE  \E k \in DOMAIN got'[r] : \E j \in DOMAIN got'[r][k] :
                     got'[r][k][j] = got[r][l][i]
        <4>1. CASE l = 1
          <5>1. i - 1 \in DOMAIN got'[r][1] /\ got'[r][1][i - 1] = got[r][l][i]
            BY <2>4, <2>6, <3>2, <4>1
          <5>2. 1 \in DOMAIN got'[r]
            BY <1>2, <2>4
          <5>3. QED
            BY <5>1, <5>2
        <4>2. CASE l # 1
          BY <2>4, <4>2
        <4>3. QED
          BY <4>1, <4>2
      <3>3. \A l \in DOMAIN got[r] : \A i \in DOMAIN got[r][l] :
              \/ l = 1 /\ i = 1
              \/ \E k \in DOMAIN got'[r] : \E j \in DOMAIN got'[r][k] :
                   got'[r][k][j] = got[r][l][i]
        BY <3>2
      <3>4. got'[r] \in Seq(Batch) /\ got' = [got EXCEPT ![r] = got'[r]]
        BY <1>4, <2>4
      <3>5. QED
        BY <1>1, <1>2, <1>3, <3>1, <3>3, <3>4, Zenon
  <1>7. QED
    BY <1>5, <1>6

\* Each step keeps the types.
LEMMA CommentTypeStep ==
  ASSUME CommentType, ThreadInv, [C!Next]_(C!vars)
  PROVE  CommentType'
  <1> USE DEF C!callVars, C!gitlab, C!runVars
  <1>0. C!Note \subseteq Nat /\ C!NoNote = 0 /\ 0 \in Nat
    BY Bounds DEF C!Note, C!NoNote
  <1>1. ASSUME NEW d \in Nat, C!Grow(d)
        PROVE  /\ threads' \in Seq(Discussion)
               /\ owner' \in [C!Note -> Nat] /\ at' \in [C!Note -> Nat]
               /\ notes' \in Nat /\ now' \in Nat
               /\ quiet' \subseteq Run /\ mirrored' \in BOOLEAN
    <2>1. /\ notes + 1 \in C!Note /\ notes' = notes + 1 /\ now' = now + 1
          /\ at' = [at EXCEPT ![notes + 1] = now + 1]
          /\ owner' = [owner EXCEPT ![notes + 1] = owner'[notes + 1]]
          /\ owner'[notes + 1] \in Nat
          /\ threads' \in Seq(Discussion) /\ quiet' = {} /\ mirrored' = FALSE
      BY <1>1, Grown
    <2>2. notes' \in Nat /\ now' \in Nat /\ now + 1 \in Nat
      BY <2>1 DEF CommentType
    <2>3. at' \in [C!Note -> Nat]
      BY <2>1, <2>2 DEF CommentType
    <2>4. owner' \in [C!Note -> Nat]
      BY <2>1 DEF CommentType
    <2>5. QED
      BY <2>1, <2>2, <2>3, <2>4
  <1>2. ASSUME NEW d \in C!Note \cup {C!NoNote}, C!Elsewhere(d) PROVE CommentType'
    <2>1. /\ C!Grow(d) /\ d \in Nat
          /\ UNCHANGED <<rows, activity, rpc, page, got, last, cpc, posted>>
      BY <1>0, <1>2 DEF C!Elsewhere
    <2>2. QED
      BY <1>1, <2>1 DEF CommentType
  <1>3. ASSUME NEW n \in C!Note, C!Edit(n) PROVE CommentType'
    <2>1. /\ now' = now + 1 /\ at' = [at EXCEPT ![n] = now + 1] /\ quiet' = {} /\ mirrored' = FALSE
          /\ UNCHANGED <<threads, owner, notes, rows, activity, rpc, page, got, last, cpc, posted>>
      BY <1>3 DEF C!Edit, C!Disturb
    <2>2. now' \in Nat /\ now + 1 \in Nat
      BY <2>1 DEF CommentType
    <2>3. at' \in [C!Note -> Nat]
      BY <2>1, <2>2 DEF CommentType
    <2>4. QED
      BY <2>1, <2>2, <2>3 DEF CommentType
  <1>4. ASSUME NEW n \in C!Note, C!Delete(n) PROVE CommentType'
    <2>1. threads' \in Seq(Discussion)
      BY <1>4, Deleted
    <2>2. /\ now' = now + 1 /\ quiet' = {} /\ mirrored' = FALSE
          /\ UNCHANGED <<owner, at, notes, rows, activity, rpc, page, got, last, cpc, posted>>
      BY <1>4 DEF C!Delete, C!Disturb
    <2>3. now' \in Nat
      BY <2>2 DEF CommentType
    <2>4. QED
      BY <2>1, <2>2, <2>3 DEF CommentType
  <1>5. ASSUME NEW r \in Run, C!Begin(r) PROVE CommentType'
    <2>1. /\ rpc' = [rpc EXCEPT ![r] = "fetch"] /\ page' = [page EXCEPT ![r] = 1]
          /\ last' = [last EXCEPT ![r] = activity] /\ quiet' \subseteq Run
          /\ UNCHANGED <<threads, owner, at, notes, now, rows, activity, got, cpc, posted, mirrored>>
      BY <1>5 DEF C!Begin
    <2>2. /\ rpc' \in [Run -> {"idle", "fetch", "save"}] /\ page' \in [Run -> Nat]
          /\ last' \in [Run -> Nat]
          /\ \A q \in Run : rpc'[q] = "fetch" => page'[q] # 0
      BY <2>1 DEF CommentType
    <2>3. QED
      BY <2>1, <2>2 DEF CommentType
  <1>6. ASSUME NEW r \in Run, C!Fetch(r) PROVE CommentType'
    <2> DEFINE lo == (page[r] - 1) * PageSize
               isLast == lo + PageSize >= Len(threads)
    <2>1. /\ page[r] \in Nat \ {0}
          /\ rpc' = [rpc EXCEPT ![r] = IF isLast THEN "save" ELSE "fetch"]
          /\ page' = [page EXCEPT ![r] = IF isLast THEN 0 ELSE page[r] + 1]
          /\ got' = [got EXCEPT ![r] = got'[r]] /\ got'[r] \in Seq(Batch)
          /\ UNCHANGED <<threads, owner, at, notes, now, rows, activity, last, cpc, posted,
                         quiet, mirrored>>
      BY <1>6, Paged
    <2> HIDE DEF isLast
    <2>2. /\ rpc' \in [Run -> {"idle", "fetch", "save"}] /\ page' \in [Run -> Nat]
          /\ \A q \in Run : rpc'[q] = "fetch" => page'[q] # 0
      BY <2>1 DEF CommentType
    <2>3. got' \in [Run -> Seq(Batch)]
      BY <2>1 DEF CommentType
    <2>4. QED
      BY <2>1, <2>2, <2>3 DEF CommentType
  <1>7. ASSUME NEW r \in Run, C!Save(r) PROVE CommentType'
    <2> DEFINE s == got[r][1][1]
    <2>1. /\ s \in Summary
          /\ rows' = [rows EXCEPT ![s.note] = [thread |-> s.thread, reply |-> s.reply, at |-> s.at]]
          /\ last' = [last EXCEPT ![r] = IF s.at > last[r] THEN s.at ELSE last[r]]
          /\ got' = [got EXCEPT ![r] = got'[r]] /\ got'[r] \in Seq(Batch)
          /\ UNCHANGED <<threads, owner, at, notes, now, activity, rpc, page, cpc, posted,
                         quiet, mirrored>>
      BY <1>7, Saved
    <2> HIDE DEF s
    <2>2. [thread |-> s.thread, reply |-> s.reply, at |-> s.at] \in CommentRow /\ s.at \in Nat
      BY <2>1 DEF Summary, CommentRow
    <2>3. rows' \in [C!Note -> CommentRow] /\ last' \in [Run -> Nat]
      BY <2>1, <2>2 DEF CommentType
    <2>4. got' \in [Run -> Seq(Batch)]
      BY <2>1 DEF CommentType
    <2>5. QED
      BY <2>1, <2>3, <2>4 DEF CommentType
  <1>8. ASSUME NEW r \in Run, C!Ends(r)
        PROVE  /\ rpc' \in [Run -> {"idle", "fetch", "save"}] /\ page' \in [Run -> Nat]
               /\ got' \in [Run -> Seq(Batch)] /\ last' \in [Run -> Nat] /\ quiet' \subseteq Run
               /\ \A q \in Run : rpc'[q] = "fetch" => page'[q] # 0
    <2>1. <<>> \in Seq(Batch)
      BY EmptySeq
    <2>2. QED
      BY <1>8, <2>1 DEF C!Ends, CommentType
  <1>9. ASSUME NEW r \in Run, C!Finish(r) PROVE CommentType'
    <2>1. activity' \in Nat /\ mirrored' \in BOOLEAN
      BY <1>9 DEF C!Finish, CommentType
    <2>2. QED
      BY <1>8, <1>9, <2>1 DEF C!Finish, CommentType
  <1>10. ASSUME NEW r \in Run, C!FailRun(r) PROVE CommentType'
    BY <1>8, <1>10 DEF C!FailRun, CommentType
  <1>11. ASSUME NEW c \in Commenter, NEW to \in C!Note \cup {C!NoNote}, C!Post(c, to)
         PROVE  CommentType'
    <2> DEFINE d == IF to = C!NoNote THEN C!NoNote ELSE rows[to].thread
               s == [note |-> notes + 1, thread |-> owner'[notes + 1], at |-> now + 1, reply |-> to]
    <2>1. /\ C!Grow(d) /\ cpc' = [cpc EXCEPT ![c] = "save"] /\ posted' = [posted EXCEPT ![c] = <<s>>]
          /\ UNCHANGED <<rows, activity, rpc, page, got, last>>
      BY <1>11 DEF C!Post
    <2>2. d \in Nat
      BY <1>0 DEF CommentType, CommentRow
    <2>3. notes + 1 \in C!Note /\ owner'[notes + 1] \in Nat
      <3> HIDE DEF d
      <3>1. QED
        BY <2>1, <2>2, Grown
    <2>4. s \in Summary
      BY <1>0, <2>3 DEF Summary, CommentType
    <2> HIDE DEF d, s
    <2>5. <<s>> \in Seq(Summary) /\ <<s>> # <<>>
      BY <2>4
    <2>6. /\ cpc' \in [Commenter -> {"idle", "save", "touch"}]
          /\ posted' \in [Commenter -> Seq(Summary)]
          /\ \A b \in Commenter : cpc'[b] # "idle" => posted'[b] # <<>>
      BY <2>1, <2>5 DEF CommentType
    <2>7. QED
      BY <1>1, <2>1, <2>2, <2>6 DEF CommentType
  <1>12. ASSUME NEW c \in Commenter, C!SavePosted(c) PROVE CommentType'
    <2> DEFINE s == posted[c][1]
    <2>1. posted[c] \in Seq(Summary) /\ posted[c] # <<>>
      BY <1>12 DEF C!SavePosted, CommentType
    <2>2. s \in Summary
      BY <2>1, ElementOfSeq, EmptySeq, LenProperties
    <2>3. /\ rows' = [rows EXCEPT ![s.note] = [thread |-> s.thread, reply |-> s.reply, at |-> s.at]]
          /\ cpc' = [cpc EXCEPT ![c] = "touch"] /\ cpc[c] = "save"
          /\ UNCHANGED <<threads, owner, at, notes, now, activity, rpc, page, got, last, posted>>
          /\ quiet' = {} /\ mirrored' = FALSE
      BY <1>12 DEF C!SavePosted, C!Upsert, C!Disturb
    <2> HIDE DEF s
    <2>4. rows' \in [C!Note -> CommentRow]
      BY <2>2, <2>3 DEF CommentType, Summary, CommentRow
    <2>5. QED
      BY <2>3, <2>4 DEF CommentType
  <1>13. ASSUME NEW c \in Commenter, C!Touch(c) \/ C!FailCall(c) PROVE CommentType'
    <2>1. /\ cpc' = [cpc EXCEPT ![c] = "idle"] /\ posted' = [posted EXCEPT ![c] = <<>>]
          /\ UNCHANGED <<threads, owner, at, notes, now, rows, rpc, page, got, last, quiet, mirrored>>
      BY <1>13 DEF C!Touch, C!FailCall
    <2>2. activity' \in Nat
      <3>1. cpc[c] # "idle" /\ (activity' = activity \/ activity' = posted[c][1].at)
        BY <1>13 DEF C!Touch, C!FailCall
      <3>2. posted[c] \in Seq(Summary) /\ posted[c] # <<>>
        BY <3>1 DEF CommentType
      <3>3. posted[c][1] \in Summary
        BY <3>2, ElementOfSeq, EmptySeq, LenProperties
      <3>4. QED
        BY <3>1, <3>3 DEF CommentType, Summary
    <2>3. /\ cpc' \in [Commenter -> {"idle", "save", "touch"}]
          /\ posted' \in [Commenter -> Seq(Summary)]
          /\ \A b \in Commenter : cpc'[b] # "idle" => posted'[b] # <<>>
      BY <2>1, EmptySeq DEF CommentType
    <2>4. QED
      BY <2>1, <2>2, <2>3 DEF CommentType
  <1>14. CASE UNCHANGED C!vars
    BY <1>14 DEF C!vars, CommentType
  <1>15. QED
    BY <1>2, <1>3, <1>4, <1>5, <1>6, <1>7, <1>9, <1>10, <1>11, <1>12, <1>13, <1>14 DEF C!Next

\* New notes join one discussion, deleted ones leave it.
LEMMA ThreadStep ==
  ASSUME CommentType, ThreadInv, [C!Next]_(C!vars)
  PROVE  ThreadInv'
  <1> USE DEF C!callVars, C!gitlab, C!runVars
  <1>0. C!Note \subseteq Nat /\ C!NoNote = 0 /\ 0 \in Nat
    BY Bounds DEF C!Note, C!NoNote
  <1>1. ASSUME NEW d \in Nat, C!Grow(d) PROVE ThreadInv'
    <2> DEFINE n == notes + 1
    <2>1. /\ n \in C!Note /\ notes' = n /\ owner' = [owner EXCEPT ![n] = owner'[n]]
          /\ owner'[n] # 0 /\ Added(n) /\ notes \in Nat /\ owner \in [C!Note -> Nat]
      BY <1>1, Grown DEF CommentType
    <2>2. \A l \in DOMAIN threads : \A i \in DOMAIN threads[l] :
            threads[l][i] \in C!Note /\ threads[l][i] <= notes /\ threads[l][i] # n
            /\ owner'[threads[l][i]] = owner[threads[l][i]]
            /\ 1 \in DOMAIN threads[l]
      <3> TAKE l \in DOMAIN threads
      <3> TAKE i \in DOMAIN threads[l]
      <3>1. threads[l][i] \in C!Note /\ threads[l][i] <= notes /\ 1 \in DOMAIN threads[l]
        BY Elements DEF ThreadInv
      <3>2. threads[l][i] # n
        BY <1>0, <2>1, <3>1
      <3>3. QED
        BY <2>1, <3>1, <3>2
    <2>3. \A m \in C!Note : m <= notes' <=> owner'[m] # 0
      BY <1>0, <2>1 DEF ThreadInv
    <2>4. PICK k \in DOMAIN threads' : \E j \in DOMAIN threads'[k] :
            /\ threads'[k][j] = n
            /\ j # 1 => owner[threads'[k][1]] = owner'[n]
            /\ \A i \in DOMAIN threads'[k] : i <= j
            /\ \A l \in DOMAIN threads' : \A i \in DOMAIN threads'[l] :
                 \/ l = k /\ i = j
                 \/ l \in DOMAIN threads /\ i \in DOMAIN threads[l] /\ threads'[l][i] = threads[l][i]
      BY <2>1 DEF Added
    <2>5. PICK j \in DOMAIN threads'[k] :
            /\ threads'[k][j] = n
            /\ j # 1 => owner[threads'[k][1]] = owner'[n]
            /\ \A i \in DOMAIN threads'[k] : i <= j
            /\ \A l \in DOMAIN threads' : \A i \in DOMAIN threads'[l] :
                 \/ l = k /\ i = j
                 \/ l \in DOMAIN threads /\ i \in DOMAIN threads[l] /\ threads'[l][i] = threads[l][i]
      BY <2>4
    <2>6. \A l \in DOMAIN threads' : DOMAIN threads'[l] \subseteq Nat \ {0} /\ 1 \in DOMAIN threads'[l]
      <3>1. threads' \in Seq(Discussion)
        BY <1>1, Grown
      <3>2. \A l \in DOMAIN threads' : threads'[l] \in Discussion
        BY <3>1, ElementOfSeq, LenProperties
      <3>3. QED
        BY <3>2, EmptySeq, LenProperties DEF Discussion
    <2> HIDE DEF n
    <2>7. ASSUME NEW l \in DOMAIN threads', NEW i \in DOMAIN threads'[l]
          PROVE  threads'[l][i] <= notes' /\ owner'[threads'[l][i]] = owner'[threads'[l][1]]
      <3>1. CASE l = k /\ i = j
        <4>1. CASE j = 1
          BY <1>0, <2>1, <2>5, <3>1, <4>1
        <4>2. CASE j # 1
          <5>1. /\ k \in DOMAIN threads /\ 1 \in DOMAIN threads[k]
                /\ threads'[k][1] = threads[k][1]
            BY <2>5, <2>6, <4>2
          <5>2. QED
            BY <1>0, <2>1, <2>2, <2>5, <3>1, <4>2, <5>1
        <4>3. QED
          BY <4>1, <4>2
      <3>2. CASE ~(l = k /\ i = j)
        <4>1. l \in DOMAIN threads /\ i \in DOMAIN threads[l] /\ threads'[l][i] = threads[l][i]
          BY <2>5, <3>2
        <4>2. threads'[l][i] <= notes'
          <5>1. threads[l][i] \in Nat /\ threads[l][i] <= notes /\ notes \in Nat /\ notes' = notes + 1
            BY <1>0, <2>1, <2>2, <4>1 DEF n
          <5>2. QED
            BY <4>1, <5>1
        <4>3. owner'[threads'[l][i]] = owner[threads[l][1]]
          BY <2>2, <4>1 DEF ThreadInv
        <4>4. CASE l = k /\ j = 1
          <5>1. i <= 1 /\ i \in Nat \ {0}
            BY <2>5, <2>6, <4>4
          <5>2. i = 1
            BY <5>1
          <5>3. QED
            BY <3>2, <4>4, <5>2
        <4>5. CASE ~(l = k /\ j = 1)
          <5>1. 1 \in DOMAIN threads[l] /\ threads'[l][1] = threads[l][1]
            BY <2>5, <2>6, <4>5
          <5>2. QED
            BY <2>2, <4>1, <4>2, <4>3, <5>1
        <4>6. QED
          BY <4>4, <4>5
      <3>3. QED
        BY <3>1, <3>2
    <2>8. ASSUME NEW l \in DOMAIN threads', NEW m \in DOMAIN threads',
                 NEW i \in DOMAIN threads'[l], NEW h \in DOMAIN threads'[m],
                 threads'[l][i] = threads'[m][h]
          PROVE  l = m /\ i = h
      <3>1. CASE l = k /\ i = j
        BY <2>2, <2>5, <2>8, <3>1
      <3>2. CASE m = k /\ h = j
        BY <2>2, <2>5, <2>8, <3>2
      <3>3. CASE ~(l = k /\ i = j) /\ ~(m = k /\ h = j)
        <4>1. /\ l \in DOMAIN threads /\ i \in DOMAIN threads[l] /\ threads'[l][i] = threads[l][i]
              /\ m \in DOMAIN threads /\ h \in DOMAIN threads[m] /\ threads'[m][h] = threads[m][h]
          BY <2>5, <3>3
        <4>2. QED
          <5>1. \A a, b \in DOMAIN threads : \A x \in DOMAIN threads[a], y \in DOMAIN threads[b] :
                  threads[a][x] = threads[b][y] => a = b /\ x = y
            BY DEF ThreadInv
          <5>2. threads[l][i] = threads[m][h]
            BY <2>8, <4>1
          <5>3. QED
            BY <4>1, <5>1, <5>2
      <3>4. QED
        BY <3>1, <3>2, <3>3
    <2>9. QED
      BY <2>3, <2>7, <2>8 DEF ThreadInv
  <1>2. ASSUME NEW n \in C!Note, C!Delete(n) PROVE ThreadInv'
    <2>1. UNCHANGED <<owner, notes>>
      BY <1>2 DEF C!Delete
    <2>2. /\ \A k \in DOMAIN threads' : \E l \in DOMAIN threads : \A j \in DOMAIN threads'[k] :
               \E i \in DOMAIN threads[l] : threads'[k][j] = threads[l][i]
          /\ \A k, l \in DOMAIN threads' : \A i \in DOMAIN threads'[k], j \in DOMAIN threads'[l] :
               threads'[k][i] = threads'[l][j] => k = l /\ i = j
          /\ threads' \in Seq(Discussion)
      BY <1>2, Deleted
    <2>3. \A l \in DOMAIN threads' : 1 \in DOMAIN threads'[l]
      <3>1. \A l \in DOMAIN threads' : threads'[l] \in Discussion
        BY <2>2, ElementOfSeq, LenProperties
      <3>2. QED
        BY <3>1, EmptySeq, LenProperties DEF Discussion
    <2>4. ASSUME NEW k \in DOMAIN threads', NEW j \in DOMAIN threads'[k]
          PROVE  threads'[k][j] <= notes /\ owner[threads'[k][j]] = owner[threads'[k][1]]
      <3>1. PICK l \in DOMAIN threads : \A h \in DOMAIN threads'[k] :
               \E i \in DOMAIN threads[l] : threads'[k][h] = threads[l][i]
        BY <2>2
      <3>2. PICK i \in DOMAIN threads[l] : threads'[k][j] = threads[l][i]
        BY <3>1
      <3>3. PICK i1 \in DOMAIN threads[l] : threads'[k][1] = threads[l][i1]
        BY <2>3, <3>1
      <3>4. QED
        BY <3>2, <3>3 DEF ThreadInv
    <2>5. QED
      BY <2>1, <2>2, <2>4 DEF ThreadInv
  <1>3. CASE UNCHANGED <<threads, owner, notes>>
    BY <1>3 DEF ThreadInv
  <1>4. ASSUME NEW d \in C!Note \cup {C!NoNote}, C!Elsewhere(d) PROVE ThreadInv'
    BY <1>0, <1>1, <1>4 DEF C!Elsewhere
  <1>5. ASSUME NEW c \in Commenter, NEW to \in C!Note \cup {C!NoNote}, C!Post(c, to)
        PROVE  ThreadInv'
    <2> DEFINE d == IF to = C!NoNote THEN C!NoNote ELSE rows[to].thread
    <2>1. d \in Nat /\ C!Grow(d)
      BY <1>0, <1>5 DEF C!Post, CommentType, CommentRow
    <2> HIDE DEF d
    <2>2. QED
      BY <1>1, <2>1
  <1>6. ASSUME NEW n \in C!Note, C!Edit(n) PROVE UNCHANGED <<threads, owner, notes>>
    BY <1>6 DEF C!Edit
  <1>7. ASSUME NEW r \in Run, C!Begin(r) \/ C!Fetch(r) \/ C!Save(r) \/ C!Finish(r) \/ C!FailRun(r)
        PROVE  UNCHANGED <<threads, owner, notes>>
    BY <1>7 DEF C!Begin, C!Fetch, C!FetchPage, C!Save, C!SaveNote, C!Finish, C!FailRun
  <1>8. ASSUME NEW c \in Commenter, C!SavePosted(c) \/ C!Touch(c) \/ C!FailCall(c)
        PROVE  UNCHANGED <<threads, owner, notes>>
    BY <1>8 DEF C!SavePosted, C!Touch, C!FailCall
  <1>9. CASE UNCHANGED C!vars
    BY <1>3, <1>9 DEF C!vars
  <1>10. QED
    BY <1>2, <1>3, <1>4, <1>5, <1>6, <1>7, <1>8, <1>9 DEF C!Next

\* A reply is in the discussion of its parent: in the rows, where the parent's
\* row exists; in what is still to be saved, where the parent's row exists or
\* is saved before; and in GitLab's answers, where it exists.
Named(s) ==
  /\ s.note \in C!Note /\ s.note <= notes /\ s.thread = owner[s.note]
  /\ s.reply # 0 => s.reply \in C!Note /\ owner[s.reply] = s.thread

\* The same after a step.
NamedThen(s) ==
  /\ s.note \in C!Note /\ s.note <= notes' /\ s.thread = owner'[s.note]
  /\ s.reply # 0 => s.reply \in C!Note /\ owner'[s.reply] = s.thread

RowInv ==
  \A n \in C!Note : rows[n] # C!NoRow =>
    /\ rows[n].thread = owner[n] /\ n <= notes
    /\ rows[n].reply # 0 => /\ rows[n].reply \in C!Note /\ rows[rows[n].reply] # C!NoRow
                            /\ owner[rows[n].reply] = owner[n]

GotInv ==
  \A r \in Run : \A k \in DOMAIN got[r] : \A j \in DOMAIN got[r][k] :
    /\ Named(got[r][k][j])
    /\ got[r][k][j].reply # 0 => \/ rows[got[r][k][j].reply] # C!NoRow
                                 \/ j > 1 /\ got[r][k][j].reply = got[r][k][1].note

PostedInv ==
  \A c \in Commenter : cpc[c] = "save" =>
    /\ Named(posted[c][1])
    /\ posted[c][1].reply # 0 => rows[posted[c][1].reply] # C!NoRow

ParentInv == RowInv /\ GotInv /\ PostedInv

RowOf(s) == [thread |-> s.thread, reply |-> s.reply, at |-> s.at]

\* The answer of GitLab.
LEMMA PostedType ==
  ASSUME CommentType, NEW c \in Commenter, cpc[c] # "idle"
  PROVE  posted[c][1] \in Summary
  <1>1. posted[c] \in Seq(Summary) /\ posted[c] # <<>>
    BY DEF CommentType
  <1>2. QED
    BY <1>1, ElementOfSeq, EmptySeq, LenProperties

\* Which steps touch what.
LEMMA Frames ==
  ASSUME [C!Next]_(C!vars)
  PROVE  /\ \/ UNCHANGED <<owner, notes>>
            \/ \E d \in C!Note \cup {C!NoNote} : C!Elsewhere(d)
            \/ \E c \in Commenter : \E to \in C!Note \cup {C!NoNote} : C!Post(c, to)
         /\ \/ UNCHANGED rows
            \/ \E r \in Run : C!Save(r)
            \/ \E c \in Commenter : C!SavePosted(c)
         /\ \/ UNCHANGED got
            \/ \E r \in Run : C!Fetch(r) \/ C!Save(r) \/ C!Ends(r)
         /\ \/ UNCHANGED <<cpc, posted>>
            \/ \E c \in Commenter : \E to \in C!Note \cup {C!NoNote} : C!Post(c, to)
            \/ \E c \in Commenter : C!SavePosted(c) \/ C!Touch(c) \/ C!FailCall(c)
  <1> USE DEF C!callVars, C!gitlab, C!runVars
  <1>1. ASSUME NEW d \in C!Note \cup {C!NoNote}, C!Elsewhere(d)
        PROVE  UNCHANGED <<rows, got, cpc, posted>>
    BY <1>1 DEF C!Elsewhere
  <1>2. ASSUME NEW n \in C!Note, C!Edit(n) \/ C!Delete(n)
        PROVE  UNCHANGED <<owner, notes, rows, got, cpc, posted>>
    BY <1>2 DEF C!Edit, C!Delete
  <1>3. ASSUME NEW r \in Run, C!Begin(r)
        PROVE  UNCHANGED <<owner, notes, rows, got, cpc, posted>>
    BY <1>3 DEF C!Begin
  <1>4. ASSUME NEW r \in Run, C!Fetch(r)
        PROVE  UNCHANGED <<owner, notes, rows, cpc, posted>>
    BY <1>4 DEF C!Fetch, C!FetchPage
  <1>5. ASSUME NEW r \in Run, C!Save(r)
        PROVE  UNCHANGED <<owner, notes, cpc, posted>>
    BY <1>5 DEF C!Save, C!SaveNote
  <1>6. ASSUME NEW r \in Run, C!Finish(r) \/ C!FailRun(r)
        PROVE  UNCHANGED <<owner, notes, rows, cpc, posted>> /\ C!Ends(r)
    BY <1>6 DEF C!Finish, C!FailRun
  <1>7. ASSUME NEW c \in Commenter, NEW to \in C!Note \cup {C!NoNote}, C!Post(c, to)
        PROVE  UNCHANGED <<rows, got>>
    BY <1>7 DEF C!Post
  <1>8. ASSUME NEW c \in Commenter, C!SavePosted(c)
        PROVE  UNCHANGED <<owner, notes, got>>
    BY <1>8 DEF C!SavePosted
  <1>9. ASSUME NEW c \in Commenter, C!Touch(c) \/ C!FailCall(c)
        PROVE  UNCHANGED <<owner, notes, rows, got>>
    BY <1>9 DEF C!Touch, C!FailCall
  <1>10. CASE UNCHANGED C!vars
    BY <1>10 DEF C!vars
  <1>11. QED
    BY <1>1, <1>2, <1>3, <1>4, <1>5, <1>6, <1>7, <1>8, <1>9, <1>10, Zenon DEF C!Next

\* What a note belongs to never changes.
LEMMA NamedKept ==
  ASSUME CommentType, ThreadInv, [C!Next]_(C!vars)
  PROVE  /\ \A m \in C!Note : m <= notes => m <= notes' /\ owner'[m] = owner[m]
         /\ \A s : Named(s) => NamedThen(s)
  <1>0. C!Note \subseteq Nat /\ C!NoNote = 0 /\ notes \in Nat
    BY Bounds DEF C!Note, C!NoNote, CommentType
  <1>1. ASSUME NEW d \in Nat, C!Grow(d)
        PROVE  \A m \in C!Note : m <= notes => m <= notes' /\ owner'[m] = owner[m]
    <2>1. /\ notes + 1 \in C!Note /\ notes' = notes + 1
          /\ owner' = [owner EXCEPT ![notes + 1] = owner'[notes + 1]]
      BY <1>1, Grown
    <2> TAKE m \in C!Note
    <2>2. m \in Nat
      BY <1>0
    <2>3. m <= notes => m # notes + 1 /\ m <= notes + 1
      BY <1>0, <2>2
    <2>4. QED
      BY <2>1, <2>3 DEF CommentType
  <1>2. \A m \in C!Note : m <= notes => m <= notes' /\ owner'[m] = owner[m]
    <2>1. CASE UNCHANGED <<owner, notes>>
      BY <2>1
    <2>2. ASSUME NEW d \in C!Note \cup {C!NoNote}, C!Elsewhere(d)
          PROVE  d \in Nat /\ C!Grow(d)
      BY <1>0, <2>2 DEF C!Elsewhere
    <2>3. ASSUME NEW c \in Commenter, NEW to \in C!Note \cup {C!NoNote}, C!Post(c, to)
          PROVE  \E d \in Nat : C!Grow(d)
      <3> DEFINE d == IF to = C!NoNote THEN C!NoNote ELSE rows[to].thread
      <3>1. d \in Nat /\ C!Grow(d)
        BY <1>0, <2>3 DEF C!Post, CommentType, CommentRow
      <3> HIDE DEF d
      <3>2. QED
        BY <3>1
    <2>4. QED
      BY <1>1, <2>1, <2>2, <2>3, Frames
  <1>3. ASSUME NEW s, Named(s)
        PROVE  NamedThen(s)
    <2>1. s.note \in C!Note /\ s.note <= notes /\ s.thread = owner[s.note]
      BY <1>3 DEF Named
    <2>2. s.note <= notes' /\ owner'[s.note] = owner[s.note]
      BY <1>2, <2>1
    <2>3. ASSUME s.reply # 0
          PROVE  s.reply \in C!Note /\ owner'[s.reply] = s.thread
      <3>1. s.reply \in C!Note /\ owner[s.reply] = s.thread
        BY <1>3, <2>3 DEF Named
      <3>2. s.thread # 0
        BY <2>1 DEF ThreadInv
      <3>3. s.reply <= notes
        BY <3>1, <3>2 DEF ThreadInv
      <3>4. QED
        BY <1>2, <3>1, <3>3
    <2>4. QED
      BY <2>1, <2>2, <2>3 DEF NamedThen
  <1>4. QED
    BY <1>2, <1>3

\* A row is written for a named note whose parent has its row.
LEMMA Written ==
  ASSUME CommentType, ThreadInv, ParentInv, [C!Next]_(C!vars)
  PROVE  \/ UNCHANGED rows
         \/ \E s \in Summary :
              /\ Named(s) /\ (s.reply # 0 => rows[s.reply] # C!NoRow)
              /\ rows' = [rows EXCEPT ![s.note] = RowOf(s)]
  <1>1. ASSUME NEW r \in Run, C!Save(r)
        PROVE  \E s \in Summary :
                 /\ Named(s) /\ (s.reply # 0 => rows[s.reply] # C!NoRow)
                 /\ rows' = [rows EXCEPT ![s.note] = RowOf(s)]
    <2> DEFINE s == got[r][1][1]
    <2>1. /\ 1 \in DOMAIN got[r] /\ 1 \in DOMAIN got[r][1] /\ s \in Summary
          /\ rows' = [rows EXCEPT ![s.note] = RowOf(s)]
      BY <1>1, Saved DEF RowOf
    <2>2. Named(s) /\ (s.reply # 0 => rows[s.reply] # C!NoRow)
      BY <2>1 DEF ParentInv, GotInv
    <2> HIDE DEF s
    <2>3. QED
      BY <2>1, <2>2
  <1>2. ASSUME NEW c \in Commenter, C!SavePosted(c)
        PROVE  \E s \in Summary :
                 /\ Named(s) /\ (s.reply # 0 => rows[s.reply] # C!NoRow)
                 /\ rows' = [rows EXCEPT ![s.note] = RowOf(s)]
    <2> DEFINE s == posted[c][1]
    <2>1. cpc[c] = "save" /\ rows' = [rows EXCEPT ![s.note] = RowOf(s)]
      BY <1>2 DEF C!SavePosted, C!Upsert, RowOf
    <2>2. Named(s) /\ (s.reply # 0 => rows[s.reply] # C!NoRow)
      BY <2>1 DEF ParentInv, PostedInv
    <2>3. s \in Summary
      BY <2>1, PostedType
    <2> HIDE DEF s
    <2>4. QED
      BY <2>1, <2>2, <2>3
  <1>3. QED
    BY <1>1, <1>2, Frames

\* Rows stay, and a row has an owner.
LEMMA RowsStay ==
  ASSUME CommentType, ThreadInv, ParentInv, [C!Next]_(C!vars)
  PROVE  /\ \A m \in C!Note : rows[m] # C!NoRow => rows'[m] # C!NoRow
         /\ \A s \in Summary : Named(s) => RowOf(s) # C!NoRow
  <1>1. \A s \in Summary : Named(s) => RowOf(s) # C!NoRow
    <2> TAKE s \in Summary
    <2>1. Named(s) => RowOf(s).thread # 0
      BY DEF Named, ThreadInv, RowOf
    <2>2. C!NoRow.thread = 0
      BY DEF C!NoRow, C!NoNote
    <2>3. QED
      BY <2>1, <2>2
  <1>2. ASSUME NEW s \in Summary, Named(s), rows' = [rows EXCEPT ![s.note] = RowOf(s)]
        PROVE  \A m \in C!Note : rows[m] # C!NoRow => rows'[m] # C!NoRow
    <2>1. RowOf(s) # C!NoRow
      BY <1>1, <1>2
    <2>2. QED
      BY <1>2, <2>1 DEF CommentType
  <1>3. QED
    BY <1>1, <1>2, Written

\* A written row finds its parent, and the other rows keep theirs.
LEMMA RowStep ==
  ASSUME CommentType, ThreadInv, ParentInv, [C!Next]_(C!vars)
  PROVE  RowInv'
  <1>1. \A m \in C!Note : rows[m] # C!NoRow => m <= notes
    BY DEF ParentInv, RowInv
  <1>2. \A m \in C!Note : rows[m] # C!NoRow => m <= notes' /\ owner'[m] = owner[m]
    BY <1>1, NamedKept
  <1> SUFFICES ASSUME NEW n \in C!Note, rows'[n] # C!NoRow
               PROVE  /\ rows'[n].thread = owner'[n] /\ n <= notes'
                      /\ rows'[n].reply # 0 => /\ rows'[n].reply \in C!Note
                                               /\ rows'[rows'[n].reply] # C!NoRow
                                               /\ owner'[rows'[n].reply] = owner'[n]
    BY DEF RowInv
  <1>3. CASE rows'[n] = rows[n]
    <2>1. /\ rows[n] # C!NoRow /\ rows[n].thread = owner[n]
          /\ rows[n].reply # 0 => /\ rows[n].reply \in C!Note /\ rows[rows[n].reply] # C!NoRow
                                  /\ owner[rows[n].reply] = owner[n]
      BY <1>3 DEF ParentInv, RowInv
    <2>2. owner'[n] = owner[n] /\ n <= notes'
      BY <1>2, <2>1
    <2>3. rows[n].reply # 0 => /\ owner'[rows[n].reply] = owner[rows[n].reply]
                               /\ rows'[rows[n].reply] # C!NoRow
      BY <1>2, <2>1, RowsStay
    <2>4. QED
      BY <1>3, <2>1, <2>2, <2>3
  <1>4. CASE rows'[n] # rows[n]
    <2>1. PICK s \in Summary :
            /\ Named(s) /\ (s.reply # 0 => rows[s.reply] # C!NoRow)
            /\ rows' = [rows EXCEPT ![s.note] = RowOf(s)]
      BY <1>4, Written
    <2>2. s.note = n /\ rows'[n] = RowOf(s)
      BY <1>4, <2>1 DEF CommentType
    <2>3. NamedThen(s)
      BY <2>1, NamedKept
    <2>4. rows'[n].thread = s.thread /\ rows'[n].reply = s.reply
      BY <2>2 DEF RowOf
    <2>5. s.reply # 0 => s.reply \in C!Note /\ rows'[s.reply] # C!NoRow
      BY <2>1, RowsStay DEF Named
    <2>6. QED
      BY <2>2, <2>3, <2>4, <2>5 DEF NamedThen
  <1>5. QED
    BY <1>3, <1>4

\* Fetching and saving keep a reply behind its parent.
LEMMA GotStep ==
  ASSUME CommentType, ThreadInv, ParentInv, [C!Next]_(C!vars)
  PROVE  GotInv'
  <1> DEFINE Fine(s, j, first) ==
        NamedThen(s) /\ (s.reply # 0 => rows'[s.reply] # C!NoRow \/ (j > 1 /\ s.reply = first))
  <1>1. ASSUME NEW r \in Run, NEW k \in DOMAIN got[r], NEW j \in DOMAIN got[r][k]
        PROVE  Fine(got[r][k][j], j, got[r][k][1].note)
    <2> DEFINE s == got[r][k][j]
    <2>1. /\ Named(s)
          /\ s.reply # 0 => rows[s.reply] # C!NoRow \/ (j > 1 /\ s.reply = got[r][k][1].note)
      BY DEF ParentInv, GotInv
    <2> HIDE DEF s
    <2>2. s.reply # 0 => s.reply \in C!Note
      BY <2>1 DEF Named
    <2>3. NamedThen(s)
      BY <2>1, NamedKept
    <2>4. Fine(s, j, got[r][k][1].note)
      BY <2>1, <2>2, <2>3, RowsStay
    <2>5. QED
      BY <2>4 DEF s
  <1>2. ASSUME NEW l \in DOMAIN threads, NEW j \in DOMAIN threads[l], UNCHANGED <<owner, notes>>
        PROVE  Fine(C!Summaries(threads[l])[j], j, C!Summaries(threads[l])[1].note)
    <2> DEFINE s == C!Summaries(threads[l])[j]  first == C!Summaries(threads[l])[1]
    <2>0. 1 \in DOMAIN threads[l] /\ j \in Nat \ {0}
          /\ threads[l][j] \in C!Note /\ threads[l][1] \in C!Note
      BY Elements
    <2>1. /\ s.note = threads[l][j] /\ s.thread = owner[threads[l][j]]
          /\ s.reply = (IF j > 1 THEN threads[l][1] ELSE 0) /\ first.note = threads[l][1]
      <3>1. \A i \in DOMAIN threads[l] :
              C!Summaries(threads[l])[i] =
                [note |-> threads[l][i], thread |-> owner[threads[l][i]], at |-> at[threads[l][i]],
                 reply |-> IF i > 1 THEN threads[l][1] ELSE 0]
        BY Summarised
      <3>2. s = [note |-> threads[l][j], thread |-> owner[threads[l][j]], at |-> at[threads[l][j]],
                 reply |-> IF j > 1 THEN threads[l][1] ELSE 0]
        BY <3>1
      <3>3. first.note = threads[l][1]
        <4>1. first = [note |-> threads[l][1], thread |-> owner[threads[l][1]],
                       at |-> at[threads[l][1]], reply |-> IF 1 > 1 THEN threads[l][1] ELSE 0]
          BY <2>0, <3>1
        <4> HIDE DEF first
        <4>2. QED
          BY <4>1
      <3> HIDE DEF s, first
      <3>4. QED
        BY <3>2, <3>3
    <2>2. threads[l][j] <= notes /\ owner[threads[l][j]] = owner[threads[l][1]]
      BY DEF ThreadInv
    <2> HIDE DEF s, first
    <2>3. NamedThen(s)
      BY <1>2, <2>0, <2>1, <2>2 DEF NamedThen
    <2>4. s.reply # 0 => j > 1 /\ s.reply = first.note
      BY <2>1
    <2>5. Fine(s, j, first.note)
      BY <2>3, <2>4
    <2>6. QED
      BY <2>5 DEF s, first
  <1> HIDE DEF Fine
  <1>3. SUFFICES ASSUME NEW r \in Run, NEW k \in DOMAIN got'[r], NEW j \in DOMAIN got'[r][k]
                 PROVE  Fine(got'[r][k][j], j, got'[r][k][1].note)
    BY DEF Fine, NamedThen, Named, GotInv
  <1>4. CASE got'[r] = got[r]
    BY <1>1, <1>4
  <1>5. ASSUME C!Fetch(r) PROVE Fine(got'[r][k][j], j, got'[r][k][1].note)
    <2> DEFINE l == (page[r] - 1) * PageSize + k - Len(got[r])
    <2>1. /\ UNCHANGED <<owner, notes>>
          /\ \/ k \in DOMAIN got[r] /\ got'[r][k] = got[r][k]
             \/ l \in DOMAIN threads /\ got'[r][k] = C!Summaries(threads[l])
      BY <1>5, Paged
    <2> HIDE DEF l
    <2>2. CASE k \in DOMAIN got[r] /\ got'[r][k] = got[r][k]
      BY <1>1, <2>2
    <2>3. CASE l \in DOMAIN threads /\ got'[r][k] = C!Summaries(threads[l])
      <3>1. j \in DOMAIN threads[l]
        BY <2>3, Summarised
      <3>2. QED
        BY <1>2, <2>1, <2>3, <3>1
    <2>4. QED
      BY <2>1, <2>2, <2>3
  <1>6. ASSUME C!Save(r) PROVE Fine(got'[r][k][j], j, got'[r][k][1].note)
    <2>1. /\ 1 \in DOMAIN got[r] /\ 1 \in DOMAIN got[r][1] /\ got[r][1][1] \in Summary
          /\ rows' = [rows EXCEPT ![got[r][1][1].note] = RowOf(got[r][1][1])]
          /\ \/ \E l \in DOMAIN got[r] : got'[r][k] = got[r][l]
             \/ \A i \in DOMAIN got'[r][k] :
                  i + 1 \in DOMAIN got[r][1] /\ got'[r][k][i] = got[r][1][i + 1]
      BY <1>6, Saved DEF RowOf
    <2>2. CASE \E l \in DOMAIN got[r] : got'[r][k] = got[r][l]
      BY <1>1, <2>2
    <2>3. CASE \A i \in DOMAIN got'[r][k] :
                 i + 1 \in DOMAIN got[r][1] /\ got'[r][k][i] = got[r][1][i + 1]
      <3> DEFINE s == got[r][1][j + 1]  f == got[r][1][1]
      <3>1. s = got'[r][k][j] /\ Fine(s, j + 1, f.note)
        BY <1>1, <2>1, <2>3
      <3>2. Named(f)
        BY <2>1 DEF ParentInv, GotInv
      <3>3. RowOf(f) # C!NoRow
        BY <2>1, <3>2, RowsStay
      <3>4. f.note \in C!Note
        BY <3>2 DEF Named
      <3>5. rows'[f.note] # C!NoRow
        BY <2>1, <3>3, <3>4 DEF CommentType
      <3> HIDE DEF s, f
      <3>6. Fine(s, j, got'[r][k][1].note)
        BY <3>1, <3>5 DEF Fine
      <3>7. QED
        BY <3>1, <3>6
    <2>4. QED
      BY <2>1, <2>2, <2>3
  <1>7. ASSUME C!Ends(r) PROVE FALSE
    <2>1. got'[r] = <<>>
      BY <1>7 DEF C!Ends, CommentType
    <2>2. QED
      BY <1>3, <2>1
  <1>8. ASSUME NEW q \in Run \ {r}, C!Fetch(q) \/ C!Save(q) \/ C!Ends(q)
        PROVE  got'[r] = got[r]
    <2>1. CASE C!Fetch(q)
      BY <1>8, <2>1, Paged DEF CommentType
    <2>2. CASE C!Save(q)
      <3>1. got' = [got EXCEPT ![q] = got'[q]]
        BY <2>2, Saved
      <3>2. QED
        BY <1>8, <3>1 DEF CommentType
    <2>3. CASE C!Ends(q)
      BY <1>8, <2>3 DEF C!Ends, CommentType
    <2>4. QED
      BY <1>8, <2>1, <2>2, <2>3
  <1>9. QED
    BY <1>4, <1>5, <1>6, <1>7, <1>8, Frames

\* A reply is posted to the discussion of the row it replies to.
LEMMA PostedStep ==
  ASSUME CommentType, ThreadInv, ParentInv, [C!Next]_(C!vars)
  PROVE  PostedInv'
  <1>0. C!Note \subseteq Nat /\ C!NoNote = 0 /\ notes \in Nat
    BY Bounds DEF C!Note, C!NoNote, CommentType
  <1>1. ASSUME NEW c \in Commenter, cpc[c] = "save"
        PROVE  /\ NamedThen(posted[c][1])
               /\ posted[c][1].reply # 0 => rows'[posted[c][1].reply] # C!NoRow
    <2> DEFINE s == posted[c][1]
    <2>1. Named(s) /\ (s.reply # 0 => rows[s.reply] # C!NoRow)
      BY <1>1 DEF ParentInv, PostedInv
    <2> HIDE DEF s
    <2>2. NamedThen(s) /\ (s.reply # 0 => s.reply \in C!Note)
      BY <2>1, NamedKept DEF Named
    <2>3. QED
      BY <2>1, <2>2, RowsStay DEF s
  <1>2. SUFFICES ASSUME NEW c \in Commenter, cpc'[c] = "save"
                 PROVE  /\ NamedThen(posted'[c][1])
                        /\ posted'[c][1].reply # 0 => rows'[posted'[c][1].reply] # C!NoRow
    BY DEF PostedInv, NamedThen, Named
  <1>3. CASE cpc'[c] = cpc[c] /\ posted'[c] = posted[c]
    BY <1>1, <1>2, <1>3
  <1>4. ASSUME NEW to \in C!Note \cup {C!NoNote}, C!Post(c, to)
        PROVE  /\ NamedThen(posted'[c][1])
               /\ posted'[c][1].reply # 0 => rows'[posted'[c][1].reply] # C!NoRow
    <2> DEFINE d == IF to = C!NoNote THEN C!NoNote ELSE rows[to].thread
               s == [note |-> notes + 1, thread |-> owner'[notes + 1], at |-> now + 1, reply |-> to]
    <2>1. /\ C!Grow(d) /\ posted' = [posted EXCEPT ![c] = <<s>>] /\ UNCHANGED rows
          /\ to # 0 => rows[to] # C!NoRow
      BY <1>0, <1>4 DEF C!Post
    <2>2. d \in Nat
      BY <1>0 DEF CommentType, CommentRow
    <2>3. /\ notes + 1 \in C!Note /\ notes' = notes + 1
          /\ owner' = [owner EXCEPT ![notes + 1] = owner'[notes + 1]]
          /\ d # 0 => owner'[notes + 1] = d
      <3> HIDE DEF d
      <3>1. QED
        BY <2>1, <2>2, Grown
    <2>4. ASSUME to # 0
          PROVE  to \in C!Note /\ owner'[to] = owner'[notes + 1]
      <3>1. to \in C!Note /\ d = rows[to].thread
        BY <1>0, <2>4
      <3>2. to <= notes /\ rows[to].thread = owner[to]
        BY <2>1, <2>4, <3>1 DEF ParentInv, RowInv
      <3>3. owner[to] # 0 /\ to # notes + 1
        <4>1. owner[to] # 0
          BY <3>1, <3>2 DEF ThreadInv
        <4>2. to \in Nat /\ to # notes + 1
          BY <1>0, <3>1, <3>2
        <4>3. QED
          BY <4>1, <4>2
      <3>4. owner'[to] = owner[to]
        BY <2>3, <3>1, <3>3 DEF CommentType
      <3> HIDE DEF d
      <3>5. QED
        BY <2>3, <3>1, <3>2, <3>3, <3>4
    <2>5. NamedThen(s)
      <3>1. notes + 1 <= notes'
        BY <1>0, <2>3
      <3>2. QED
        BY <2>3, <2>4, <3>1 DEF NamedThen
    <2>6. s.reply = to
      OBVIOUS
    <2> HIDE DEF s, d
    <2>7. posted'[c][1] = s
      BY <2>1 DEF CommentType
    <2>8. QED
      BY <2>1, <2>5, <2>6, <2>7
  <1>5. ASSUME NEW b \in Commenter \ {c}, NEW to \in C!Note \cup {C!NoNote}, C!Post(b, to)
        PROVE  cpc'[c] = cpc[c] /\ posted'[c] = posted[c]
    BY <1>5 DEF C!Post, CommentType
  <1>6. ASSUME NEW b \in Commenter \ {c}, C!SavePosted(b) \/ C!Touch(b) \/ C!FailCall(b)
        PROVE  cpc'[c] = cpc[c] /\ posted'[c] = posted[c]
    BY <1>6 DEF C!SavePosted, C!Touch, C!FailCall, CommentType
  <1>7. ASSUME C!SavePosted(c) \/ C!Touch(c) \/ C!FailCall(c) PROVE FALSE
    BY <1>2, <1>7 DEF C!SavePosted, C!Touch, C!FailCall, CommentType
  <1>8. QED
    BY <1>3, <1>4, <1>5, <1>6, <1>7, Frames

\* An idle import has nothing left to save.
IdleGot == \A r \in Run : rpc[r] = "idle" => got[r] = <<>>

LEMMA IdleGotStep ==
  ASSUME CommentType, ThreadInv, IdleGot, [C!Next]_(C!vars)
  PROVE  IdleGot'
  <1> USE DEF C!callVars, C!gitlab, C!runVars
  <1>1. ASSUME NEW r \in Run, C!Begin(r) PROVE IdleGot'
    BY <1>1 DEF C!Begin, IdleGot, CommentType
  <1>2. ASSUME NEW r \in Run, C!Fetch(r) PROVE IdleGot'
    <2> DEFINE isLast == page[r] * PageSize >= Len(threads)
    <2>1. /\ rpc' = [rpc EXCEPT ![r] = IF isLast THEN "save" ELSE "fetch"]
          /\ \E x : got' = [got EXCEPT ![r] = x]
      BY <1>2 DEF C!Fetch, C!FetchPage
    <2> HIDE DEF isLast
    <2>2. QED
      BY <2>1 DEF IdleGot, CommentType
  <1>3. ASSUME NEW r \in Run, C!Save(r) PROVE IdleGot'
    <2>1. rpc[r] = "save" /\ UNCHANGED rpc /\ got' = [got EXCEPT ![r] = got'[r]]
      BY <1>3, Saved
    <2>2. QED
      BY <2>1 DEF IdleGot, CommentType
  <1>4. ASSUME NEW r \in Run, C!Ends(r) PROVE IdleGot'
    BY <1>4 DEF C!Ends, IdleGot, CommentType
  <1>5. CASE UNCHANGED <<rpc, got>>
    BY <1>5 DEF IdleGot
  <1>6. ASSUME NEW d \in C!Note \cup {C!NoNote}, C!Elsewhere(d) PROVE UNCHANGED <<rpc, got>>
    BY <1>6 DEF C!Elsewhere
  <1>7. ASSUME NEW n \in C!Note, C!Edit(n) \/ C!Delete(n) PROVE UNCHANGED <<rpc, got>>
    BY <1>7 DEF C!Edit, C!Delete
  <1>8. ASSUME NEW c \in Commenter, NEW to \in C!Note \cup {C!NoNote}, C!Post(c, to)
        PROVE  UNCHANGED <<rpc, got>>
    BY <1>8 DEF C!Post
  <1>9. ASSUME NEW c \in Commenter, C!SavePosted(c) \/ C!Touch(c) \/ C!FailCall(c)
        PROVE  UNCHANGED <<rpc, got>>
    BY <1>9 DEF C!SavePosted, C!Touch, C!FailCall
  <1>10. CASE UNCHANGED C!vars
    BY <1>5, <1>10 DEF C!vars
  <1>11. ASSUME NEW r \in Run, C!Finish(r) \/ C!FailRun(r) PROVE C!Ends(r)
    BY <1>11 DEF C!Finish, C!FailRun
  <1>12. QED
    BY <1>1, <1>2, <1>3, <1>4, <1>5, <1>6, <1>7, <1>8, <1>9, <1>10, <1>11 DEF C!Next

\* A quiet import has the issue for itself, gets what is there and saves it.
Now(k, j) == C!Summaries(threads[k])[j]
Holds(r, s) == \E k \in DOMAIN got[r] : \E j \in DOMAIN got[r][k] : got[r][k][j] = s
Shown(k, j) == rows[threads[k][j]] = RowOf(Now(k, j))

OnItsOwn(r) ==
  /\ rpc[r] # "idle"
  /\ \A q \in Run \ {r} : rpc[q] = "idle"
  /\ \A c \in Commenter : cpc[c] = "idle"

Fetched(r) ==
  rpc[r] = "fetch" =>
    /\ Len(got[r]) = (page[r] - 1) * PageSize /\ Len(got[r]) <= Len(threads)
    /\ \A k \in DOMAIN got[r] : got[r][k] = C!Summaries(threads[k])

Current(r) ==
  rpc[r] = "save" =>
    \A k \in DOMAIN got[r] : \A j \in DOMAIN got[r][k] :
      \E l \in DOMAIN threads : \E i \in DOMAIN threads[l] : got[r][k][j] = Now(l, i)

Covered(r) ==
  rpc[r] = "save" =>
    \A k \in DOMAIN threads : \A j \in DOMAIN threads[k] :
      Holds(r, Now(k, j)) \/ (Shown(k, j) /\ last[r] >= at[threads[k][j]])

QuietInv == \A r \in quiet : OnItsOwn(r) /\ Fetched(r) /\ Current(r) /\ Covered(r)

\* As long as nothing changes, other imports bring the same.
MirrorInv ==
  mirrored =>
    /\ \A k \in DOMAIN threads : \A j \in DOMAIN threads[k] :
         Shown(k, j) /\ activity >= at[threads[k][j]]
    /\ \A r \in Run : \A k \in DOMAIN got[r] : \A j \in DOMAIN got[r][k] :
         rows[got[r][k][j].note] = RowOf(got[r][k][j])

\* What a discussion is now is the same after a step that leaves GitLab alone.
LEMMA NowStays ==
  ASSUME UNCHANGED <<threads, owner, at>>
  PROVE  /\ \A k : (C!Summaries(threads[k]))' = C!Summaries(threads[k])
         /\ \A k, j : Now(k, j)' = Now(k, j)
  BY DEF Now, C!Summaries

\* What a note is now.
LEMMA NowIs ==
  ASSUME CommentType, ThreadInv, NEW k \in DOMAIN threads, NEW j \in DOMAIN threads[k]
  PROVE  /\ Now(k, j) \in Summary
         /\ Now(k, j).note = threads[k][j] /\ Now(k, j).at = at[threads[k][j]]
         /\ Now(k, j).thread = owner[threads[k][j]]
         /\ Now(k, j).reply = IF j > 1 THEN threads[k][1] ELSE 0
         /\ threads[k][j] \in C!Note
  <1>1. /\ \A i \in DOMAIN threads[k] :
             C!Summaries(threads[k])[i] =
               [note |-> threads[k][i], thread |-> owner[threads[k][i]], at |-> at[threads[k][i]],
                reply |-> IF i > 1 THEN threads[k][1] ELSE 0]
        /\ C!Summaries(threads[k]) \in Seq(Summary)
        /\ DOMAIN C!Summaries(threads[k]) = DOMAIN threads[k]
    BY Summarised DEF Batch
  <1>2. Now(k, j) =
          [note |-> threads[k][j], thread |-> owner[threads[k][j]], at |-> at[threads[k][j]],
           reply |-> IF j > 1 THEN threads[k][1] ELSE 0]
    BY <1>1 DEF Now
  <1>3. Now(k, j) \in Summary
    <2> DEFINE X == C!Summaries(threads[k])
    <2>1. X \in Seq(Summary) /\ j \in DOMAIN X
      BY <1>1
    <2> HIDE DEF X
    <2>2. X[j] \in Summary
      BY <2>1, ElementOfSeq, LenProperties
    <2>3. QED
      BY <2>2 DEF Now, X
  <1>4. threads[k][j] \in C!Note
    BY Elements
  <1>5. QED
    BY <1>2, <1>3, <1>4

\* A note that is saved twice is saved as the same.
LEMMA NowIsOne ==
  ASSUME CommentType, ThreadInv, NEW k \in DOMAIN threads, NEW j \in DOMAIN threads[k],
         NEW l \in DOMAIN threads, NEW i \in DOMAIN threads[l], Now(k, j).note = Now(l, i).note
  PROVE  Now(k, j) = Now(l, i)
  <1>1. threads[k][j] = threads[l][i]
    BY NowIs
  <1>2. k = l /\ j = i
    BY <1>1 DEF ThreadInv
  <1>3. QED
    BY <1>2

\* A page adds the discussions that follow those already fetched.
LEMMA QuietFetch ==
  ASSUME CommentType, ThreadInv, QuietInv, NEW r \in quiet, C!Fetch(r)
  PROVE  Fetched(r)' /\ Current(r)' /\ Covered(r)'
  <1> DEFINE lo == (page[r] - 1) * PageSize
             isLast == lo + PageSize >= Len(threads)
  <1>0. r \in Run
    BY DEF CommentType
  <1>1. /\ rpc[r] = "fetch" /\ lo \in Nat /\ page[r] \in Nat \ {0}
        /\ rpc' = [rpc EXCEPT ![r] = IF isLast THEN "save" ELSE "fetch"]
        /\ page' = [page EXCEPT ![r] = IF isLast THEN 0 ELSE page[r] + 1]
        /\ got'[r] \in Seq(Batch)
        /\ lo <= Len(threads) =>
             Len(got'[r]) = Len(got[r]) + (IF isLast THEN Len(threads) - lo ELSE PageSize)
        /\ \A k \in DOMAIN got'[r] :
             \/ k \in DOMAIN got[r] /\ got'[r][k] = got[r][k]
             \/ LET l == lo + k - Len(got[r])
                IN  l \in DOMAIN threads /\ got'[r][k] = C!Summaries(threads[l])
        /\ UNCHANGED <<threads, owner, at>>
    BY <1>0, Paged
  <1>2. Len(got[r]) = lo /\ lo <= Len(threads)
        /\ \A k \in DOMAIN got[r] : got[r][k] = C!Summaries(threads[k])
    BY <1>1 DEF QuietInv, Fetched
  <1>3. Len(threads) \in Nat /\ DOMAIN threads = 1 .. Len(threads)
        /\ DOMAIN got[r] = 1 .. Len(got[r])
    BY <1>0, Elements
  <1>4. DOMAIN got'[r] = 1 .. Len(got'[r]) /\ Len(got'[r]) \in Nat
    BY <1>1, LenProperties
  <1> HIDE DEF lo
  <1>5. ASSUME NEW k \in DOMAIN got'[r]
        PROVE  k \in DOMAIN threads /\ got'[r][k] = C!Summaries(threads[k])
    <2>1. lo + k - Len(got[r]) = k
      BY <1>1, <1>2, <1>4
    <2>2. CASE k \in DOMAIN got[r] /\ got'[r][k] = got[r][k]
      <3>1. k \in 1 .. Len(threads)
        BY <1>1, <1>2, <1>3, <2>2
      <3>2. QED
        BY <1>2, <1>3, <2>2, <3>1
    <2>3. CASE k \in DOMAIN threads /\ got'[r][k] = C!Summaries(threads[k])
      BY <2>3
    <2>4. QED
      BY <1>1, <2>1, <2>2, <2>3
  <1>6. /\ \A k : (C!Summaries(threads[k]))' = C!Summaries(threads[k])
        /\ \A k, j : Now(k, j)' = Now(k, j)
    BY <1>1, NowStays
  <1>7. Fetched(r)'
    <2>1. SUFFICES ASSUME rpc'[r] = "fetch"
                   PROVE  /\ Len(got'[r]) = (page'[r] - 1) * PageSize /\ Len(got'[r]) <= Len(threads')
                          /\ \A k \in DOMAIN got'[r] : got'[r][k] = (C!Summaries(threads[k]))'
      BY DEF Fetched
    <2>2. ~isLast
      BY <1>0, <1>1, <2>1 DEF CommentType
    <2>3. Len(got'[r]) = lo + PageSize /\ lo + PageSize <= Len(threads)
      BY <1>1, <1>2, <1>3, <2>2, Bounds
    <2>4. page'[r] = page[r] + 1
      BY <1>0, <1>1, <2>2 DEF CommentType
    <2>5. (page'[r] - 1) * PageSize = lo + PageSize
      BY <1>1, <2>4, Bounds DEF lo
    <2>6. QED
      BY <1>1, <1>5, <1>6, <2>3, <2>5
  <1>8. Current(r)'
    <2>1. SUFFICES ASSUME NEW k \in DOMAIN got'[r], NEW j \in DOMAIN got'[r][k]
                   PROVE  \E l \in DOMAIN threads' : \E i \in DOMAIN threads'[l] :
                            got'[r][k][j] = Now(l, i)'
      BY DEF Current
    <2>2. k \in DOMAIN threads /\ got'[r][k] = C!Summaries(threads[k])
      BY <1>5
    <2>3. j \in DOMAIN threads[k] /\ got'[r][k][j] = Now(k, j)
      BY <2>2, Summarised DEF Now
    <2>4. QED
      BY <1>1, <1>6, <2>2, <2>3
  <1>9. Covered(r)'
    <2>1. SUFFICES ASSUME rpc'[r] = "save", NEW k \in DOMAIN threads', NEW j \in DOMAIN threads'[k]
                   PROVE  Holds(r, Now(k, j))'
      BY DEF Covered
    <2>2. isLast
      BY <1>0, <1>1, <2>1 DEF CommentType
    <2>3. Len(got'[r]) = Len(threads)
      BY <1>1, <1>2, <1>3, <2>2
    <2>4. k \in DOMAIN threads /\ j \in DOMAIN threads[k] /\ k \in DOMAIN got'[r]
      BY <1>1, <1>3, <1>4, <2>3
    <2>5. j \in DOMAIN got'[r][k] /\ got'[r][k][j] = Now(k, j)
      BY <1>5, <2>4, Summarised DEF Now
    <2>6. QED
      BY <1>6, <2>4, <2>5 DEF Holds
  <1>10. QED
    BY <1>7, <1>8, <1>9

\* A note that has been saved need not be held any more.
LEMMA QuietSave ==
  ASSUME CommentType, ThreadInv, QuietInv, NEW r \in quiet, C!Save(r)
  PROVE  Fetched(r)' /\ Current(r)' /\ Covered(r)'
  <1> DEFINE s == got[r][1][1]
  <1>0. r \in Run
    BY DEF CommentType
  <1>1. /\ rpc[r] = "save" /\ 1 \in DOMAIN got[r] /\ 1 \in DOMAIN got[r][1] /\ s \in Summary
        /\ rows' = [rows EXCEPT ![s.note] = RowOf(s)]
        /\ last' = [last EXCEPT ![r] = IF s.at > last[r] THEN s.at ELSE last[r]]
        /\ \A k \in DOMAIN got'[r] :
             \/ \E l \in DOMAIN got[r] : got'[r][k] = got[r][l]
             \/ \A j \in DOMAIN got'[r][k] :
                  j + 1 \in DOMAIN got[r][1] /\ got'[r][k][j] = got[r][1][j + 1]
        /\ \A l \in DOMAIN got[r] : \A i \in DOMAIN got[r][l] :
             \/ l = 1 /\ i = 1
             \/ \E k \in DOMAIN got'[r] : \E j \in DOMAIN got'[r][k] :
                  got'[r][k][j] = got[r][l][i]
        /\ UNCHANGED <<threads, owner, at, rpc>>
    BY <1>0, Saved DEF RowOf
  <1> HIDE DEF s
  <1>2. /\ \A k \in DOMAIN got[r] : \A j \in DOMAIN got[r][k] :
             \E l \in DOMAIN threads : \E i \in DOMAIN threads[l] : got[r][k][j] = Now(l, i)
        /\ \A k \in DOMAIN threads : \A j \in DOMAIN threads[k] :
             Holds(r, Now(k, j)) \/ (Shown(k, j) /\ last[r] >= at[threads[k][j]])
    BY <1>1 DEF QuietInv, Current, Covered
  <1>3. \A k, j : Now(k, j)' = Now(k, j)
    BY <1>1, NowStays
  <1>4. Fetched(r)'
    BY <1>1 DEF Fetched
  <1>5. Current(r)'
    <2>1. SUFFICES ASSUME NEW k \in DOMAIN got'[r], NEW j \in DOMAIN got'[r][k]
                   PROVE  \E l \in DOMAIN threads' : \E i \in DOMAIN threads'[l] :
                            got'[r][k][j] = Now(l, i)'
      BY DEF Current
    <2>2. \E l \in DOMAIN got[r] : \E i \in DOMAIN got[r][l] : got'[r][k][j] = got[r][l][i]
      BY <1>1
    <2>3. \E l \in DOMAIN threads : \E i \in DOMAIN threads[l] : got'[r][k][j] = Now(l, i)
      BY <1>2, <2>2
    <2>4. QED
      BY <1>1, <1>3, <2>3
  <1>6. PICK l0 \in DOMAIN threads : \E i \in DOMAIN threads[l0] : s = Now(l0, i)
    BY <1>1, <1>2 DEF s
  <1>7. PICK i0 \in DOMAIN threads[l0] : s = Now(l0, i0)
    BY <1>6
  <1>8. s.note \in C!Note /\ s.at \in Nat /\ last[r] \in Nat /\ rows'[s.note] = RowOf(s)
        /\ last'[r] = (IF s.at > last[r] THEN s.at ELSE last[r])
    <2>1. s.note \in C!Note
      BY <1>7, NowIs
    <2>2. QED
      BY <1>0, <1>1, <2>1 DEF CommentType, Summary
  <1>9. Covered(r)'
    <2>1. SUFFICES ASSUME NEW k \in DOMAIN threads, NEW j \in DOMAIN threads[k], ~Holds(r, Now(k, j))'
                   PROVE  Shown(k, j)' /\ last'[r] >= at[threads[k][j]]
      BY <1>1 DEF Covered
    <2>2. /\ Now(k, j).note = threads[k][j] /\ Now(k, j).at = at[threads[k][j]]
          /\ threads[k][j] \in C!Note /\ at[threads[k][j]] \in Nat
      BY NowIs DEF CommentType
    <2>3. Shown(k, j)' <=> rows'[threads[k][j]] = RowOf(Now(k, j))
      BY <1>1, <1>3 DEF Shown, RowOf
    <2>4. CASE threads[k][j] = s.note
      <3>1. Now(k, j) = s
        BY <1>7, <2>2, <2>4, NowIsOne
      <3>2. last'[r] >= s.at
        BY <1>8
      <3>3. QED
        BY <1>8, <2>2, <2>3, <2>4, <3>1, <3>2
    <2>5. CASE threads[k][j] # s.note
      <3>1. ~Holds(r, Now(k, j))
        <4>1. SUFFICES ASSUME NEW l \in DOMAIN got[r], NEW i \in DOMAIN got[r][l],
                              got[r][l][i] = Now(k, j)
                       PROVE  FALSE
          BY DEF Holds
        <4>2. ~(l = 1 /\ i = 1)
          BY <2>2, <2>5, <4>1 DEF s
        <4>3. \E m \in DOMAIN got'[r] : \E h \in DOMAIN got'[r][m] : got'[r][m][h] = Now(k, j)
          BY <1>1, <4>1, <4>2
        <4>4. QED
          BY <1>3, <2>1, <4>3 DEF Holds
      <3>2. rows[threads[k][j]] = RowOf(Now(k, j)) /\ last[r] >= at[threads[k][j]]
        BY <1>2, <3>1 DEF Shown
      <3>3. rows'[threads[k][j]] = rows[threads[k][j]]
        BY <1>1, <2>2, <2>5 DEF CommentType
      <3>4. last'[r] >= at[threads[k][j]]
        BY <1>8, <2>2, <3>2
      <3>5. QED
        BY <2>3, <3>2, <3>3, <3>4
    <2>6. QED
      BY <2>4, <2>5
  <1>10. QED
    BY <1>4, <1>5, <1>9

LEMMA QuietStep ==
  ASSUME CommentType, ThreadInv, IdleGot, QuietInv, [C!Next]_(C!vars)
  PROVE  QuietInv'
  <1> USE DEF C!callVars, C!gitlab, C!runVars
  <1>1. CASE quiet' = {}
    BY <1>1 DEF QuietInv
  <1>2. ASSUME NEW r \in quiet
        PROVE  OnItsOwn(r) /\ r \in Run
    BY DEF QuietInv, CommentType
  <1>3. ASSUME NEW d \in C!Note \cup {C!NoNote}, C!Elsewhere(d) PROVE quiet' = {}
    BY <1>3 DEF C!Elsewhere, C!Grow, C!Disturb
  <1>4. ASSUME NEW n \in C!Note, C!Edit(n) \/ C!Delete(n) PROVE quiet' = {}
    BY <1>4 DEF C!Edit, C!Delete, C!Disturb
  <1>5. ASSUME NEW c \in Commenter, NEW to \in C!Note \cup {C!NoNote}, C!Post(c, to)
        PROVE  quiet' = {}
    BY <1>5 DEF C!Post, C!Grow, C!Disturb
  <1>6. ASSUME NEW c \in Commenter, C!SavePosted(c) PROVE quiet' = {}
    BY <1>6 DEF C!SavePosted, C!Disturb
  <1>7. ASSUME NEW c \in Commenter, C!Touch(c) \/ C!FailCall(c) PROVE quiet' = {}
    <2>1. cpc[c] # "idle" /\ quiet' = quiet
      BY <1>7 DEF C!Touch, C!FailCall
    <2>2. QED
      BY <1>2, <2>1 DEF OnItsOwn
  <1>8. ASSUME NEW q \in Run, C!Finish(q) \/ C!FailRun(q) PROVE quiet' = {}
    <2>1. rpc[q] # "idle" /\ quiet' = quiet \ {q}
      BY <1>8 DEF C!Finish, C!FailRun, C!Ends
    <2>2. QED
      BY <1>2, <2>1 DEF OnItsOwn
  <1>9. ASSUME NEW q \in Run, C!Begin(q) PROVE QuietInv'
    <2>1. CASE quiet' # {}
      <3>1. /\ quiet' = {q} /\ \A p \in Run : rpc[p] = "idle"
            /\ \A c \in Commenter : cpc[c] = "idle"
        BY <1>9, <2>1 DEF C!Begin
      <3>2. /\ rpc' = [rpc EXCEPT ![q] = "fetch"] /\ page' = [page EXCEPT ![q] = 1]
            /\ UNCHANGED <<threads, got, cpc>>
        BY <1>9 DEF C!Begin
      <3>3. rpc'[q] = "fetch" /\ page'[q] = 1 /\ got'[q] = <<>>
        BY <3>1, <3>2 DEF CommentType, IdleGot
      <3>4. OnItsOwn(q)'
        BY <3>1, <3>2, <3>3 DEF OnItsOwn, CommentType
      <3>5. Fetched(q)'
        <4>1. Len(got'[q]) = 0 /\ DOMAIN got'[q] = {} /\ (page'[q] - 1) * PageSize = 0
          BY <3>3, EmptySeq, Bounds
        <4>2. Len(got'[q]) <= Len(threads')
          BY <3>2, <4>1, Elements
        <4>3. QED
          BY <4>1, <4>2 DEF Fetched
      <3>6. Current(q)' /\ Covered(q)'
        BY <3>3 DEF Current, Covered
      <3>7. QED
        BY <3>1, <3>4, <3>5, <3>6 DEF QuietInv
    <2>2. QED
      BY <1>1, <2>1
  <1>10. ASSUME NEW q \in Run, C!Fetch(q) \/ C!Save(q), NEW r \in quiet PROVE q = r
    <2>1. rpc[q] # "idle"
      BY <1>10 DEF C!Fetch, C!FetchPage, C!Save
    <2>2. QED
      BY <1>2, <2>1 DEF OnItsOwn
  <1>11. ASSUME NEW q \in Run, C!Fetch(q) \/ C!Save(q) PROVE QuietInv'
    <2>1. UNCHANGED <<quiet, cpc>>
      BY <1>11 DEF C!Fetch, C!FetchPage, C!Save, C!SaveNote
    <2>2. ASSUME NEW r \in quiet
          PROVE  OnItsOwn(r)'
      <3>1. q = r /\ OnItsOwn(q)
        BY <1>2, <1>10, <1>11
      <3>2. rpc' = [rpc EXCEPT ![q] = rpc'[q]] /\ rpc'[q] # "idle"
        <4>1. CASE C!Save(q)
          BY <4>1 DEF C!Save, C!SaveNote, CommentType
        <4>2. CASE C!Fetch(q)
          BY <4>2 DEF C!Fetch, C!FetchPage, CommentType
        <4>3. QED
          BY <1>11, <4>1, <4>2
      <3>3. QED
        BY <2>1, <3>1, <3>2 DEF OnItsOwn, CommentType
    <2>3. ASSUME NEW r \in quiet
          PROVE  Fetched(r)' /\ Current(r)' /\ Covered(r)'
      BY <1>10, <1>11, QuietFetch, QuietSave
    <2>4. QED
      BY <2>1, <2>2, <2>3 DEF QuietInv
  <1>12. CASE UNCHANGED C!vars
    <2>1. UNCHANGED <<threads, owner, at, rows, rpc, page, got, last, cpc, quiet>>
      BY <1>12 DEF C!vars
    <2>2. /\ \A k : (C!Summaries(threads[k]))' = C!Summaries(threads[k])
          /\ \A k, j : Now(k, j)' = Now(k, j)
      BY <2>1, NowStays
    <2>3. ASSUME NEW r \in quiet
          PROVE  OnItsOwn(r)' /\ Fetched(r)' /\ Current(r)' /\ Covered(r)'
      <3>1. OnItsOwn(r) /\ Fetched(r) /\ Current(r) /\ Covered(r)
        BY DEF QuietInv
      <3>2. OnItsOwn(r)'
        BY <2>1, <3>1 DEF OnItsOwn
      <3>3. Fetched(r)'
        BY <2>1, <2>2, <3>1 DEF Fetched
      <3>4. Current(r)'
        BY <2>1, <2>2, <3>1 DEF Current
      <3>5. Covered(r)'
        BY <2>1, <2>2, <3>1 DEF Covered, Holds, Shown, RowOf
      <3>6. QED
        BY <3>2, <3>3, <3>4, <3>5
    <2>4. QED
      BY <2>1, <2>3 DEF QuietInv
  <1>13. QED
    BY <1>1, <1>3, <1>4, <1>5, <1>6, <1>7, <1>8, <1>9, <1>11, <1>12 DEF C!Next

LEMMA MirrorStep ==
  ASSUME CommentType, ThreadInv, IdleGot, ParentInv, QuietInv, MirrorInv, [C!Next]_(C!vars)
  PROVE  MirrorInv'
  <1> USE DEF C!callVars, C!gitlab, C!runVars
  <1> DEFINE All == \A k \in DOMAIN threads : \A j \in DOMAIN threads[k] :
                      Shown(k, j) /\ activity >= at[threads[k][j]]
             Same == \A r \in Run : \A k \in DOMAIN got[r] : \A j \in DOMAIN got[r][k] :
                       rows[got[r][k][j].note] = RowOf(got[r][k][j])
  <1>1. CASE mirrored' = FALSE
    BY <1>1 DEF MirrorInv
  <1>2. ASSUME NEW d \in C!Note \cup {C!NoNote}, C!Elsewhere(d) PROVE mirrored' = FALSE
    BY <1>2 DEF C!Elsewhere, C!Grow, C!Disturb
  <1>3. ASSUME NEW n \in C!Note, C!Edit(n) \/ C!Delete(n) PROVE mirrored' = FALSE
    BY <1>3 DEF C!Edit, C!Delete, C!Disturb
  <1>4. ASSUME NEW c \in Commenter, NEW to \in C!Note \cup {C!NoNote}, C!Post(c, to)
        PROVE  mirrored' = FALSE
    BY <1>4 DEF C!Post, C!Grow, C!Disturb
  <1>5. ASSUME NEW c \in Commenter, C!SavePosted(c) PROVE mirrored' = FALSE
    BY <1>5 DEF C!SavePosted, C!Disturb
  \* What is there stays, and more activity does no harm.
  <1>6. ASSUME All, UNCHANGED <<threads, owner, at, rows>>, activity' \in Nat, activity' >= activity
        PROVE  All'
    <2>1. \A k, j : Now(k, j)' = Now(k, j)
      BY <1>6, NowStays
    <2>2. ASSUME NEW k \in DOMAIN threads, NEW j \in DOMAIN threads[k]
          PROVE  Shown(k, j)' /\ activity' >= at[threads[k][j]]
      <3>1. Shown(k, j) /\ activity >= at[threads[k][j]]
        BY <1>6
      <3>2. Shown(k, j)'
        BY <1>6, <2>1, <3>1 DEF Shown, RowOf
      <3>3. at[threads[k][j]] \in Nat /\ activity \in Nat
        BY NowIs DEF CommentType
      <3>4. QED
        BY <1>6, <3>1, <3>2, <3>3
    <2>3. QED
      BY <1>6, <2>2
  <1>7. activity \in Nat /\ got \in [Run -> Seq(Batch)]
    BY DEF CommentType
  <1>8. ASSUME NEW r \in Run, C!Begin(r) PROVE MirrorInv'
    <2>1. UNCHANGED <<threads, owner, at, rows, activity, got, mirrored>>
      BY <1>8 DEF C!Begin
    <2>2. mirrored => All' /\ Same'
      BY <1>6, <1>7, <2>1 DEF MirrorInv, RowOf
    <2>3. QED
      BY <2>1, <2>2 DEF MirrorInv
  <1>9. ASSUME NEW r \in Run, C!Fetch(r) PROVE MirrorInv'
    <2>1. /\ UNCHANGED <<threads, owner, at, rows, activity, mirrored>>
          /\ got' = [got EXCEPT ![r] = got'[r]]
          /\ \A k \in DOMAIN got'[r] :
               \/ k \in DOMAIN got[r] /\ got'[r][k] = got[r][k]
               \/ \E l \in DOMAIN threads : got'[r][k] = C!Summaries(threads[l])
      BY <1>9, Paged
    <2>2. SUFFICES ASSUME All, Same
                   PROVE  All' /\ Same'
      BY <2>1 DEF MirrorInv
    <2>3. All'
      BY <1>6, <1>7, <2>1, <2>2
    <2>4. ASSUME NEW q \in Run, NEW k \in DOMAIN got'[q], NEW j \in DOMAIN got'[q][k]
          PROVE  rows[got'[q][k][j].note] = RowOf(got'[q][k][j])
      <3>1. CASE k \in DOMAIN got[q] /\ got'[q][k] = got[q][k]
        BY <2>2, <3>1
      <3>2. CASE \E l \in DOMAIN threads : got'[q][k] = C!Summaries(threads[l])
        <4>1. PICK l \in DOMAIN threads : got'[q][k] = C!Summaries(threads[l])
          BY <3>2
        <4>2. j \in DOMAIN threads[l] /\ got'[q][k][j] = Now(l, j)
          BY <4>1, Summarised DEF Now
        <4>3. Shown(l, j)
          BY <2>2, <4>2
        <4>4. QED
          BY <4>2, <4>3, NowIs DEF Shown
      <3>3. QED
        BY <1>7, <2>1, <3>1, <3>2
    <2>5. Same'
      <3>1. \A q \in Run : \A k \in DOMAIN got'[q] : \A j \in DOMAIN got'[q][k] :
              rows'[got'[q][k][j].note] = RowOf(got'[q][k][j])
        BY <2>1, <2>4
      <3>2. QED
        BY <3>1 DEF RowOf
    <2>6. QED
      BY <2>3, <2>5
  <1>10. ASSUME NEW r \in Run, C!Save(r) PROVE MirrorInv'
    <2> DEFINE s == got[r][1][1]
    <2>1. /\ UNCHANGED <<threads, owner, at, activity, mirrored>>
          /\ 1 \in DOMAIN got[r] /\ 1 \in DOMAIN got[r][1]
          /\ rows' = [rows EXCEPT ![s.note] = RowOf(s)]
          /\ got' = [got EXCEPT ![r] = got'[r]]
          /\ \A k \in DOMAIN got'[r] :
               \/ \E l \in DOMAIN got[r] : got'[r][k] = got[r][l]
               \/ \A j \in DOMAIN got'[r][k] :
                    j + 1 \in DOMAIN got[r][1] /\ got'[r][k][j] = got[r][1][j + 1]
      BY <1>10, Saved DEF RowOf
    <2>2. SUFFICES ASSUME All, Same
                   PROVE  All' /\ Same'
      BY <2>1 DEF MirrorInv
    <2>3. rows[s.note] = RowOf(s)
      BY <2>1, <2>2
    <2> HIDE DEF s
    <2>4. rows' = rows
      BY <2>1, <2>3 DEF CommentType
    <2>5. All'
      BY <1>6, <1>7, <2>1, <2>2, <2>4
    <2>6. ASSUME NEW q \in Run, NEW k \in DOMAIN got'[q], NEW j \in DOMAIN got'[q][k]
          PROVE  rows[got'[q][k][j].note] = RowOf(got'[q][k][j])
      <3>1. CASE q = r
        <4>1. CASE \E l \in DOMAIN got[r] : got'[r][k] = got[r][l]
          BY <2>2, <3>1, <4>1
        <4>2. CASE \A i \in DOMAIN got'[r][k] :
                     i + 1 \in DOMAIN got[r][1] /\ got'[r][k][i] = got[r][1][i + 1]
          BY <2>1, <2>2, <3>1, <4>2
        <4>3. QED
          BY <2>1, <3>1, <4>1, <4>2
      <3>2. CASE q # r
        BY <1>7, <2>1, <2>2, <3>2
      <3>3. QED
        BY <3>1, <3>2
    <2>7. Same'
      <3>1. \A q \in Run : \A k \in DOMAIN got'[q] : \A j \in DOMAIN got'[q][k] :
              rows'[got'[q][k][j].note] = RowOf(got'[q][k][j])
        BY <2>4, <2>6
      <3>2. QED
        BY <3>1 DEF RowOf
    <2>8. QED
      BY <2>5, <2>7
  <1>11. ASSUME NEW r \in Run, C!Ends(r), UNCHANGED rows, Same
         PROVE  Same'
    <2>1. got' = [got EXCEPT ![r] = <<>>]
      BY <1>11 DEF C!Ends
    <2>2. ASSUME NEW q \in Run, NEW k \in DOMAIN got'[q], NEW j \in DOMAIN got'[q][k]
          PROVE  rows'[got'[q][k][j].note] = RowOf(got'[q][k][j])
      <3>1. q # r
        BY <1>7, <2>1
      <3>2. got'[q] = got[q]
        BY <1>7, <2>1, <3>1
      <3>3. QED
        BY <1>11, <3>2
    <2>3. QED
      BY <2>2 DEF RowOf
  <1>12. ASSUME NEW r \in Run, C!FailRun(r) PROVE MirrorInv'
    <2>1. C!Ends(r) /\ UNCHANGED <<threads, owner, at, rows, activity, mirrored>>
      BY <1>12 DEF C!FailRun
    <2>2. mirrored => All' /\ Same'
      BY <1>6, <1>7, <1>11, <2>1 DEF MirrorInv
    <2>3. QED
      BY <2>1, <2>2 DEF MirrorInv
  <1>13. ASSUME NEW r \in Run, C!Finish(r) PROVE MirrorInv'
    <2>1. /\ C!Ends(r) /\ UNCHANGED <<threads, owner, at, rows>>
          /\ rpc[r] = "save" /\ got[r] = <<>>
          /\ activity' = (IF last[r] > activity THEN last[r] ELSE activity)
          /\ mirrored' = (mirrored \/ r \in quiet)
      BY <1>13 DEF C!Finish
    <2>2. last[r] \in Nat /\ activity' \in Nat /\ activity' >= activity /\ activity' >= last[r]
      <3>1. last[r] \in Nat
        BY DEF CommentType
      <3>2. QED
        BY <1>7, <2>1, <3>1
    <2>3. CASE mirrored
      BY <1>6, <1>11, <2>1, <2>2, <2>3 DEF MirrorInv
    <2>4. CASE r \in quiet
      <3>1. OnItsOwn(r) /\ Covered(r)
        BY <2>4 DEF QuietInv
      <3>2. ASSUME NEW k \in DOMAIN threads, NEW j \in DOMAIN threads[k]
            PROVE  Shown(k, j)' /\ activity' >= at[threads[k][j]]
        <4>1. ~Holds(r, Now(k, j))
          BY <2>1 DEF Holds
        <4>2. Shown(k, j) /\ last[r] >= at[threads[k][j]]
          BY <2>1, <3>1, <4>1 DEF Covered
        <4>3. Now(k, j)' = Now(k, j) /\ at[threads[k][j]] \in Nat
          BY <2>1, NowStays, NowIs DEF CommentType
        <4>4. QED
          BY <2>1, <2>2, <4>2, <4>3 DEF Shown, RowOf
      <3>3. All'
        BY <2>1, <3>2
      <3>4. \A q \in Run : got'[q] = <<>>
        BY <2>1, <3>1 DEF OnItsOwn, IdleGot, C!Ends, CommentType
      <3>5. Same'
        BY <3>4
      <3>6. QED
        BY <3>3, <3>5 DEF MirrorInv
    <2>5. QED
      BY <1>1, <2>1, <2>3, <2>4
  <1>14. ASSUME NEW c \in Commenter, C!Touch(c) \/ C!FailCall(c) PROVE MirrorInv'
    <2>1. /\ UNCHANGED <<threads, owner, at, rows, got, mirrored>> /\ cpc[c] # "idle"
          /\ \/ activity' = (IF posted[c][1].at > activity THEN posted[c][1].at ELSE activity)
             \/ activity' = activity
      BY <1>14 DEF C!Touch, C!FailCall
    <2>2. posted[c][1].at \in Nat
      BY <2>1, PostedType DEF Summary
    <2>3. activity' \in Nat /\ activity' >= activity
      BY <1>7, <2>1, <2>2
    <2>4. mirrored => All' /\ Same'
      BY <1>6, <2>1, <2>3 DEF MirrorInv, RowOf
    <2>5. QED
      BY <2>1, <2>4 DEF MirrorInv
  <1>15. CASE UNCHANGED C!vars
    <2>1. UNCHANGED <<threads, owner, at, rows, activity, got, mirrored>>
      BY <1>15 DEF C!vars
    <2>2. mirrored => All' /\ Same'
      BY <1>6, <1>7, <2>1 DEF MirrorInv, RowOf
    <2>3. QED
      BY <2>1, <2>2 DEF MirrorInv
  <1>16. QED
    BY <1>1, <1>2, <1>3, <1>4, <1>5, <1>8, <1>9, <1>10, <1>12, <1>13, <1>14, <1>15 DEF C!Next

CommentInv ==
  CommentType /\ ThreadInv /\ IdleGot /\ ParentInv /\ QuietInv /\ MirrorInv

LEMMA CommentInit == C!Init => CommentInv
  <1> SUFFICES ASSUME C!Init
               PROVE  CommentInv
    OBVIOUS
  <1> USE DEF C!Init
  <1>0. C!NoNote = 0 /\ C!NoRow = [thread |-> 0, reply |-> 0, at |-> 0]
    BY DEF C!NoNote, C!NoRow
  <1>1. CommentType
    <2>1. <<>> \in Seq(Discussion) /\ <<>> \in Seq(Batch) /\ <<>> \in Seq(Summary)
      BY EmptySeq
    <2>2. rows \in [C!Note -> CommentRow]
      BY <1>0 DEF CommentRow
    <2>3. QED
      BY <1>0, <2>1, <2>2 DEF CommentType
  <1>2. DOMAIN threads = {} /\ \A r \in Run : DOMAIN got[r] = {}
    BY EmptySeq
  <1>3. ThreadInv
    <2>1. ASSUME NEW n \in C!Note
          PROVE  ~(n <= notes) /\ owner[n] = 0
      BY <1>0, Bounds DEF C!Note
    <2>2. QED
      BY <1>2, <2>1 DEF ThreadInv
  <1>4. ParentInv
    BY <1>0, <1>2 DEF ParentInv, RowInv, GotInv, PostedInv
  <1>5. IdleGot /\ QuietInv /\ MirrorInv
    BY DEF IdleGot, QuietInv, MirrorInv
  <1>6. QED
    BY <1>1, <1>3, <1>4, <1>5 DEF CommentInv

LEMMA CommentStep == CommentInv /\ [C!Next]_(C!vars) => CommentInv'
  <1> SUFFICES ASSUME CommentInv, [C!Next]_(C!vars)
               PROVE  CommentInv'
    OBVIOUS
  <1>1. CommentType /\ ThreadInv /\ IdleGot /\ ParentInv /\ QuietInv /\ MirrorInv
    BY DEF CommentInv
  <1>2. CommentType' /\ ThreadInv' /\ IdleGot'
    BY <1>1, CommentTypeStep, ThreadStep, IdleGotStep
  <1>3. ParentInv'
    BY <1>1, RowStep, GotStep, PostedStep DEF ParentInv
  <1>4. QuietInv' /\ MirrorInv'
    BY <1>1, QuietStep, MirrorStep
  <1>5. QED
    BY <1>2, <1>3, <1>4 DEF CommentInv

LEMMA ParentsHold == CommentInv => RepliesHaveParents
  <1> SUFFICES ASSUME CommentInv, NEW n \in C!Note, rows[n].reply # 0
               PROVE  /\ rows[rows[n].reply] # C!NoRow
                      /\ rows[rows[n].reply].thread = rows[n].thread
    BY DEF RepliesHaveParents, C!RepliesHaveParents, C!NoNote
  <1>1. rows[n] # C!NoRow
    BY DEF C!NoRow, C!NoNote
  <1>2. /\ rows[n].reply \in C!Note /\ rows[rows[n].reply] # C!NoRow
        /\ owner[rows[n].reply] = owner[n] /\ rows[n].thread = owner[n]
    BY <1>1 DEF CommentInv, ParentInv, RowInv
  <1>3. rows[rows[n].reply].thread = owner[rows[n].reply]
    BY <1>2 DEF CommentInv, ParentInv, RowInv
  <1>4. QED
    BY <1>2, <1>3

LEMMA ImportHolds == CommentInv => ImportIsComplete
  <1> SUFFICES ASSUME CommentInv, mirrored, NEW k \in DOMAIN threads, NEW j \in DOMAIN threads[k]
               PROVE  LET s == C!Summaries(threads[k])[j]
                      IN  /\ rows[s.note] = [thread |-> s.thread, reply |-> s.reply, at |-> s.at]
                          /\ activity >= s.at
    BY DEF ImportIsComplete, C!ImportIsComplete
  <1>1. CommentType /\ ThreadInv /\ Shown(k, j) /\ activity >= at[threads[k][j]]
    BY DEF CommentInv, MirrorInv
  <1>2. Now(k, j).note = threads[k][j] /\ Now(k, j).at = at[threads[k][j]]
    BY <1>1, NowIs
  <1>3. rows[Now(k, j).note] = RowOf(Now(k, j)) /\ activity >= Now(k, j).at
    BY <1>1, <1>2 DEF Shown
  <1>4. QED
    BY <1>3 DEF RowOf, Now

-----------------------------------------------------------------------------
(***************************************************************************)
(* Sessions and Heartbeat.  Their theorems are proved of the components    *)
(* themselves; the instances here are the ones of MCServices.              *)
(***************************************************************************)
SP == INSTANCE Sessions_proofs
HP == INSTANCE Heartbeat_proofs WITH now <- hnow

LEMMA SameSessions ==
  (S!Init => SP!Init) /\ ([S!Next]_(S!vars) => [SP!Next]_(SP!vars))
  <1>1. S!Init <=> SP!Init
    BY DEF S!Init, SP!Init, S!None, SP!None
  <1>2. S!Next <=> SP!Next
    BY DEF S!Next, SP!Next, S!None, SP!None, S!Then, SP!Then, S!Forget, SP!Forget,
           S!Goes, SP!Goes, S!Ends, SP!Ends, S!Checks, SP!Checks, S!LoggedIn, SP!LoggedIn,
           S!Login, SP!Login, S!Open, SP!Open, S!Logout, SP!Logout, S!Verify, SP!Verify,
           S!Change, SP!Change, S!Recover, SP!Recover, S!Expire, SP!Expire,
           S!Find, SP!Find, S!Set, SP!Set, S!Mark, SP!Mark, S!Sweep, SP!Sweep,
           S!Fail, SP!Fail, S!SetActive, SP!SetActive
  <1>3. UNCHANGED S!vars => UNCHANGED SP!vars
    BY DEF S!vars, SP!vars
  <1>4. QED
    BY <1>1, <1>2, <1>3

LEMMA SamePolls ==
  /\ \A p \in Process : H!FindNothing(p) <=> HP!FindNothing(p)
  /\ \A p \in Process : H!PollFails(p) <=> HP!PollFails(p)
  /\ \A p \in Process, j \in Job : H!Claim(p, j) <=> HP!Claim(p, j)
  /\ \A p \in Process, o \in Outcome : H!Record(p, o) <=> HP!Record(p, o)
  /\ \A j \in Job : H!Reset(j) <=> HP!Reset(j)
  <1>1. H!NULL = HP!NULL /\ H!NoJob = HP!NoJob
    BY DEF H!NULL, HP!NULL, H!NoJob, HP!NoJob
  <1>2. \A j \in Job : H!Stale(j) <=> HP!Stale(j)
    BY <1>1 DEF H!Stale, HP!Stale
  <1>3. H!Recovered = HP!Recovered
    BY <1>1, <1>2 DEF H!Recovered, HP!Recovered
  <1>4. \A p \in Process : H!Polls(p) <=> HP!Polls(p)
    BY <1>1 DEF H!Polls, HP!Polls, H!Up, HP!Up
  <1>5. \A p \in Process : H!FindNothing(p) <=> HP!FindNothing(p)
    BY <1>3, <1>4 DEF H!FindNothing, HP!FindNothing, H!SetStatus, HP!SetStatus, H!LoopOnly, HP!LoopOnly
  <1>6. \A p \in Process : H!PollFails(p) <=> HP!PollFails(p)
    BY <1>1, <1>3, <1>4 DEF H!PollFails, HP!PollFails, H!SetStatus, HP!SetStatus, H!LoopOnly, HP!LoopOnly
  <1>7. \A p \in Process, j \in Job : H!Claim(p, j) <=> HP!Claim(p, j)
    BY <1>1, <1>3, <1>4 DEF H!Claim, HP!Claim, H!SetStatus, HP!SetStatus, H!LoopOnly, HP!LoopOnly
  <1>8. \A p \in Process, o \in Outcome : H!Record(p, o) <=> HP!Record(p, o)
    BY <1>1 DEF H!Record, HP!Record, H!SetStatus, HP!SetStatus, H!Up, HP!Up
  <1>9. \A j \in Job : H!Reset(j) <=> HP!Reset(j)
    BY <1>1 DEF H!Reset, HP!Reset, H!LoopOnly, HP!LoopOnly
  <1>10. QED
    BY <1>5, <1>6, <1>7, <1>8, <1>9

LEMMA SameHeartbeat ==
  (H!Init => HP!Init) /\ ([H!Next]_(H!vars) => [HP!Next]_(HP!vars))
  <1>1. H!Init => HP!Init
    BY DEF H!Init, HP!Init, H!NoRow, HP!NoRow, H!NoBeat, HP!NoBeat, H!Zero, HP!Zero,
           H!NULL, HP!NULL, H!NoJob, HP!NoJob
  <1>2. \A p \in Process : H!Start(p) <=> HP!Start(p)
    BY DEF H!Start, HP!Start, H!jobVars, HP!jobVars
  <1>3. \A p \in Process : H!Take(p) <=> HP!Take(p)
    BY DEF H!Take, HP!Take, H!jobVars, HP!jobVars, H!Due, HP!Due, H!Up, HP!Up, H!Beating, HP!Beating,
           H!NoBeat, HP!NoBeat, H!Zero, HP!Zero
  <1>4. \A p \in Process : H!Beat(p) <=> HP!Beat(p)
    BY DEF H!Beat, HP!Beat, H!jobVars, HP!jobVars, H!Rests, HP!Rests, H!Up, HP!Up, H!Beating, HP!Beating,
           H!NoBeat, HP!NoBeat, H!Zero, HP!Zero, H!Plus, HP!Plus
  <1>5. \A p \in Process : H!BeatFails(p) <=> HP!BeatFails(p)
    BY DEF H!BeatFails, HP!BeatFails, H!jobVars, HP!jobVars, H!Rests, HP!Rests, H!Up, HP!Up,
           H!Beating, HP!Beating, H!NoBeat, HP!NoBeat, H!Zero, HP!Zero, H!Plus, HP!Plus
  <1>6. \A p \in Process : H!Die(p) <=> HP!Die(p)
    BY DEF H!Die, HP!Die, H!SetStatus, HP!SetStatus, H!Up, HP!Up, H!Zero, HP!Zero, H!Plus, HP!Plus,
           H!NoJob, HP!NoJob
  <1>7. H!Tick <=> HP!Tick
    BY DEF H!Tick, HP!Tick, H!Due, HP!Due, H!Up, HP!Up, H!Beating, HP!Beating,
           H!NoBeat, HP!NoBeat, H!Zero, HP!Zero
  <1>8. H!Next => HP!Next
    BY <1>2, <1>3, <1>4, <1>5, <1>6, <1>7, SamePolls DEF H!Next, HP!Next
  <1>9. UNCHANGED H!vars => UNCHANGED HP!vars
    BY DEF H!vars, HP!vars, H!jobVars, HP!jobVars
  <1>10. QED
    BY <1>1, <1>8, <1>9

-----------------------------------------------------------------------------
(***************************************************************************)
(* All five side by side.                                                  *)
(***************************************************************************)
\* Each component behaves as if it were alone: no step of another touches it.
THEOREM Apart == Spec => I!Spec /\ S!Spec /\ C!Spec /\ H!Spec /\ G!Spec
  <1>1. Init => I!Init /\ S!Init /\ C!Init /\ H!Init /\ G!Init
    BY DEF Init
  <1>2. [Next]_vars => [I!Next]_(I!vars)
    BY DEF Next, vars, iVars, I!vars, I!rowVars, I!requestVars, I!visitorVars
  <1>3. [Next]_vars => [S!Next]_(S!vars)
    BY DEF Next, vars, sVars, S!vars
  <1>4. [Next]_vars => [C!Next]_(C!vars)
    BY DEF Next, vars, cVars, C!vars, C!gitlab, C!runVars, C!callVars
  <1>5. [Next]_vars => [H!Next]_(H!vars)
    BY DEF Next, vars, hVars, H!vars, H!jobVars
  <1>6. [Next]_vars => [G!Next]_(G!vars)
    BY DEF Next, vars, gVars, G!vars, G!tables, G!starts
  <1>7. QED
    BY <1>1, <1>2, <1>3, <1>4, <1>5, <1>6, PTL DEF Spec, I!Spec, S!Spec, C!Spec, H!Spec, G!Spec

\* Of all pending invitations of an email one is accepted, exactly when the user
\* exists, for any number of requests and visitors.
THEOREM OneAcceptance == Spec => []AcceptedOnce
  <1>1. I!Spec => []AcceptedOnce
    BY InvitationInit, InvitationTypeStep, AcceptedStep, AcceptedOnceHolds, PTL DEF I!Spec
  <1>2. QED
    BY <1>1, Apart, PTL

\* The queued link of an invitation that no overlapping or failing request has
\* touched is the one that works.
THEOREM LinkWorks == Spec => []QueuedLinkWorks
  <1>1. LinkInv => QueuedLinkWorks
    BY DEF LinkInv, Linked, Mails, QueuedLinkWorks, I!QueuedLinkWorks, I!Mailing
  <1>2. I!Spec => []QueuedLinkWorks
    BY <1>1, InvitationInit, InvitationTypeStep, AcceptedStep, LinkStep, PTL DEF I!Spec
  <1>3. QED
    BY <1>2, Apart, PTL

\* After reset_password no session opened with an older password is left.
THEOREM SessionsEnd == Spec => []ResetEndsSessions
  <1>1. SP!ResetEndsSessions => ResetEndsSessions
    BY DEF ResetEndsSessions, S!ResetEndsSessions, SP!ResetEndsSessions, S!None, SP!None
  <1>2. S!Spec => SP!Spec
    BY SameSessions, PTL DEF S!Spec, SP!Spec
  <1>3. QED
    BY <1>1, <1>2, Apart, SP!ResetEnds, PTL

\* A recovery link sets the password once.
THEOREM TokensSpent == Spec => []TokenIsSpent
  <1>1. SP!TokenIsSpent => TokenIsSpent
    BY DEF TokenIsSpent, S!TokenIsSpent, SP!TokenIsSpent
  <1>2. S!Spec => SP!Spec
    BY SameSessions, PTL DEF S!Spec, SP!Spec
  <1>3. QED
    BY <1>1, <1>2, Apart, SP!TokenSpent, PTL

\* Each recorded job is counted once or known to be lost.
THEOREM JobsCounted == Spec => []CountsAddUp
  <1>1. HP!CountsAddUp => CountsAddUp
    BY DEF CountsAddUp, H!CountsAddUp, HP!CountsAddUp
  <1>2. H!Spec => HP!Spec
    BY SameHeartbeat, PTL DEF H!Spec, HP!Spec
  <1>3. HP!Durations
    BY Bounds DEF HP!Durations
  <1>4. QED
    BY <1>1, <1>2, <1>3, Apart, HP!Counted, PTL

\* Readiness fails once no worker is left, its worker check takes none that runs
\* for dead, and a job that nobody finishes fails it for a bounded time while a
\* worker waits.
THEOREM WorkersNoticed == Spec => []ReadinessIsTimely
  <1>1. HP!ReadinessIsTimely => ReadinessIsTimely
    <2>1. H!WorkerCheck <=> HP!WorkerCheck
      BY DEF H!WorkerCheck, HP!WorkerCheck, H!Healthy, HP!Healthy, H!NoRow, HP!NoRow, H!Zero, HP!Zero
    <2>2. \A j \in Job : H!Stale(j) <=> HP!Stale(j)
      BY DEF H!Stale, HP!Stale, H!NULL, HP!NULL
    <2>3. H!Ready <=> HP!Ready
      BY <2>1, <2>2 DEF H!Ready, HP!Ready, H!QueueCheck, HP!QueueCheck
    <2>4. \A p \in Process :
            (H!Up(p) <=> HP!Up(p)) /\ (H!Sound(p) <=> HP!Sound(p)) /\ (H!Waits(p) <=> HP!Waits(p))
      BY DEF H!Up, HP!Up, H!Sound, HP!Sound, H!Waits, HP!Waits
    <2>5. QED
      BY <2>1, <2>2, <2>3, <2>4 DEF ReadinessIsTimely, H!ReadinessIsTimely, HP!ReadinessIsTimely
  <1>2. H!Spec => HP!Spec
    BY SameHeartbeat, PTL DEF H!Spec, HP!Spec
  <1>3. HP!Timing
    BY Bounds, Timing DEF HP!Timing, HP!Durations
  <1>4. QED
    BY <1>1, <1>2, <1>3, Apart, HP!Timely, PTL

\* Once a server runs, the two integration tables agree unless the last call was
\* overlapped or failed half-way.
THEOREM IntegrationsAgree == Spec => []TablesAgree
  <1>1. G!Spec => []TablesAgree
    BY IntegrationInit, IntegrationStep, TablesAgreeHolds, PTL DEF G!Spec
  <1>2. QED
    BY <1>1, Apart, PTL

\* A reply that is shown has its parent in the same discussion, for any number
\* of imports, calls, notes and changes in GitLab and every page size.
THEOREM ParentsAreThere == Spec => []RepliesHaveParents
  <1>1. C!Spec => []RepliesHaveParents
    BY CommentInit, CommentStep, ParentsHold, PTL DEF C!Spec
  <1>2. QED
    BY <1>1, Apart, PTL

\* An import during which nothing changed has brought every note of every page
\* as it is, and the issue is as recent as they are.
THEOREM ImportsBringAll == Spec => []ImportIsComplete
  <1>1. C!Spec => []ImportIsComplete
    BY CommentInit, CommentStep, ImportHolds, PTL DEF C!Spec
  <1>2. QED
    BY <1>1, Apart, PTL
=============================================================================
