--------------------------- MODULE Uploads_proofs ---------------------------
(***************************************************************************)
(* Theorems about Uploads for every set of uploads and requests.           *)
(***************************************************************************)
EXTENDS Uploads, FiniteSetTheorems, TLAPS

-----------------------------------------------------------------------------
(***************************************************************************)
(* Files.  The bytes of an upload are in one place: the rename that takes  *)
(* them out of the upload directory is what decides between requests.      *)
(***************************************************************************)
FileInv ==
  /\ upload \in [Upload -> {"none", "writing", "idle", "deleting", "removing", "lost"}]
  /\ attached \subseteq stored
  /\ temp \subseteq Upload /\ \A u \in temp : upload[u] # "none"
  /\ \A r \in Req, u \in Upload :
       <<r, u>> \in stored =>
         /\ upload[u] # "none" /\ u \notin temp
         /\ \A s \in Req : <<s, u>> \in stored => r = s

\* A step that writes no file and inserts no attachment.
LEMMA FilesKept ==
  ASSUME FileInv, temp' \subseteq temp, UNCHANGED <<stored, attached>>,
         \/ upload' = upload
         \/ \E u \in Upload :
              \E v \in {"writing", "idle", "deleting", "removing", "lost"} :
                upload' = [upload EXCEPT ![u] = v]
  PROVE  FileInv'
  <1>1. /\ upload' \in [Upload -> {"none", "writing", "idle", "deleting", "removing", "lost"}]
        /\ \A u \in Upload : upload[u] # "none" => upload'[u] # "none"
    BY DEF FileInv
  <1>2. temp' \subseteq Upload /\ \A u \in temp' : upload'[u] # "none"
    BY <1>1 DEF FileInv
  <1>3. QED
    BY <1>1, <1>2 DEF FileInv

\* Every step keeps the bytes of an upload in one place.
LEMMA FileStep == FileInv /\ [Next]_vars => FileInv'
  <1> SUFFICES ASSUME FileInv, [Next]_vars PROVE FileInv'
    OBVIOUS
  <1>1. CASE UNCHANGED vars
    BY <1>1, FilesKept DEF vars, fileVars, rowVars
  <1>2. ASSUME NEW u \in Upload, WriteFile(u) PROVE FileInv'
    BY <1>2 DEF FileInv, WriteFile, rowVars
  <1>3. ASSUME NEW u \in Upload,
               InsertRow(u) \/ Expire(u) \/ BeginDelete(u) \/ DeleteRow(u) \/ SweepDelete(u)
        PROVE  FileInv'
    BY <1>3, FilesKept
       DEF InsertRow, Expire, BeginDelete, DeleteRow, SweepDelete, fileVars, rowVars
  <1>4. ASSUME NEW u \in Upload, FailUpload(u) PROVE FileInv'
    <2>1. PICK v \in {"lost", "idle"} : upload' = [upload EXCEPT ![u] = v]
      BY <1>4 DEF FailUpload
    <2>2. QED
      BY <1>4, <2>1, FilesKept DEF FailUpload, fileVars, rowVars
  <1>5. ASSUME NEW u \in Upload, RemoveFile(u) \/ SweepRemove(u) PROVE FileInv'
    BY <1>5, FilesKept DEF RemoveFile, SweepRemove, rowVars
  <1>6. CASE SweepList \/ FailSweep
    BY <1>6, FilesKept DEF SweepList, FailSweep, fileVars, rowVars
  <1>7. ASSUME NEW r \in Req,
               \/ \E k \in Kind, named \in SUBSET Upload : Find(r, k, named)
               \/ Number(r) \/ Comment(r) \/ Post(r) \/ Refuse(r) \/ Fail(r)
        PROVE  FileInv'
    BY <1>7, FilesKept DEF Find, Number, Comment, Post, Refuse, Fail, fileVars, rowVars
  <1>8. ASSUME NEW r \in Req, NEW u \in Upload, Move(r, u) PROVE FileInv'
    BY <1>8 DEF FileInv, Move, rowVars
  <1>9. ASSUME NEW r \in Req, NEW u \in Upload, Attach(r, u) PROVE FileInv'
    BY <1>9 DEF FileInv, Attach, fileVars
  <1>10. ASSUME NEW r \in Req, NEW u \in Upload, Link(r, u) \/ Send(r, u) \/ Consume(r, u)
         PROVE  FileInv'
    BY <1>10, FilesKept DEF Link, Send, Consume, fileVars, rowVars
  <1>11. QED
    BY <1>1, <1>2, <1>3, <1>4, <1>5, <1>6, <1>7, <1>8, <1>9, <1>10 DEF Next

\* An attachment has its file, and no upload becomes two attachments, however
\* many requests find its row and whatever fails.
THEOREM UploadsAttachOnce == Spec => []AttachedOnce
  <1>1. Init => FileInv
    BY DEF Init, FileInv
  <1>2. FileInv => AttachedOnce
    BY DEF FileInv, AttachedOnce
  <1>3. QED
    BY <1>1, <1>2, FileStep, PTL DEF Spec

-----------------------------------------------------------------------------
(***************************************************************************)
(* Requests.  What a request has done with the uploads it found stays      *)
(* done: nobody else unlinks, detaches or revives anything.                *)
(***************************************************************************)
Where == {"idle", "number", "move", "attach", "comment", "link", "send", "post",
          "consume", "done", "failed"}

RowInv ==
  /\ row \in [Upload -> {"none", "live", "consumed", "gone"}]
  /\ upload \in [Upload -> {"none", "writing", "idle", "deleting", "removing", "lost"}]
  /\ \A u \in Upload : row[u] # "none" => upload[u] \notin {"none", "writing"}

ReqType ==
  /\ pc \in [Req -> Where] /\ kind \in [Req -> Kind \cup {"none"}]
  /\ found \in [Req -> SUBSET Upload] /\ todo \in [Req -> SUBSET Upload]

\* Upload u has reached what request r is about.
Placed(r, u) ==
  \/ kind[r] \in {"gitlab comment", "gitlab issue"} /\ u \in sent
  \/ kind[r] = "issue" /\ <<r, u>> \in attached
  \/ kind[r] = "comment" /\ <<r, u>> \in attached \cap linked

\* What request r has done with upload u, which it found.
Progress(r, u) ==
  /\ row[u] # "none"
  /\ pc[r] \in {"number", "comment", "post"} => u \in todo[r]
  /\ pc[r] \in {"move", "attach"} => u \in todo[r] \/ <<r, u>> \in attached
  /\ pc[r] \in {"comment", "link"} => <<r, u>> \in attached
  /\ pc[r] = "link" => u \in todo[r] \/ <<r, u>> \in linked
  /\ pc[r] = "send" => u \in todo[r] \/ u \in sent
  /\ pc[r] = "post" => u \in sent
  /\ pc[r] \in {"consume", "done"} => Placed(r, u)
  /\ pc[r] = "consume" => u \in todo[r] \/ row[u] # "live"
  /\ pc[r] = "done" => row[u] # "live"

KindInv(r) ==
  /\ pc[r] \in {"number", "comment", "link"} => kind[r] = "comment"
  /\ pc[r] \in {"move", "attach"} => kind[r] \in {"comment", "issue"}
  /\ pc[r] \in {"send", "post"} => kind[r] \in {"gitlab comment", "gitlab issue"}

ReqInv ==
  /\ RowInv /\ ReqType
  /\ \A r \in Req : KindInv(r)
  /\ \A r \in Req : \A u \in found[r] : Progress(r, u)

\* No row disappears from sight, and none comes back to life.
RowsKept ==
  \A u \in Upload :
    /\ row[u] # "none" => row'[u] # "none"
    /\ row[u] \notin {"none", "live"} => row'[u] # "live"

\* What is done stays done.
Monotone ==
  attached \subseteq attached' /\ linked \subseteq linked' /\ sent \subseteq sent' /\ RowsKept

\* Request r does nothing.
Still(r) == /\ pc'[r] = pc[r] /\ kind'[r] = kind[r]
            /\ found'[r] = found[r] /\ todo'[r] = todo[r]

\* A request that does nothing loses nothing.
LEMMA StillKeeps ==
  ASSUME ReqInv, Monotone, NEW r \in Req, Still(r)
  PROVE  KindInv(r)' /\ \A u \in found'[r] : Progress(r, u)'
  <1>1. KindInv(r)'
    BY DEF ReqInv, KindInv, Still
  <1>2. ASSUME NEW u \in found'[r] PROVE Progress(r, u)'
    <2>1. u \in Upload /\ Progress(r, u)
      BY <1>2 DEF ReqInv, ReqType, Still
    <2>2. Placed(r, u) => Placed(r, u)'
      BY DEF Placed, Monotone, Still
    <2>3. /\ row'[u] # "none"
          /\ row[u] # "live" => row'[u] # "live"
      BY <2>1 DEF Progress, Monotone, RowsKept
    <2>4. /\ <<r, u>> \in attached => <<r, u>> \in attached'
          /\ <<r, u>> \in linked => <<r, u>> \in linked'
          /\ u \in sent => u \in sent'
      BY DEF Monotone
    <2>5. pc'[r] = pc[r] /\ todo'[r] = todo[r]
      BY DEF Still
    <2>6. QED
      BY <2>1, <2>2, <2>3, <2>4, <2>5 DEF Progress
  <1>3. QED
    BY <1>1, <1>2

\* The requests of users on one upload, the clock and the clean-up undo nothing.
LEMMA OthersKeep ==
  ASSUME ReqInv,
         \/ \E u \in Upload :
              \/ WriteFile(u) \/ InsertRow(u) \/ Expire(u)
              \/ BeginDelete(u) \/ DeleteRow(u) \/ RemoveFile(u) \/ FailUpload(u)
              \/ SweepRemove(u) \/ SweepDelete(u)
         \/ SweepList \/ FailSweep \/ UNCHANGED vars
  PROVE  ReqInv'
  <1>1. UNCHANGED <<reqVars, attached, linked, sent>>
    BY DEF WriteFile, InsertRow, Expire, BeginDelete, DeleteRow, RemoveFile, FailUpload,
           SweepRemove, SweepDelete, SweepList, FailSweep, vars, rowVars, fileVars
  <1>2. RowInv' /\ RowsKept
    <2>1. CASE UNCHANGED row /\ UNCHANGED upload
      BY <2>1 DEF ReqInv, RowInv, RowsKept
    <2>2. ASSUME NEW u \in Upload, InsertRow(u) PROVE RowInv' /\ RowsKept
      BY <2>2 DEF ReqInv, RowInv, RowsKept, InsertRow
    <2>3. ASSUME NEW u \in Upload, DeleteRow(u) \/ SweepDelete(u) PROVE RowInv' /\ RowsKept
      BY <2>3 DEF ReqInv, RowInv, RowsKept, DeleteRow, SweepDelete, Delete
    <2>4. ASSUME NEW u \in Upload,
                 WriteFile(u) \/ BeginDelete(u) \/ RemoveFile(u) \/ FailUpload(u)
          PROVE  RowInv' /\ RowsKept
      BY <2>4 DEF ReqInv, RowInv, RowsKept, WriteFile, BeginDelete, RemoveFile, FailUpload, rowVars
    <2>5. ASSUME NEW u \in Upload, Expire(u) \/ SweepRemove(u) PROVE RowInv' /\ RowsKept
      BY <2>1, <2>5 DEF Expire, SweepRemove, rowVars
    <2>6. CASE SweepList \/ FailSweep \/ UNCHANGED vars
      BY <2>1, <2>6 DEF SweepList, FailSweep, rowVars, vars
    <2>7. QED
      BY <2>2, <2>3, <2>4, <2>5, <2>6
  <1>3. Monotone /\ \A r \in Req : Still(r)
    BY <1>1, <1>2 DEF Monotone, Still, reqVars
  <1>4. ReqType'
    BY <1>1 DEF ReqInv, ReqType, reqVars
  <1>5. QED
    BY <1>2, <1>3, <1>4, StillKeeps DEF ReqInv

\* A round of a loop of request r: the last, or one more upload is handled.
LEMMA Rounds ==
  ASSUME ReqType, NEW r \in Req, NEW u \in todo[r],
         NEW loop \in Where, NEW next \in Where, NEW last \in SUBSET Upload,
         Handled(r, u, loop, next, last)
  PROVE  /\ pc' \in [Req -> Where] /\ todo' \in [Req -> SUBSET Upload]
         /\ \A s \in Req \ {r} : pc'[s] = pc[s] /\ todo'[s] = todo[s]
         /\ \/ todo[r] = {u} /\ pc'[r] = next /\ todo'[r] = last
            \/ todo[r] # {u} /\ pc'[r] = loop /\ todo'[r] = todo[r] \ {u}
  BY DEF ReqType, Handled, Goto

\* It is enough to look at the request that steps.
LEMMA RequestKeeps ==
  ASSUME ReqInv, NEW r \in Req, RowInv', ReqType', Monotone,
         \A s \in Req \ {r} : Still(s),
         KindInv(r)', \A u \in found'[r] : Progress(r, u)'
  PROVE  ReqInv'
  <1>1. ASSUME NEW s \in Req PROVE KindInv(s)' /\ \A u \in found'[s] : Progress(s, u)'
    <2>1. CASE s = r
      BY <2>1
    <2>2. CASE s # r
      BY <2>2, StillKeeps
    <2>3. QED
      BY <2>1, <2>2
  <1>2. QED
    BY <1>1 DEF ReqInv

\* The steps of a request that are not rounds of a loop.
LEMMA MoveOn ==
  ASSUME ReqInv, NEW r \in Req,
         \/ \E k \in Kind, named \in SUBSET Upload : Find(r, k, named)
         \/ \E u \in Upload : Move(r, u)
         \/ Number(r) \/ Comment(r) \/ Post(r) \/ Refuse(r) \/ Fail(r)
  PROVE  ReqInv'
  <1> USE DEF ReqInv
  <1>1. /\ UNCHANGED <<row, upload, attached, linked, sent>>
        /\ \E at \in Where : pc' = [pc EXCEPT ![r] = at]
    BY DEF Find, Move, Number, Comment, Post, Refuse, Fail, Goto, rowVars, fileVars, Where, Kind
  <1>2. RowInv' /\ Monotone
    BY <1>1 DEF RowInv, Monotone, RowsKept
  <1>3. ASSUME NEW k \in Kind, NEW named \in SUBSET Upload, Find(r, k, named) PROVE ReqInv'
    <2>1. PICK us \in SUBSET Upload :
            /\ \A u \in us : row[u] = "live"
            /\ found' = [found EXCEPT ![r] = us] /\ todo' = [todo EXCEPT ![r] = us]
            /\ kind' = [kind EXCEPT ![r] = k]
      BY <1>3 DEF Find
    <2>2. PICK at : /\ pc' = [pc EXCEPT ![r] = at]
                    /\ \/ at = "number" /\ k = "comment"
                       \/ at = "move" /\ k = "issue"
                       \/ at = "send" /\ k \in {"gitlab comment", "gitlab issue"}
      BY <1>3 DEF Find, Goto, Kind
    <2>3. ReqType' /\ \A s \in Req \ {r} : Still(s)
      BY <2>1, <2>2 DEF ReqType, Still, Where
    <2>4. pc'[r] = at /\ kind'[r] = k /\ found'[r] = us /\ todo'[r] = us
      BY <2>1, <2>2 DEF ReqType
    <2>5. KindInv(r)'
      BY <2>2, <2>4 DEF KindInv
    <2>6. \A u \in found'[r] : Progress(r, u)'
      BY <1>1, <2>1, <2>2, <2>4 DEF Progress
    <2>7. QED
      BY <1>2, <2>3, <2>5, <2>6, RequestKeeps
  <1>4. ASSUME NEW at \in Where, pc' = [pc EXCEPT ![r] = at],
               UNCHANGED <<kind, found, todo>>,
               \/ pc[r] = "number" /\ at = "move"
               \/ pc[r] = "move" /\ at = "attach"
               \/ pc[r] = "comment" /\ at = "link"
               \/ pc[r] = "post" /\ at = "consume"
               \/ at = "failed"
        PROVE  ReqInv'
    <2>1. ReqType' /\ \A s \in Req \ {r} : Still(s)
      BY <1>4 DEF ReqType, Still
    <2>2. pc'[r] = at /\ kind'[r] = kind[r] /\ todo'[r] = todo[r] /\ found'[r] = found[r]
      BY <1>4 DEF ReqType
    <2>3. KindInv(r)'
      BY <1>4, <2>2 DEF KindInv
    <2>4. ASSUME NEW u \in found[r] PROVE Progress(r, u)'
      <3>1. Progress(r, u)
        OBVIOUS
      <3>2. pc[r] = "post" => Placed(r, u)'
        BY <1>1, <2>2, <3>1 DEF Progress, KindInv, Placed
      <3>3. QED
        BY <1>1, <1>4, <2>2, <3>1, <3>2 DEF Progress
    <2>5. QED
      BY <1>2, <2>1, <2>2, <2>3, <2>4, RequestKeeps
  <1>5. CASE \/ \E u \in Upload : Move(r, u)
             \/ Number(r) \/ Comment(r) \/ Post(r) \/ Refuse(r) \/ Fail(r)
    BY <1>4, <1>5 DEF Move, Number, Comment, Post, Refuse, Fail, Goto, Where
  <1>6. QED
    BY <1>3, <1>5

\* The rounds of its loops.
LEMMA LoopOn ==
  ASSUME ReqInv, NEW r \in Req, NEW u \in Upload,
         Attach(r, u) \/ Link(r, u) \/ Send(r, u) \/ Consume(r, u)
  PROVE  ReqInv'
  <1> USE DEF ReqInv
  <1>1. /\ u \in todo[r] /\ UNCHANGED <<kind, found, upload>>
        /\ attached \subseteq attached' /\ linked \subseteq linked' /\ sent \subseteq sent'
    BY DEF Attach, Link, Send, Consume, rowVars, fileVars
  <1>2. RowInv' /\ Monotone
    <2>1. CASE Consume(r, u)
      BY <1>1, <2>1 DEF Consume, RowInv, Monotone, RowsKept
    <2>2. CASE row' = row
      BY <1>1, <2>2 DEF RowInv, Monotone, RowsKept
    <2>3. QED
      BY <2>1, <2>2 DEF Attach, Link, Send, rowVars
  <1>3. ASSUME NEW loop \in Where, NEW next \in Where, NEW last \in SUBSET Upload,
               Handled(r, u, loop, next, last),
               KindInv(r)',
               \A v \in found[r] : /\ todo[r] = {u} /\ pc'[r] = next /\ todo'[r] = last
                                   => Progress(r, v)',
               \A v \in found[r] : pc'[r] = loop /\ todo'[r] = todo[r] \ {u}
                                   => Progress(r, v)'
        PROVE  ReqInv'
    <2>1. /\ pc' \in [Req -> Where] /\ todo' \in [Req -> SUBSET Upload]
          /\ \A s \in Req \ {r} : pc'[s] = pc[s] /\ todo'[s] = todo[s]
          /\ \/ todo[r] = {u} /\ pc'[r] = next /\ todo'[r] = last
             \/ todo[r] # {u} /\ pc'[r] = loop /\ todo'[r] = todo[r] \ {u}
      BY <1>1, <1>3, Rounds
    <2>2. ReqType' /\ \A s \in Req \ {r} : Still(s)
      BY <1>1, <2>1 DEF ReqType, Still
    <2>3. \A v \in found'[r] : Progress(r, v)'
      BY <1>1, <1>3, <2>1
    <2>4. QED
      BY <1>2, <1>3, <2>2, <2>3, RequestKeeps
  <1>4. PICK all \in SUBSET Upload : all = found[r]
    BY DEF ReqType
  <1>5. ASSUME NEW v \in found[r] PROVE Progress(r, v) /\ v \in Upload
    BY DEF ReqType
  <1>6. kind'[r] = kind[r] /\ KindInv(r)
    BY <1>1
  <1>7. CASE Attach(r, u)
    <2>1. PICK next \in Where : /\ Handled(r, u, "move", next, all)
                                /\ next = IF kind[r] = "comment" THEN "comment" ELSE "consume"
      BY <1>4, <1>7 DEF Attach, Where
    <2>2. /\ pc[r] = "attach" /\ attached' = attached \cup {<<r, u>>}
          /\ row' = row /\ linked' = linked
      BY <1>7 DEF Attach
    <2>3. /\ "move" \in Where
          /\ pc'[r] \in {"move", next}
      BY <1>1, <2>1, Rounds DEF Where
    <2>4. KindInv(r)'
      BY <1>6, <2>1, <2>2, <2>3 DEF KindInv
    <2>5. ASSUME NEW v \in found[r], todo[r] = {u}, pc'[r] = next, todo'[r] = all
          PROVE  Progress(r, v)'
      BY <1>4, <1>5, <1>6, <2>1, <2>2, <2>5 DEF Progress, KindInv, Placed
    <2>6. ASSUME NEW v \in found[r], pc'[r] = "move", todo'[r] = todo[r] \ {u}
          PROVE  Progress(r, v)'
      BY <1>5, <2>2, <2>6 DEF Progress
    <2>7. QED
      BY <1>3, <2>1, <2>3, <2>4, <2>5, <2>6
  <1>8. CASE Link(r, u)
    <2>1. Handled(r, u, "link", "consume", all)
      BY <1>4, <1>8 DEF Link
    <2>2. /\ pc[r] = "link" /\ linked' = linked \cup {<<r, u>>}
          /\ row' = row /\ attached' = attached
      BY <1>8 DEF Link
    <2>3. /\ "link" \in Where /\ "consume" \in Where
          /\ pc'[r] \in {"link", "consume"}
      BY <1>1, <2>1, Rounds DEF Where
    <2>4. KindInv(r)'
      BY <1>6, <2>2, <2>3 DEF KindInv
    <2>5. ASSUME NEW v \in found[r], todo[r] = {u}, pc'[r] = "consume", todo'[r] = all
          PROVE  Progress(r, v)'
      BY <1>4, <1>5, <1>6, <2>2, <2>5 DEF Progress, KindInv, Placed
    <2>6. ASSUME NEW v \in found[r], pc'[r] = "link", todo'[r] = todo[r] \ {u}
          PROVE  Progress(r, v)'
      BY <1>5, <2>2, <2>6 DEF Progress
    <2>7. QED
      BY <1>3, <2>1, <2>3, <2>4, <2>5, <2>6
  <1>9. CASE Send(r, u)
    <2>1. Handled(r, u, "send", "post", all)
      BY <1>4, <1>9 DEF Send
    <2>2. pc[r] = "send" /\ sent' = sent \cup {u} /\ row' = row
      BY <1>9 DEF Send, rowVars
    <2>3. /\ "send" \in Where /\ "post" \in Where
          /\ pc'[r] \in {"send", "post"}
      BY <1>1, <2>1, Rounds DEF Where
    <2>4. KindInv(r)'
      BY <1>6, <2>2, <2>3 DEF KindInv
    <2>5. ASSUME NEW v \in found[r], todo[r] = {u}, pc'[r] = "post", todo'[r] = all
          PROVE  Progress(r, v)'
      BY <1>4, <1>5, <2>2, <2>5 DEF Progress
    <2>6. ASSUME NEW v \in found[r], pc'[r] = "send", todo'[r] = todo[r] \ {u}
          PROVE  Progress(r, v)'
      BY <1>5, <2>2, <2>6 DEF Progress
    <2>7. QED
      BY <1>3, <2>1, <2>3, <2>4, <2>5, <2>6
  <1>10. CASE Consume(r, u)
    <2>1. Handled(r, u, "consume", "done", {})
      BY <1>10 DEF Consume
    <2>2. /\ pc[r] = "consume" /\ UNCHANGED <<attached, linked, sent>>
          /\ row' = [row EXCEPT ![u] = IF @ = "live" THEN "consumed" ELSE @]
      BY <1>10 DEF Consume, fileVars
    <2>3. /\ "consume" \in Where /\ "done" \in Where
          /\ pc'[r] \in {"consume", "done"}
      BY <1>1, <2>1, Rounds DEF Where
    <2>4. KindInv(r)'
      BY <1>6, <2>3 DEF KindInv
    <2>5. ASSUME NEW v \in found[r]
          PROVE  /\ Placed(r, v)' /\ row'[v] # "none" /\ row'[u] # "live"
                 /\ row[v] # "live" => row'[v] # "live"
      BY <1>5, <1>6, <2>2 DEF Progress, Placed, RowInv
    <2>6. ASSUME NEW v \in found[r], todo[r] = {u}, pc'[r] = "done"
          PROVE  Progress(r, v)'
      BY <1>5, <2>2, <2>5, <2>6 DEF Progress
    <2>7. ASSUME NEW v \in found[r], pc'[r] = "consume", todo'[r] = todo[r] \ {u}
          PROVE  Progress(r, v)'
      BY <1>5, <2>2, <2>5, <2>7 DEF Progress
    <2>8. QED
      BY <1>3, <2>1, <2>3, <2>4, <2>6, <2>7
  <1>11. QED
    BY <1>7, <1>8, <1>9, <1>10

\* Every step keeps what the requests have done.
LEMMA ReqStep == ReqInv /\ [Next]_vars => ReqInv'
  BY OthersKeep, MoveOn, LoopOn DEF Next

\* A request that succeeds has given every upload it found to its comment or
\* issue, and none of them is found again, whatever ran beside it.
THEOREM SuccessesAreComplete == Spec => []SuccessIsComplete
  <1>1. Init => ReqInv
    BY DEF Init, ReqInv, RowInv, ReqType, KindInv, Where
  <1>2. ReqInv => SuccessIsComplete
    BY DEF ReqInv, Progress, Placed, SuccessIsComplete
  <1>3. QED
    BY <1>1, <1>2, ReqStep, PTL DEF Spec

-----------------------------------------------------------------------------
(***************************************************************************)
(* Types.  ReqInv has those of requests and rows; the number of a local    *)
(* note has one because a finite set of numbers has a greatest.            *)
(***************************************************************************)
LEMMA Greatest ==
  ASSUME NEW S \in SUBSET Nat, IsFiniteSet(S), S # {}
  PROVE  \E n \in S : \A m \in S : m <= n
  <1> DEFINE above(n) == {m \in S : m > n}
             sizes == {Cardinality(above(n)) : n \in S}
  <1>1. \A n \in S : IsFiniteSet(above(n)) /\ Cardinality(above(n)) \in Nat
    BY FS_Subset, FS_CardinalityType
  <1>2. sizes \subseteq Nat /\ sizes # {}
    BY <1>1
  <1>3. PICK least \in sizes : \A k \in sizes : <<k, least>> \notin OpToRel(<, Nat)
    BY <1>2, WFMin, NatLessThanWellFounded, Zenon
  <1>4. \A k \in sizes : least <= k
    <2> HIDE DEF sizes
    <2>1. ASSUME NEW k \in sizes PROVE ~(k < least)
      <3>1. <<k, least>> \in Nat \X Nat
        BY <1>2
      <3>2. k < least => <<k, least>> \in OpToRel(<, Nat)
        BY <3>1, Zenon DEF OpToRel
      <3>3. QED
        BY <1>3, <3>2
    <2>2. QED
      BY <1>2, <2>1
  <1>5. PICK n \in S : least = Cardinality(above(n))
    OBVIOUS
  <1>6. ASSUME NEW m \in S, m > n PROVE FALSE
    <2>1. above(m) \in SUBSET above(n) /\ m \in above(n) /\ m \notin above(m)
      <3>1. m \in Nat /\ n \in Nat /\ \A k \in S : k \in Nat
        OBVIOUS
      <3>2. \A k \in S : k > m => k > n
        BY <1>6, <3>1
      <3>3. ~(m > m)
        BY <3>1
      <3>4. QED
        BY <1>6, <3>2, <3>3
    <2>2. Cardinality(above(m)) <= Cardinality(above(n)) /\ above(m) # above(n)
      BY <1>1, <2>1, FS_Subset
    <2>3. Cardinality(above(m)) # Cardinality(above(n))
      BY <1>1, <2>1, <2>2, FS_Subset
    <2>4. least <= Cardinality(above(m))
      BY <1>4
    <2>5. QED
      BY <1>1, <1>5, <2>2, <2>3, <2>4
  <1>7. QED
    BY <1>6

\* next_local_note_id
LEMMA NumberType ==
  ASSUME NEW r \in Req, Number(r), number \in [Req -> Nat], comment \in [Req -> Nat]
  PROVE  number' \in [Req -> Nat]
  <1> DEFINE S == {comment[s] : s \in Req}
  <1>1. comment \in Surjection(Req, S)
    BY DEF Surjection
  <1>2. S \in SUBSET Nat /\ S # {} /\ IsFiniteSet(S)
    BY <1>1, ConstantsAssumption, FS_Surjection
  <1>3. (CHOOSE n \in S : \A s \in Req : comment[s] <= n) \in Nat
    BY <1>2, Greatest
  <1>4. QED
    BY <1>3 DEF Number

RestType ==
  /\ draft \subseteq Upload /\ expired \subseteq Upload
  /\ temp \subseteq Upload /\ sent \subseteq Upload
  /\ stored \subseteq Attachment /\ attached \subseteq Attachment /\ linked \subseteq Attachment
  /\ sweep \in [Upload -> {"no", "listed", "removed"}]
  /\ number \in [Req -> Nat] /\ comment \in [Req -> Nat]
  /\ failures \in Nat

LEMMA RestStep == RestType /\ [Next]_vars => RestType'
  <1> SUFFICES ASSUME RestType, [Next]_vars PROVE RestType'
    OBVIOUS
  <1> USE DEF RestType
  <1>1. CASE UNCHANGED vars
    BY <1>1 DEF vars, fileVars, rowVars, reqVars
  <1>2. ASSUME NEW u \in Upload,
               WriteFile(u) \/ InsertRow(u) \/ Expire(u) \/ BeginDelete(u) \/ DeleteRow(u)
                 \/ RemoveFile(u) \/ FailUpload(u)
        PROVE  RestType'
    BY <1>2 DEF WriteFile, InsertRow, Expire, BeginDelete, DeleteRow, RemoveFile, FailUpload,
                fileVars, rowVars, reqVars
  <1>3. ASSUME SweepList \/ FailSweep \/ \E u \in Upload : SweepRemove(u) \/ SweepDelete(u)
        PROVE  RestType'
    BY <1>3 DEF SweepList, FailSweep, SweepRemove, SweepDelete, fileVars, rowVars, reqVars
  <1>4. ASSUME NEW r \in Req, Number(r) PROVE RestType'
    BY <1>4, NumberType DEF Number, fileVars, rowVars
  <1>5. ASSUME NEW r \in Req,
               \/ \E k \in Kind, named \in SUBSET Upload : Find(r, k, named)
               \/ Comment(r) \/ Post(r) \/ Refuse(r) \/ Fail(r)
        PROVE  RestType'
    <2>1. ASSUME NEW k \in Kind, NEW named \in SUBSET Upload, Find(r, k, named)
          PROVE  RestType'
      BY <2>1 DEF Find, fileVars, rowVars
    <2>2. CASE Comment(r)
      BY <2>2 DEF Comment, fileVars
    <2>3. CASE Post(r) \/ Refuse(r) \/ Fail(r)
      BY <2>3 DEF Post, Refuse, Fail, fileVars, rowVars
    <2>4. QED
      BY <1>5, <2>1, <2>2, <2>3
  <1>6. ASSUME NEW r \in Req, NEW u \in Upload,
               Move(r, u) \/ Attach(r, u) \/ Link(r, u) \/ Send(r, u) \/ Consume(r, u)
        PROVE  RestType'
    BY <1>6 DEF Move, Attach, Link, Send, Consume, fileVars, rowVars, Attachment
  <1>7. QED
    BY <1>1, <1>2, <1>3, <1>4, <1>5, <1>6 DEF Next

\* Rows, files and requests have their types, the note numbers included.
THEOREM TypeCorrect == Spec => []TypeOK
  <1>1. Init => ReqInv /\ RestType
    BY DEF Init, ReqInv, RowInv, ReqType, KindInv, Where, RestType
  <1>2. ReqInv /\ RestType => TypeOK
    BY DEF ReqInv, RowInv, ReqType, Where, RestType, TypeOK
  <1>3. QED
    BY <1>1, <1>2, ReqStep, RestStep, PTL DEF Spec

-----------------------------------------------------------------------------
(***************************************************************************)
(* Lost and orphaned files.  Neither set grows except by one element in a  *)
(* step that counts as a failure; KeepInv says why no other step adds to   *)
(* them: what a deletion or a sweep is about to remove nobody needs any    *)
(* more, and a request between rename and INSERT has moved one file.       *)
(***************************************************************************)
Removable(u) ==
  /\ upload[u] = "writing" => u \in temp
  /\ upload[u] = "removing" => row[u] # "live"
  /\ sweep[u] # "no" => u \in expired /\ upload[u] \notin {"none", "writing"}
  /\ sweep[u] = "removed" => u \notin temp
  /\ row[u] = "consumed" => u \in sent \/ \E r \in Req : <<r, u>> \in attached

Unmoved(r, us) == \A u \in us : <<r, u>> \notin stored

MovesOne(r) ==
  /\ todo[r] \subseteq found[r]
  /\ pc[r] \in {"idle", "number"} => Unmoved(r, Upload)
  /\ pc[r] = "move" => Unmoved(r, todo[r])
  /\ pc[r] = "attach" => \E u \in todo[r] : <<r, u>> \in stored /\ Unmoved(r, todo[r] \ {u})

KeepInv ==
  /\ FileInv /\ ReqInv /\ RestType
  /\ \A u \in Upload : Removable(u)
  /\ \A r \in Req : MovesOne(r)

\* What a request still has to handle it has found, so that it has a row.
LEMMA TodoFacts ==
  ASSUME KeepInv, NEW r \in Req, NEW u \in todo[r]
  PROVE  u \in Upload /\ u \in found[r] /\ Progress(r, u) /\ upload[u] \notin {"none", "writing"}
  <1>1. u \in found[r] /\ u \in Upload
    BY DEF KeepInv, MovesOne, ReqInv, ReqType
  <1>2. QED
    BY <1>1 DEF KeepInv, ReqInv, RowInv, Progress

LEMMA RemovableStep ==
  ASSUME KeepInv, [Next]_vars, NEW u \in Upload
  PROVE  Removable(u)'
  <1>1. /\ Removable(u)
        /\ row \in [Upload -> {"none", "live", "consumed", "gone"}]
        /\ upload \in [Upload -> {"none", "writing", "idle", "deleting", "removing", "lost"}]
        /\ sweep \in [Upload -> {"no", "listed", "removed"}]
        /\ row[u] # "none" => upload[u] \notin {"none", "writing"}
    BY DEF KeepInv, ReqInv, RowInv, RestType
  <1>2. CASE UNCHANGED vars
    BY <1>1, <1>2 DEF Removable, vars, fileVars, rowVars
  <1>3. ASSUME NEW v \in Upload,
               WriteFile(v) \/ InsertRow(v) \/ Expire(v) \/ BeginDelete(v) \/ RemoveFile(v)
                 \/ FailUpload(v)
        PROVE  Removable(u)'
    BY <1>1, <1>3 DEF Removable, WriteFile, InsertRow, Expire, BeginDelete, RemoveFile,
                      FailUpload, fileVars, rowVars
  <1>4. ASSUME NEW v \in Upload, DeleteRow(v) \/ SweepDelete(v) PROVE Removable(u)'
    BY <1>1, <1>4 DEF Removable, DeleteRow, SweepDelete, Delete, fileVars
  <1>5. ASSUME NEW v \in Upload, SweepRemove(v) PROVE Removable(u)'
    BY <1>1, <1>5 DEF Removable, SweepRemove, rowVars
  <1>6. CASE SweepList \/ FailSweep
    BY <1>1, <1>6 DEF Removable, SweepList, FailSweep, Expirable, fileVars, rowVars
  <1>7. ASSUME NEW r \in Req,
               \/ \E k \in Kind, named \in SUBSET Upload : Find(r, k, named)
               \/ Number(r) \/ Comment(r) \/ Post(r) \/ Refuse(r) \/ Fail(r)
               \/ \E v \in Upload : Link(r, v)
        PROVE  Removable(u)'
    BY <1>1, <1>7 DEF Removable, Find, Number, Comment, Post, Refuse, Fail, Link, fileVars, rowVars
  <1>8. ASSUME NEW r \in Req, NEW v \in Upload, Move(r, v) PROVE Removable(u)'
    <2>1. upload[v] # "writing"
      BY <1>8, TodoFacts DEF Move
    <2>2. QED
      BY <1>1, <1>8, <2>1 DEF Removable, Move, rowVars
  <1>9. ASSUME NEW r \in Req, NEW v \in Upload, Attach(r, v) \/ Send(r, v) PROVE Removable(u)'
    BY <1>1, <1>9 DEF Removable, Attach, Send, fileVars, rowVars
  <1>10. ASSUME NEW r \in Req, NEW v \in Upload, Consume(r, v) PROVE Removable(u)'
    <2>1. Placed(r, v)
      BY <1>10, TodoFacts DEF Consume, Progress
    <2>2. v \in sent \/ <<r, v>> \in attached
      BY <2>1 DEF Placed
    <2>3. QED
      BY <1>1, <1>10, <2>2 DEF Removable, Consume, fileVars
  <1>11. QED
    BY <1>2, <1>3, <1>4, <1>5, <1>6, <1>7, <1>8, <1>9, <1>10 DEF Next

\* A request that does nothing, while no other stores a file for it.
LEMMA StillMovesOne ==
  ASSUME NEW r \in Req, MovesOne(r), Still(r),
         \A u \in Upload : <<r, u>> \in stored' <=> <<r, u>> \in stored,
         todo[r] \subseteq Upload
  PROVE  MovesOne(r)'
  BY DEF MovesOne, Unmoved, Still

LEMMA MovesOneStep ==
  ASSUME KeepInv, [Next]_vars, NEW r \in Req
  PROVE  MovesOne(r)'
  <1>1. /\ MovesOne(r) /\ todo[r] \subseteq Upload /\ ReqType
        /\ todo[r] \in SUBSET Upload /\ found[r] \in SUBSET Upload
    BY DEF KeepInv, ReqInv, ReqType
  <1>2. CASE \/ UNCHANGED vars \/ SweepList \/ FailSweep
             \/ \E u \in Upload :
                  \/ WriteFile(u) \/ InsertRow(u) \/ Expire(u)
                  \/ BeginDelete(u) \/ DeleteRow(u) \/ RemoveFile(u) \/ FailUpload(u)
                  \/ SweepRemove(u) \/ SweepDelete(u)
    <2>1. UNCHANGED <<reqVars, stored>>
      BY <1>2 DEF WriteFile, InsertRow, Expire, BeginDelete, DeleteRow, RemoveFile, FailUpload,
                  SweepRemove, SweepDelete, SweepList, FailSweep, vars, fileVars
    <2>2. QED
      BY <1>1, <2>1, StillMovesOne DEF Still, reqVars
  <1>3. ASSUME NEW s \in Req, s # r,
               \/ \E k \in Kind, named \in SUBSET Upload : Find(s, k, named)
               \/ Number(s) \/ Comment(s) \/ Post(s) \/ Refuse(s) \/ Fail(s)
               \/ \E u \in Upload :
                    Move(s, u) \/ Attach(s, u) \/ Link(s, u) \/ Send(s, u) \/ Consume(s, u)
        PROVE  MovesOne(r)'
    <2>1. Still(r)
      BY <1>1, <1>3 DEF Still, ReqType, Find, Number, Comment, Post, Refuse, Fail, Move, Attach,
                        Link, Send, Consume, Handled, Goto
    <2>2. stored' = stored \/ \E u \in Upload : stored' = stored \cup {<<s, u>>}
      BY <1>3 DEF Find, Number, Comment, Post, Refuse, Fail, Move, Attach, Link, Send, Consume,
                  fileVars
    <2>3. QED
      BY <1>1, <1>3, <2>1, <2>2, StillMovesOne
  <1>4. ASSUME NEW k \in Kind, NEW named \in SUBSET Upload, Find(r, k, named)
        PROVE  MovesOne(r)'
    <2>1. /\ todo'[r] = found'[r] /\ found'[r] \subseteq Upload /\ stored' = stored
          /\ pc[r] = "idle" /\ pc'[r] \in {"number", "move", "send"}
      BY <1>1, <1>4 DEF Find, ReqType, Goto, fileVars
    <2>2. QED
      BY <1>1, <2>1 DEF MovesOne, Unmoved
  <1>5. CASE Number(r)
    BY <1>1, <1>5 DEF MovesOne, Unmoved, ReqType, Number, Goto, fileVars
  <1>6. CASE Comment(r) \/ Post(r) \/ Refuse(r) \/ Fail(r)
    <2>1. /\ pc'[r] \in {"link", "consume", "failed"} /\ UNCHANGED <<todo, found>>
      BY <1>1, <1>6 DEF ReqType, Comment, Post, Refuse, Fail, Goto
    <2>2. QED
      BY <1>1, <2>1 DEF MovesOne
  <1>7. ASSUME NEW u \in Upload, Move(r, u) PROVE MovesOne(r)'
    <2>1. /\ pc[r] = "move" /\ pc'[r] = "attach" /\ UNCHANGED <<todo, found>>
          /\ u \in todo[r] /\ stored' = stored \cup {<<r, u>>}
      BY <1>1, <1>7 DEF Move, ReqType, Goto
    <2>2. QED
      BY <1>1, <2>1 DEF MovesOne, Unmoved
  <1>8. ASSUME NEW u \in Upload, Attach(r, u) PROVE MovesOne(r)'
    <2>1. PICK next \in {"comment", "consume"} : Handled(r, u, "move", next, found[r])
      BY <1>8 DEF Attach
    <2>2. /\ pc[r] = "attach" /\ u \in todo[r] /\ <<r, u>> \in stored
          /\ UNCHANGED <<stored, found>>
      BY <1>8 DEF Attach, fileVars
    <2>3. \/ pc'[r] = next /\ todo'[r] = found[r]
          \/ pc'[r] = "move" /\ todo'[r] = todo[r] \ {u}
      BY <1>1, <2>1 DEF Handled, Goto, ReqType
    <2>4. Unmoved(r, todo[r] \ {u})
      BY <1>1, <2>2 DEF MovesOne, Unmoved
    <2>5. QED
      BY <1>1, <2>2, <2>3, <2>4 DEF MovesOne, Unmoved
  <1>9. ASSUME NEW u \in Upload, Link(r, u) \/ Send(r, u) \/ Consume(r, u) PROVE MovesOne(r)'
    <2>1. PICK loop \in {"link", "send", "consume"}, next \in {"consume", "post", "done"},
               last \in {{}, found[r]} : Handled(r, u, loop, next, last)
      BY <1>9 DEF Link, Send, Consume
    <2>2. /\ found' = found /\ pc'[r] \in {"link", "send", "consume", "post", "done"}
          /\ todo'[r] \in {{}, found[r], todo[r] \ {u}}
      BY <1>1, <1>9, <2>1 DEF Handled, Goto, ReqType, Link, Send, Consume
    <2>3. QED
      BY <1>1, <2>2 DEF MovesOne
  <1>10. QED
    BY <1>2, <1>3, <1>4, <1>5, <1>6, <1>7, <1>8, <1>9 DEF Next

LEMMA KeepStep == KeepInv /\ [Next]_vars => KeepInv'
  <1> SUFFICES ASSUME KeepInv, [Next]_vars PROVE KeepInv'
    OBVIOUS
  <1>1. FileInv' /\ ReqInv' /\ RestType'
    BY FileStep, ReqStep, RestStep DEF KeepInv
  <1>2. QED
    BY <1>1, RemovableStep, MovesOneStep DEF KeepInv

LEMMA KeepInit == Init => KeepInv
  BY DEF Init, KeepInv, FileInv, ReqInv, RowInv, ReqType, KindInv, Where, RestType, Removable,
         MovesOne, Unmoved

LEMMA OneMore ==
  ASSUME NEW S, NEW T, NEW x, IsFiniteSet(S), T \subseteq S \cup {x}
  PROVE  IsFiniteSet(T) /\ Cardinality(T) <= Cardinality(S) + 1
  <1>1. /\ IsFiniteSet(S \cup {x}) /\ Cardinality(S) \in Nat
        /\ Cardinality(S \cup {x}) \in {Cardinality(S), Cardinality(S) + 1}
    BY FS_AddElement, FS_CardinalityType
  <1>2. /\ IsFiniteSet(T) /\ Cardinality(T) \in Nat
        /\ Cardinality(T) <= Cardinality(S \cup {x})
    BY <1>1, FS_Subset, FS_CardinalityType
  <1>3. QED
    BY <1>1, <1>2

\* Only a failure between rename and INSERT loses a file, and only one.
LEMMA LostStep ==
  ASSUME KeepInv, [Next]_vars, NEW u \in Upload, Lost(u)', ~Lost(u)
  PROVE  \E r \in Req : Fail(r) /\ Moving(r, u)
  <1>1. /\ Removable(u)
        /\ row \in [Upload -> {"none", "live", "consumed", "gone"}]
        /\ upload \in [Upload -> {"none", "writing", "idle", "deleting", "removing", "lost"}]
        /\ sweep \in [Upload -> {"no", "listed", "removed"}]
        /\ ReqType
    BY DEF KeepInv, ReqInv, RowInv, RestType
  <1>2. ASSUME expired \subseteq expired', sent \subseteq sent', attached \subseteq attached',
               row'[u] \in {"live", "consumed"} => row[u] \in {"live", "consumed"},
               u \in temp => u \in temp',
               \A r \in Req : Moving(r, u) => Moving(r, u)' \/ <<r, u>> \in attached'
        PROVE  FALSE
    BY <1>2 DEF Lost
  <1>3. CASE UNCHANGED vars
    BY <1>2, <1>3 DEF vars, fileVars, rowVars, reqVars, Moving
  <1>4. ASSUME NEW v \in Upload, WriteFile(v) \/ Expire(v) \/ BeginDelete(v) \/ FailUpload(v)
        PROVE  FALSE
    BY <1>2, <1>4 DEF WriteFile, Expire, BeginDelete, FailUpload, fileVars, rowVars, reqVars,
                      Moving
  <1>5. ASSUME NEW v \in Upload, InsertRow(v) PROVE FALSE
    <2>1. CASE v = u
      BY <1>1, <1>5, <2>1 DEF InsertRow, Removable, Lost, fileVars
    <2>2. CASE v # u
      BY <1>1, <1>2, <1>5, <2>2 DEF InsertRow, fileVars, reqVars, Moving
    <2>3. QED
      BY <2>1, <2>2
  <1>6. ASSUME NEW v \in Upload, DeleteRow(v) \/ SweepDelete(v) PROVE FALSE
    BY <1>1, <1>2, <1>6 DEF DeleteRow, SweepDelete, Delete, fileVars, reqVars, Moving
  <1>7. ASSUME NEW v \in Upload, RemoveFile(v) PROVE FALSE
    <2>1. CASE v = u
      BY <1>1, <1>7, <2>1 DEF RemoveFile, Removable, Lost, rowVars
    <2>2. CASE v # u
      BY <1>2, <1>7, <2>2 DEF RemoveFile, rowVars, reqVars, Moving
    <2>3. QED
      BY <2>1, <2>2
  <1>8. ASSUME NEW v \in Upload, SweepRemove(v) PROVE FALSE
    <2>1. CASE v = u
      BY <1>1, <1>8, <2>1 DEF SweepRemove, Removable, Lost
    <2>2. CASE v # u
      BY <1>2, <1>8, <2>2 DEF SweepRemove, rowVars, reqVars, Moving
    <2>3. QED
      BY <2>1, <2>2
  <1>9. CASE SweepList \/ FailSweep
    BY <1>2, <1>9 DEF SweepList, FailSweep, fileVars, rowVars, reqVars, Moving
  <1>10. ASSUME NEW r \in Req, ~Moving(r, u),
                \/ \E k \in Kind, named \in SUBSET Upload : Find(r, k, named)
                \/ Number(r) \/ Comment(r) \/ Post(r) \/ Refuse(r) \/ Fail(r)
         PROVE  FALSE
    <2>1. /\ UNCHANGED <<row, temp, stored, sent, attached, expired>>
          /\ \A s \in Req \ {r} : pc'[s] = pc[s] /\ todo'[s] = todo[s]
      <3>1. ASSUME NEW k \in Kind, NEW named \in SUBSET Upload, Find(r, k, named)
            PROVE  /\ UNCHANGED <<row, temp, stored, sent, attached, expired>>
                   /\ \A s \in Req \ {r} : pc'[s] = pc[s] /\ todo'[s] = todo[s]
        BY <1>1, <3>1 DEF Find, Goto, ReqType, fileVars, rowVars
      <3>2. CASE Number(r) \/ Comment(r)
        BY <1>1, <3>2 DEF Number, Comment, Goto, ReqType, fileVars, rowVars
      <3>3. CASE Post(r) \/ Refuse(r) \/ Fail(r)
        BY <1>1, <3>3 DEF Post, Refuse, Fail, Goto, ReqType, fileVars, rowVars
      <3>4. QED
        BY <1>10, <3>1, <3>2, <3>3
    <2>2. QED
      BY <1>2, <1>10, <2>1 DEF Moving
  <1>11. ASSUME NEW r \in Req,
                \/ \E k \in Kind, named \in SUBSET Upload : Find(r, k, named)
                \/ Number(r) \/ Comment(r) \/ Post(r) \/ Refuse(r)
         PROVE  FALSE
    <2>1. pc[r] # "attach"
      BY <1>11 DEF Find, Number, Comment, Post, Refuse
    <2>2. QED
      BY <1>10, <1>11, <2>1 DEF Moving
  <1>12. ASSUME NEW r \in Req, NEW v \in Upload, Move(r, v) PROVE FALSE
    <2>1. /\ pc[r] = "move" /\ v \in todo[r] /\ temp' = temp \ {v}
          /\ stored' = stored \cup {<<r, v>>} /\ pc'[r] = "attach" /\ todo' = todo
          /\ \A s \in Req \ {r} : pc'[s] = pc[s]
          /\ UNCHANGED <<row, attached, sent, expired>>
      BY <1>1, <1>12 DEF Move, Goto, ReqType, rowVars
    <2>2. CASE v = u
      BY <2>1, <2>2 DEF Lost, Moving
    <2>3. CASE v # u
      BY <1>2, <2>1, <2>3 DEF Moving
    <2>4. QED
      BY <2>2, <2>3
  <1>13. ASSUME NEW r \in Req, NEW v \in Upload, Attach(r, v) PROVE FALSE
    <2>1. /\ pc[r] = "attach" /\ v \in todo[r] /\ <<r, v>> \in stored
          /\ attached' = attached \cup {<<r, v>>}
          /\ \A s \in Req \ {r} : pc'[s] = pc[s] /\ todo'[s] = todo[s]
          /\ UNCHANGED <<row, temp, stored, sent, expired>>
      BY <1>1, <1>13 DEF Attach, Handled, Goto, ReqType, fileVars
    <2>2. Moving(r, u) => u = v
      BY <2>1 DEF KeepInv, MovesOne, Unmoved, Moving
    <2>3. QED
      BY <1>2, <2>1, <2>2 DEF Moving
  <1>14. ASSUME NEW r \in Req, NEW v \in Upload, Link(r, v) \/ Send(r, v) \/ Consume(r, v)
         PROVE  FALSE
    <2>1. /\ pc[r] # "attach" /\ sent \subseteq sent'
          /\ \A s \in Req \ {r} : pc'[s] = pc[s] /\ todo'[s] = todo[s]
          /\ row'[u] \in {"live", "consumed"} => row[u] \in {"live", "consumed"}
          /\ UNCHANGED <<temp, stored, attached, expired>>
      BY <1>1, <1>14 DEF Link, Send, Consume, Handled, Goto, ReqType, fileVars, rowVars
    <2>2. QED
      BY <1>2, <2>1 DEF Moving
  <1>15. QED
    BY <1>3, <1>4, <1>5, <1>6, <1>7, <1>8, <1>9, <1>10, <1>11, <1>12, <1>13, <1>14 DEF Next

\* The steps that count as failures.
LEMMA FailuresCount ==
  ASSUME [Next]_vars
  PROVE  failures' \in {failures, failures + 1}
  <1>1. CASE \/ UNCHANGED vars \/ SweepList \/ FailSweep
             \/ \E u \in Upload :
                  \/ WriteFile(u) \/ InsertRow(u) \/ Expire(u)
                  \/ BeginDelete(u) \/ DeleteRow(u) \/ RemoveFile(u) \/ FailUpload(u)
                  \/ SweepRemove(u) \/ SweepDelete(u)
    BY <1>1 DEF WriteFile, InsertRow, Expire, BeginDelete, DeleteRow, RemoveFile, FailUpload,
                SweepRemove, SweepDelete, SweepList, FailSweep, vars
  <1>2. ASSUME NEW r \in Req, NEW k \in Kind, NEW named \in SUBSET Upload, Find(r, k, named)
        PROVE  failures' = failures
    BY <1>2 DEF Find
  <1>3. ASSUME NEW r \in Req,
               \/ Number(r) \/ Comment(r) \/ Post(r) \/ Refuse(r) \/ Fail(r)
               \/ \E u \in Upload :
                    Move(r, u) \/ Attach(r, u) \/ Link(r, u) \/ Send(r, u) \/ Consume(r, u)
        PROVE  failures' \in {failures, failures + 1}
    BY <1>3 DEF Number, Comment, Post, Refuse, Fail, Move, Attach, Link, Send, Consume
  <1>4. QED
    BY <1>1, <1>2, <1>3 DEF Next

\* Whoever uploaded a file that is lost can blame a failure of its own, for any
\* number of uploads and requests.
THEOREM BytesKept == Spec => []BytesAreKept
  <1> DEFINE losses == {u \in Upload : Lost(u)}
             IInv == KeepInv /\ BytesAreKept
  <1>1. Init => IInv
    <2> SUFFICES ASSUME Init PROVE BytesAreKept
      BY KeepInit
    <2>1. losses = {}
      BY DEF Init, Lost
    <2>2. QED
      BY <2>1, FS_EmptySet DEF Init, BytesAreKept
  <1>2. IInv /\ [Next]_vars => IInv'
    <2> SUFFICES ASSUME KeepInv, BytesAreKept, [Next]_vars PROVE BytesAreKept'
      BY KeepStep
    <2>1. IsFiniteSet(losses) /\ Cardinality(losses) \in Nat /\ failures \in Nat
      BY FS_Subset, FS_CardinalityType, ConstantsAssumption DEF KeepInv, RestType
    <2>2. CASE \E r \in Req, u \in Upload : Fail(r) /\ Moving(r, u)
      <3>1. PICK r \in Req, u \in Upload : Fail(r) /\ Moving(r, u)
        BY <2>2
      <3>2. failures' = failures + 1
        BY <3>1 DEF Fail
      <3>3. ASSUME NEW v \in losses' PROVE v \in losses \cup {u}
        <4>1. ASSUME ~Lost(v) PROVE v = u
          <5>1. PICK s \in Req : Fail(s) /\ Moving(s, v)
            BY <4>1, <3>3, LostStep
          <5>2. s = r
            BY <3>1, <5>1 DEF Fail, Goto, KeepInv, ReqInv, ReqType
          <5>3. QED
            BY <3>1, <5>1, <5>2 DEF KeepInv, MovesOne, Unmoved, Moving
        <4>2. QED
          BY <4>1, <3>3
      <3>4. Cardinality(losses') <= Cardinality(losses) + 1
        BY <2>1, <3>3, OneMore
      <3>5. Cardinality(losses') \in Nat
        BY <2>1, <3>3, OneMore, FS_CardinalityType
      <3>6. QED
        BY <2>1, <3>2, <3>4, <3>5 DEF BytesAreKept
    <2>3. CASE ~ \E r \in Req, u \in Upload : Fail(r) /\ Moving(r, u)
      <3>1. losses' \in SUBSET losses
        BY <2>3, LostStep
      <3>2. Cardinality(losses') <= Cardinality(losses) /\ Cardinality(losses') \in Nat
        BY <2>1, <3>1, FS_Subset, FS_CardinalityType
      <3>3. failures' >= failures
        BY <2>1, FailuresCount
      <3>4. failures' \in Nat
        BY <2>1, FailuresCount
      <3>5. QED
        BY <2>1, <3>2, <3>3, <3>4 DEF BytesAreKept
    <2>4. QED
      BY <2>2, <2>3
  <1>3. QED
    BY <1>1, <1>2, PTL DEF Spec

\* An upload, or an attachment, whose file nobody leads to.
OrphanUpload(u) == u \in temp /\ row[u] \in {"none", "gone"} /\ upload[u] \notin {"writing", "removing"}
OrphanStored(r, u) == <<r, u>> \in stored /\ <<r, u>> \notin attached /\ ~Moving(r, u)

LEMMA OrphanUploadStep ==
  ASSUME KeepInv, [Next]_vars, NEW u \in Upload, OrphanUpload(u)', ~OrphanUpload(u)
  PROVE  FailUpload(u) /\ UNCHANGED <<pc, todo, stored, attached>>
  <1>1. /\ Removable(u)
        /\ row \in [Upload -> {"none", "live", "consumed", "gone"}]
        /\ upload \in [Upload -> {"none", "writing", "idle", "deleting", "removing", "lost"}]
        /\ sweep \in [Upload -> {"no", "listed", "removed"}]
    BY DEF KeepInv, ReqInv, RowInv, RestType
  <1>2. ASSUME temp' \subseteq temp, UNCHANGED upload,
               row'[u] \in {"none", "gone"} => row[u] \in {"none", "gone"}
        PROVE  FALSE
    BY <1>2 DEF OrphanUpload
  <1>3. CASE UNCHANGED vars \/ SweepList \/ FailSweep \/ \E v \in Upload : Expire(v) \/ SweepRemove(v)
    BY <1>2, <1>3 DEF vars, SweepList, FailSweep, Expire, SweepRemove, fileVars, rowVars
  <1>4. ASSUME NEW v \in Upload,
               WriteFile(v) \/ InsertRow(v) \/ BeginDelete(v) \/ DeleteRow(v) \/ RemoveFile(v)
        PROVE  FALSE
    BY <1>1, <1>4 DEF OrphanUpload, WriteFile, InsertRow, BeginDelete, DeleteRow, RemoveFile,
                      Delete, fileVars, rowVars
  <1>5. ASSUME NEW v \in Upload, FailUpload(v)
        PROVE  v = u /\ UNCHANGED <<pc, todo, stored, attached>>
    BY <1>1, <1>5 DEF OrphanUpload, FailUpload, fileVars, rowVars, reqVars
  <1>6. ASSUME NEW v \in Upload, SweepDelete(v) PROVE FALSE
    <2>1. v = u => u \notin temp
      BY <1>1, <1>6 DEF SweepDelete, Removable
    <2>2. v # u => row'[u] = row[u]
      BY <1>1, <1>6 DEF SweepDelete, Delete
    <2>3. UNCHANGED <<temp, upload>>
      BY <1>6 DEF SweepDelete, fileVars
    <2>4. QED
      BY <1>2, <2>1, <2>2, <2>3 DEF OrphanUpload
  <1>7. ASSUME NEW r \in Req, NEW k \in Kind, NEW named \in SUBSET Upload, Find(r, k, named)
        PROVE  FALSE
    BY <1>2, <1>7 DEF Find, fileVars, rowVars
  <1>8. ASSUME NEW r \in Req, Number(r) \/ Comment(r) \/ Post(r) \/ Refuse(r) \/ Fail(r)
        PROVE  FALSE
    BY <1>2, <1>8 DEF Number, Comment, Post, Refuse, Fail, fileVars, rowVars
  <1>9. ASSUME NEW r \in Req, NEW v \in Upload,
               Move(r, v) \/ Attach(r, v) \/ Link(r, v) \/ Send(r, v) \/ Consume(r, v)
        PROVE  FALSE
    BY <1>1, <1>2, <1>9 DEF Move, Attach, Link, Send, Consume, fileVars, rowVars
  <1>10. QED
    BY <1>3, <1>4, <1>5, <1>6, <1>7, <1>8, <1>9 DEF Next

LEMMA OrphanStoredStep ==
  ASSUME KeepInv, [Next]_vars, NEW r \in Req, NEW u \in Upload,
         OrphanStored(r, u)', ~OrphanStored(r, u)
  PROVE  Fail(r) /\ Moving(r, u) /\ UNCHANGED <<temp, row, upload>>
  <1>1. ReqType
    BY DEF KeepInv, ReqInv
  <1>2. ASSUME <<r, u>> \in stored' => <<r, u>> \in stored, attached \subseteq attached',
               Moving(r, u) => Moving(r, u)' \/ <<r, u>> \in attached'
        PROVE  FALSE
    BY <1>2 DEF OrphanStored
  <1>3. CASE \/ UNCHANGED vars \/ SweepList \/ FailSweep
             \/ \E v \in Upload :
                  \/ WriteFile(v) \/ InsertRow(v) \/ Expire(v)
                  \/ BeginDelete(v) \/ DeleteRow(v) \/ RemoveFile(v) \/ FailUpload(v)
                  \/ SweepRemove(v) \/ SweepDelete(v)
    <2>1. UNCHANGED <<reqVars, stored, attached>>
      BY <1>3 DEF WriteFile, InsertRow, Expire, BeginDelete, DeleteRow, RemoveFile, FailUpload,
                  SweepRemove, SweepDelete, SweepList, FailSweep, vars, fileVars, rowVars
    <2>2. QED
      BY <1>2, <2>1 DEF Moving, reqVars
  <1>4. ASSUME NEW s \in Req, NEW k \in Kind, NEW named \in SUBSET Upload, Find(s, k, named)
        PROVE  FALSE
    <2>1. /\ UNCHANGED <<stored, attached>> /\ pc[s] # "attach"
          /\ r # s => pc'[r] = pc[r] /\ todo'[r] = todo[r]
      BY <1>1, <1>4 DEF Find, ReqType, Goto, fileVars, rowVars
    <2>2. QED
      BY <1>2, <2>1 DEF Moving
  <1>5. ASSUME NEW s \in Req, Number(s) \/ Comment(s) \/ Post(s) \/ Refuse(s)
        PROVE  FALSE
    <2>1. /\ UNCHANGED <<stored, attached>> /\ pc[s] # "attach"
          /\ r # s => pc'[r] = pc[r] /\ todo'[r] = todo[r]
      BY <1>1, <1>5 DEF Number, Comment, Post, Refuse, ReqType, Goto, fileVars, rowVars
    <2>2. QED
      BY <1>2, <2>1 DEF Moving
  <1>6. ASSUME NEW s \in Req, Fail(s)
        PROVE  s = r /\ Moving(r, u) /\ UNCHANGED <<temp, row, upload>>
    <2>1. /\ UNCHANGED <<stored, attached, todo, temp, row, upload>>
          /\ r # s => pc'[r] = pc[r]
      BY <1>1, <1>6 DEF Fail, ReqType, Goto, fileVars, rowVars
    <2>2. QED
      BY <1>2, <2>1 DEF Moving
  <1>7. ASSUME NEW s \in Req, NEW v \in Upload, Move(s, v) PROVE FALSE
    <2>1. /\ stored' = stored \cup {<<s, v>>} /\ v \in todo[s] /\ todo' = todo
          /\ attached' = attached /\ pc[s] = "move" /\ pc'[s] = "attach"
          /\ r # s => pc'[r] = pc[r]
      BY <1>1, <1>7 DEF Move, ReqType, Goto, rowVars
    <2>2. CASE s = r /\ v = u
      BY <2>1, <2>2 DEF OrphanStored, Moving
    <2>3. CASE s # r \/ v # u
      BY <1>2, <2>1, <2>3 DEF Moving
    <2>4. QED
      BY <2>2, <2>3
  <1>8. ASSUME NEW s \in Req, NEW v \in Upload, Attach(s, v) PROVE FALSE
    <2>1. /\ pc[s] = "attach" /\ v \in todo[s] /\ <<s, v>> \in stored
          /\ attached' = attached \cup {<<s, v>>} /\ stored' = stored
          /\ r # s => pc'[r] = pc[r] /\ todo'[r] = todo[r]
      BY <1>1, <1>8 DEF Attach, Handled, Goto, ReqType, fileVars
    <2>2. Moving(s, u) => u = v
      BY <2>1 DEF KeepInv, MovesOne, Unmoved, Moving
    <2>3. QED
      BY <1>2, <2>1, <2>2 DEF Moving
  <1>9. ASSUME NEW s \in Req, NEW v \in Upload, Link(s, v) \/ Send(s, v) \/ Consume(s, v)
        PROVE  FALSE
    <2>1. /\ pc[s] # "attach" /\ UNCHANGED <<stored, attached>>
          /\ r # s => pc'[r] = pc[r] /\ todo'[r] = todo[r]
      BY <1>1, <1>9 DEF Link, Send, Consume, Handled, Goto, ReqType, fileVars, rowVars
    <2>2. QED
      BY <1>2, <2>1 DEF Moving
  <1>10. QED
    BY <1>3, <1>4, <1>5, <1>6, <1>7, <1>8, <1>9 DEF Next

\* The files that a step leaves without a row or a request to lead to them.
LEMMA OrphanStep ==
  ASSUME KeepInv, [Next]_vars
  PROVE  \/ Orphans' \subseteq Orphans
         \/ failures' = failures + 1 /\ \E x : Orphans' \subseteq Orphans \cup {x}
  <1>1. \A a \in Orphans' :
          \/ a \in Upload /\ OrphanUpload(a)'
          \/ \E r \in Req, u \in Upload : a = <<r, u>> /\ OrphanStored(r, u)'
    <2>1. temp' \subseteq Upload /\ stored' \subseteq Attachment
      BY KeepStep DEF KeepInv, RestType
    <2>2. QED
      BY <2>1 DEF Orphans, OrphanUpload, OrphanStored, Attachment
  <1>2. /\ \A u \in Upload : OrphanUpload(u) => u \in Orphans
        /\ \A r \in Req, u \in Upload : OrphanStored(r, u) => <<r, u>> \in Orphans
    BY DEF Orphans, OrphanUpload, OrphanStored
  <1>3. CASE \E u \in Upload : OrphanUpload(u)' /\ ~OrphanUpload(u)
    <2>1. PICK u \in Upload : OrphanUpload(u)' /\ ~OrphanUpload(u)
      BY <1>3
    <2>2. FailUpload(u) /\ UNCHANGED <<pc, todo, stored, attached>>
      BY <2>1, OrphanUploadStep
    <2>3. ASSUME NEW v \in Upload, OrphanUpload(v)', ~OrphanUpload(v) PROVE v = u
      <3>1. FailUpload(v)
        BY <2>3, OrphanUploadStep
      <3>2. QED
        BY <2>2, <3>1 DEF FailUpload, KeepInv, ReqInv, RowInv
    <2>4. \A r \in Req, v \in Upload : OrphanStored(r, v)' => OrphanStored(r, v)
      BY <2>2 DEF OrphanStored, Moving
    <2>5. Orphans' \subseteq Orphans \cup {u}
      BY <1>1, <1>2, <2>3, <2>4
    <2>6. QED
      BY <2>2, <2>5 DEF FailUpload
  <1>4. CASE \E r \in Req, u \in Upload : OrphanStored(r, u)' /\ ~OrphanStored(r, u)
    <2>1. PICK r \in Req, u \in Upload : OrphanStored(r, u)' /\ ~OrphanStored(r, u)
      BY <1>4
    <2>2. Fail(r) /\ Moving(r, u) /\ UNCHANGED <<temp, row, upload>>
      BY <2>1, OrphanStoredStep
    <2>3. ASSUME NEW s \in Req, NEW v \in Upload, OrphanStored(s, v)', ~OrphanStored(s, v)
          PROVE  s = r /\ v = u
      <3>1. Fail(s) /\ Moving(s, v)
        BY <2>3, OrphanStoredStep
      <3>2. s = r
        BY <2>2, <3>1 DEF Fail, Goto, KeepInv, ReqInv, ReqType
      <3>3. QED
        BY <2>2, <3>1, <3>2 DEF KeepInv, MovesOne, Unmoved, Moving
    <2>4. \A v \in Upload : OrphanUpload(v)' => OrphanUpload(v)
      BY <2>2 DEF OrphanUpload
    <2>5. Orphans' \subseteq Orphans \cup {<<r, u>>}
      BY <1>1, <1>2, <2>3, <2>4
    <2>6. QED
      BY <2>2, <2>5 DEF Fail
  <1>5. CASE /\ ~ \E u \in Upload : OrphanUpload(u)' /\ ~OrphanUpload(u)
             /\ ~ \E r \in Req, u \in Upload : OrphanStored(r, u)' /\ ~OrphanStored(r, u)
    BY <1>1, <1>2, <1>5
  <1>6. QED
    BY <1>3, <1>4, <1>5

\* No file is left behind for ever without a failure of its own, for any number
\* of uploads and requests.
THEOREM OrphansAreCounted == Spec => []OrphansNeedFailures
  <1> DEFINE IInv == KeepInv /\ OrphansNeedFailures
  <1>1. Init => IInv
    <2> SUFFICES ASSUME Init PROVE OrphansNeedFailures
      BY KeepInit
    <2>1. Orphans = {}
      BY DEF Init, Orphans
    <2>2. QED
      BY <2>1, FS_EmptySet DEF Init, OrphansNeedFailures
  <1>2. IInv /\ [Next]_vars => IInv'
    <2> SUFFICES ASSUME KeepInv, OrphansNeedFailures, [Next]_vars PROVE OrphansNeedFailures'
      BY KeepStep
    <2>1. IsFiniteSet(Orphans) /\ Cardinality(Orphans) \in Nat /\ failures \in Nat
      <3>1. IsFiniteSet(Attachment) /\ IsFiniteSet(Upload)
        BY FS_Product, ConstantsAssumption DEF Attachment
      <3>2. IsFiniteSet(Upload \cup Attachment)
        BY <3>1, FS_Union
      <3>3. Orphans \in SUBSET (Upload \cup Attachment)
        BY DEF Orphans, KeepInv, RestType
      <3>4. QED
        BY <3>2, <3>3, FS_Subset, FS_CardinalityType DEF KeepInv, RestType
    <2>2. CASE Orphans' \subseteq Orphans
      <3>1. Cardinality(Orphans') <= Cardinality(Orphans) /\ Cardinality(Orphans') \in Nat
        BY <2>1, <2>2, FS_Subset, FS_CardinalityType
      <3>2. failures' \in Nat /\ failures' >= failures
        BY <2>1, FailuresCount
      <3>3. QED
        BY <2>1, <3>1, <3>2 DEF OrphansNeedFailures
    <2>3. CASE failures' = failures + 1 /\ \E x : Orphans' \subseteq Orphans \cup {x}
      <3>1. PICK x : Orphans' \subseteq Orphans \cup {x}
        BY <2>3
      <3>2. Cardinality(Orphans') <= Cardinality(Orphans) + 1 /\ Cardinality(Orphans') \in Nat
        BY <2>1, <3>1, OneMore, FS_CardinalityType
      <3>3. QED
        BY <2>1, <2>3, <3>2 DEF OrphansNeedFailures
    <2>4. QED
      BY <2>2, <2>3, OrphanStep
  <1>3. QED
    BY <1>1, <1>2, PTL DEF Spec
=============================================================================
