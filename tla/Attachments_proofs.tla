-------------------------- MODULE Attachments_proofs --------------------------
(***************************************************************************)
(* Theorems about Attachments for all owners, links, runs and downloads.   *)
(*                                                                         *)
(* An id is bound to one link for ever: a run takes an id back only for    *)
(* the link it found it with, and otherwise makes one that no row has had. *)
(* As the cache file of a row has the name of its id, no file can hold the *)
(* bytes of another link.                                                  *)
(***************************************************************************)
EXTENDS Attachments, TLAPS

-----------------------------------------------------------------------------
\* The facts about constants that most proofs use.
LEMMA IdFacts == Id \subseteq Nat /\ 0 \notin Id /\ Issue \in Owner /\ NoUrl \notin Url
  BY ConstantsAssumption DEF Id

\* What the actions of runs do to the variables of runs.
RunTypes ==
  /\ text \in [Owner -> SUBSET Url]
  /\ pc \in [Run -> {"idle", "store", "load", "clear", "insert"}]
  /\ on \in [Run -> Owner]
  /\ links \in [Run -> SUBSET Url] /\ todo \in [Run -> SUBSET Url]
  /\ old \in [Run -> [Url -> Entry]]
  /\ alone \subseteq Run
  /\ had \in [Owner -> SUBSET Id]
  /\ settled \in [Owner -> SUBSET SUBSET Url]
  /\ failures \in Nat

RowTypes ==
  /\ owner \in [Id -> Owner \cup {NoOwner}]
  /\ url \in [Id -> Url \cup {NoUrl}]
  /\ path \in [Id -> Path]

CacheTypes ==
  /\ file \in [Path -> Url \cup {NoUrl}]
  /\ evicted \subseteq Path

DownloadTypes ==
  /\ dpc \in [Download -> {"idle", "read", "forget", "fetch", "rename", "update"}]
  /\ got \in [Download -> [id : Id \cup {0}, url : Url \cup {NoUrl}, path : Path]]

\* TypeOK by the parts that different actors change.
LEMMA Types == TypeOK <=> RunTypes /\ RowTypes /\ CacheTypes /\ DownloadTypes
  BY DEF TypeOK, RunTypes, RowTypes, CacheTypes, DownloadTypes

\* The same of the next state.
LEMMA TypesNext == TypeOK' <=> RunTypes' /\ RowTypes' /\ CacheTypes' /\ DownloadTypes'
  BY DEF TypeOK, RunTypes, RowTypes, CacheTypes, DownloadTypes

\* The initial states are well typed.
LEMMA TypeInit == Init => TypeOK
  <1> SUFFICES ASSUME Init PROVE TypeOK
    OBVIOUS
  <1> USE IdFacts DEF Init
  <1>1. NoEntry \in Entry /\ NoRow \in [id : Id \cup {0}, url : Url \cup {NoUrl}, path : Path]
    BY DEF NoEntry, NoRow, Entry, Path
  <1>2. RunTypes
    BY <1>1 DEF RunTypes
  <1>3. RowTypes /\ CacheTypes
    BY DEF RowTypes, CacheTypes, Path
  <1>4. DownloadTypes
    BY <1>1 DEF DownloadTypes
  <1>5. QED
    BY <1>2, <1>3, <1>4, Types

\* So are a run that begins ...
LEMMA EnterTypes ==
  ASSUME NEW r \in Run, NEW o \in Owner, RunTypes, Enter(r, o)
  PROVE  /\ on' \in [Run -> Owner] /\ alone' \subseteq Run
         /\ had' \in [Owner -> SUBSET Id] /\ settled' \in [Owner -> SUBSET SUBSET Url]
  <1>1. Rows(o) \subseteq Id
    BY DEF Rows
  <1>2. QED
    BY <1>1 DEF RunTypes, Enter

\* ... and one that ends.
LEMMA LeaveTypes ==
  ASSUME NEW r \in Run, RunTypes, Leave(r)
  PROVE  /\ pc' \in [Run -> {"idle", "store", "load", "clear", "insert"}]
         /\ on' \in [Run -> Owner]
         /\ links' \in [Run -> SUBSET Url] /\ todo' \in [Run -> SUBSET Url]
         /\ old' \in [Run -> [Url -> Entry]]
         /\ alone' \subseteq Run
  <1>1. [u \in Url |-> NoEntry] \in [Url -> Entry]
    BY IdFacts DEF NoEntry, Entry, Path
  <1>2. QED
    BY <1>1, IdFacts DEF RunTypes, Leave

\* Every step of a run keeps the types of the runs.
LEMMA RunTypeStep ==
  ASSUME TypeOK, NEW r \in Run,
         \/ View(r) \/ \E o \in Owner, ls \in SUBSET Url : Fetch(r, o, ls)
         \/ Store(r) \/ Load(r) \/ Clear(r) \/ Finish(r) \/ FailRun(r)
         \/ \E u \in Url : Conflict(r, u) \/ \E i \in Id : Insert(r, u, i)
  PROVE  RunTypes'
  <1> USE Types
  <1>1. CASE View(r)
    <2>1. /\ on' \in [Run -> Owner] /\ alone' \subseteq Run
          /\ had' \in [Owner -> SUBSET Id] /\ settled' \in [Owner -> SUBSET SUBSET Url]
      BY <1>1, EnterTypes, IdFacts DEF View
    <2>2. QED
      BY <1>1, <2>1, IdFacts DEF View, RunTypes
  <1>2. ASSUME NEW o \in Owner, NEW ls \in SUBSET Url, Fetch(r, o, ls) PROVE RunTypes'
    <2>1. /\ on' \in [Run -> Owner] /\ alone' \subseteq Run
          /\ had' \in [Owner -> SUBSET Id] /\ settled' \in [Owner -> SUBSET SUBSET Url]
      BY <1>2, EnterTypes DEF Fetch
    <2>2. QED
      BY <1>2, <2>1 DEF Fetch, RunTypes
  <1>3. CASE Store(r) \/ Clear(r)
    BY <1>3 DEF Store, Clear, RunTypes
  <1>4. CASE Load(r)
    <2>1. PICK keep \in [Url -> Id \cup {0}] :
            old' = [old EXCEPT ![r] =
              [u \in Url |-> IF keep[u] = 0 THEN NoEntry
                             ELSE [id |-> keep[u], path |-> path[keep[u]]]]]
      BY <1>4 DEF Load
    <2>2. \A u \in Url : (IF keep[u] = 0 THEN NoEntry
                          ELSE [id |-> keep[u], path |-> path[keep[u]]]) \in Entry
      BY IdFacts DEF NoEntry, Entry, Path, RowTypes
    <2>3. old' \in [Run -> [Url -> Entry]]
      BY <2>1, <2>2 DEF RunTypes
    <2>4. QED
      BY <1>4, <2>3 DEF Load, RunTypes
  <1>5. CASE Finish(r)
    <2>1. Leave(r) /\ UNCHANGED <<text, had, failures>> /\ RunTypes
      BY <1>5 DEF Finish
    <2>2. settled' \in [Owner -> SUBSET SUBSET Url]
      BY <1>5 DEF Finish, RunTypes
    <2>3. QED
      BY <2>1, <2>2, LeaveTypes DEF RunTypes
  <1>6. CASE FailRun(r)
    <2>1. Leave(r) /\ UNCHANGED <<text, had, settled>> /\ RunTypes
      BY <1>6 DEF FailRun
    <2>2. failures' \in Nat
      BY <1>6 DEF FailRun, RunTypes
    <2>3. QED
      BY <2>1, <2>2, LeaveTypes DEF RunTypes
  <1>7. ASSUME NEW u \in Url, Conflict(r, u) PROVE RunTypes'
    BY <1>7, LeaveTypes DEF Conflict, RunTypes
  <1>8. ASSUME NEW u \in Url, NEW i \in Id, Insert(r, u, i) PROVE RunTypes'
    BY <1>8 DEF Insert, RunTypes
  <1>9. QED
    BY <1>1, <1>2, <1>3, <1>4, <1>5, <1>6, <1>7, <1>8

\* Every step keeps the types.
LEMMA TypeStep == TypeOK /\ [Next]_vars => TypeOK'
  <1> SUFFICES ASSUME TypeOK, [Next]_vars PROVE TypeOK'
    OBVIOUS
  <1> USE Types, TypesNext
  <1>1. CASE UNCHANGED vars
    BY <1>1 DEF vars, rowVars, cacheVars, runVars, downloadVars,
                RunTypes, RowTypes, CacheTypes, DownloadTypes
  <1>2. ASSUME NEW r \in Run,
               \/ View(r) \/ \E o \in Owner, ls \in SUBSET Url : Fetch(r, o, ls)
               \/ Store(r) \/ Load(r) \/ Clear(r) \/ Finish(r) \/ FailRun(r)
               \/ \E u \in Url : Conflict(r, u) \/ \E i \in Id : Insert(r, u, i)
        PROVE TypeOK'
    <2>1. RunTypes'
      BY <1>2, RunTypeStep
    <2>2. UNCHANGED <<cacheVars, downloadVars>>
      BY <1>2 DEF View, Fetch, Store, Load, Clear, Finish, FailRun, Conflict, Insert
    <2>3. RowTypes'
      <3>1. ASSUME NEW u \in Url, NEW i \in Id, Insert(r, u, i) PROVE RowTypes'
        BY <3>1 DEF Insert, RowTypes, RunTypes, Entry
      <3>2. CASE Clear(r)
        BY <3>2, IdFacts DEF Clear, RowTypes, Path
      <3>3. CASE UNCHANGED rowVars
        BY <3>3 DEF RowTypes, rowVars
      <3>4. QED
        BY <1>2, <3>1, <3>2, <3>3 DEF View, Fetch, Store, Load, Finish, FailRun, Conflict
    <2>4. QED
      BY <2>1, <2>2, <2>3 DEF CacheTypes, DownloadTypes, cacheVars, downloadVars
  <1>3. ASSUME NEW d \in Download,
               \/ \E i \in Id : Lookup(d, i)
               \/ ReadHit(d) \/ ReadMiss(d) \/ Forget(d) \/ WriteTemp(d) \/ Rename(d) \/ Update(d)
               \/ SaveFails(d) \/ FetchFails(d) \/ GiveUp(d)
        PROVE TypeOK'
    <2>1. UNCHANGED runVars
      BY <1>3 DEF Lookup, ReadHit, ReadMiss, Forget, WriteTemp, Rename, Update,
                  SaveFails, FetchFails, GiveUp
    <2>2. NoRow \in [id : Id \cup {0}, url : Url \cup {NoUrl}, path : Path]
      BY IdFacts DEF NoRow, Path
    <2>3. DownloadTypes'
      <3>1. ASSUME NEW i \in Id, Lookup(d, i) PROVE DownloadTypes'
        BY <3>1 DEF Lookup, Step, DownloadTypes, RowTypes
      <3>2. CASE ReadHit(d) \/ Update(d) \/ SaveFails(d) \/ FetchFails(d) \/ GiveUp(d)
        BY <3>2, <2>2 DEF ReadHit, Update, SaveFails, FetchFails, GiveUp, Answer, Step, DownloadTypes
      <3>3. CASE ReadMiss(d) \/ Forget(d) \/ WriteTemp(d) \/ Rename(d)
        BY <3>3 DEF ReadMiss, Forget, WriteTemp, Rename, Step, DownloadTypes
      <3>4. QED
        BY <1>3, <3>1, <3>2, <3>3
    <2>4. RowTypes'
      <3>1. ASSUME NEW i, NEW p \in Path, SetPath(i, p), UNCHANGED <<owner, url>>
            PROVE  RowTypes'
        BY <3>1 DEF SetPath, RowTypes
      <3>2. 0 \in Path /\ \A i \in Id : CachePath(i) \in Path
        BY DEF Path, CachePath
      <3>3. CASE Update(d)
        <4>1. got[d].id \in Path
          BY DEF DownloadTypes, Path
        <4>2. QED
          BY <3>1, <3>3, <4>1 DEF Update, CachePath
      <3>4. CASE Forget(d) \/ SaveFails(d) \/ FetchFails(d)
        BY <3>1, <3>2, <3>4 DEF Forget, SaveFails, FetchFails
      <3>5. CASE UNCHANGED rowVars
        BY <3>5 DEF RowTypes, rowVars
      <3>6. QED
        BY <1>3, <3>3, <3>4, <3>5 DEF Lookup, ReadHit, ReadMiss, WriteTemp, Rename, GiveUp
    <2>5. CacheTypes'
      <3>1. CASE Rename(d)
        BY <3>1 DEF Rename, CacheTypes, DownloadTypes
      <3>2. CASE UNCHANGED cacheVars
        BY <3>2 DEF CacheTypes, cacheVars
      <3>3. QED
        BY <1>3, <3>1, <3>2 DEF Lookup, ReadHit, ReadMiss, Forget, WriteTemp, Update,
                                SaveFails, FetchFails, GiveUp
    <2>6. QED
      BY <2>1, <2>3, <2>4, <2>5 DEF RunTypes, runVars
  <1>4. ASSUME NEW p \in Path, Evict(p) PROVE TypeOK'
    BY <1>4 DEF Evict, rowVars, runVars, downloadVars, RunTypes, RowTypes, CacheTypes,
                DownloadTypes
  <1>5. QED
    BY <1>1, <1>2, <1>3, <1>4 DEF Next

-----------------------------------------------------------------------------
(***************************************************************************)
(* Ids and links.                                                          *)
(***************************************************************************)
\* Ids in use have a link, and whoever remembers an id remembers its link.
Bound ==
  /\ \A i \in Id : owner[i] # NoOwner => url[i] # NoUrl
  /\ \A i \in Id : path[i] \in {0, i}
  /\ \A r \in Run, u \in Url :
       /\ old[r][u].id # 0 => url[old[r][u].id] = u
       /\ old[r][u].path \in {0, old[r][u].id}
  /\ \A d \in Download : dpc[d] # "idle" =>
       /\ got[d].id \in Id
       /\ url[got[d].id] = got[d].url /\ got[d].url # NoUrl
       /\ got[d].path \in {0, got[d].id}
  /\ file[0] = NoUrl
  /\ \A i \in Id : file[i] \in {NoUrl, url[i]}

\* The file of an id was stored.
Has(i) == url[i] # NoUrl /\ (file[i] = url[i] \/ i \in evicted)

\* A path is recorded, remembered or about to be recorded only of a file that
\* was stored.
Stored ==
  /\ \A i \in Id : path[i] # 0 => Has(i)
  /\ \A r \in Run, u \in Url : old[r][u].path # 0 => Has(old[r][u].id)
  /\ \A d \in Download : dpc[d] = "update" => Has(got[d].id)

IInv == TypeOK /\ Bound /\ Stored


\* Nothing is bound or stored at first.
LEMMA IInvInit == Init => IInv
  <1> SUFFICES ASSUME Init PROVE IInv
    OBVIOUS
  <1>1. TypeOK
    BY TypeInit
  <1>2. Bound
    BY IdFacts DEF Init, Bound, NoEntry, Path
  <1>3. Stored
    BY IdFacts DEF Init, Stored, NoEntry
  <1>4. QED
    BY <1>1, <1>2, <1>3 DEF IInv

\* Steps of runs that touch neither rows nor files, and remember no more.
LEMMA RunsKeep ==
  ASSUME IInv, UNCHANGED <<rowVars, cacheVars, downloadVars>>, NEW r \in Run,
         old' \in {old, [old EXCEPT ![r] = [u \in Url |-> NoEntry]]}
  PROVE  Bound' /\ Stored'
  <1>1. UNCHANGED <<owner, url, path, file, evicted, dpc, got>>
    BY DEF rowVars, cacheVars, downloadVars
  <1>2. \A s \in Run, u \in Url : old'[s][u] = old[s][u] \/ old'[s][u] = NoEntry
    BY DEF IInv, TypeOK
  <1>3. \A i : Has(i) <=> Has(i)'
    BY <1>1 DEF Has
  <1>4. Bound'
    BY <1>1, <1>2 DEF IInv, Bound, NoEntry
  <1>5. Stored'
    BY <1>1, <1>2, <1>3 DEF IInv, Stored, NoEntry
  <1>6. QED
    BY <1>4, <1>5

\* A run remembers ids with the links and files they have.
LEMMA LoadKeeps ==
  ASSUME IInv, NEW r \in Run, Load(r)
  PROVE  Bound' /\ Stored'
  <1> USE Types DEF IInv
  <1>1. UNCHANGED <<owner, url, path, file, evicted, dpc, got>>
    BY DEF Load, rowVars, cacheVars, downloadVars
  <1>2. PICK keep \in [Url -> Id \cup {0}] :
          /\ \A u \in Url : keep[u] # 0 => url[keep[u]] = u
          /\ old' = [old EXCEPT ![r] =
               [u \in Url |-> IF keep[u] = 0 THEN NoEntry
                              ELSE [id |-> keep[u], path |-> path[keep[u]]]]]
    BY DEF Load
  <1>3. ASSUME NEW s \in Run, NEW u \in Url
        PROVE  \/ old'[s][u] = old[s][u]
               \/ old'[s][u] = NoEntry
               \/ \E i \in Id : url[i] = u /\ old'[s][u] = [id |-> i, path |-> path[i]]
    BY <1>2 DEF RunTypes
  <1>4. \A i : Has(i) <=> Has(i)'
    BY <1>1 DEF Has
  <1>5. ASSUME NEW s \in Run, NEW u \in Url
        PROVE  /\ old'[s][u].id # 0 => url[old'[s][u].id] = u
               /\ old'[s][u].path \in {0, old'[s][u].id}
               /\ old'[s][u].path # 0 => Has(old'[s][u].id)
    <2>1. CASE old'[s][u] = old[s][u]
      BY <2>1 DEF Bound, Stored
    <2>2. CASE old'[s][u] = NoEntry
      BY <2>2 DEF NoEntry
    <2>3. ASSUME NEW i \in Id, url[i] = u, old'[s][u] = [id |-> i, path |-> path[i]]
          PROVE  /\ old'[s][u].id # 0 => url[old'[s][u].id] = u
                 /\ old'[s][u].path \in {0, old'[s][u].id}
                 /\ old'[s][u].path # 0 => Has(old'[s][u].id)
      <3>1. old'[s][u].id = i /\ old'[s][u].path = path[i]
        BY <2>3
      <3>2. path[i] \in {0, i} /\ (path[i] # 0 => Has(i))
        BY DEF Bound, Stored
      <3>3. QED
        BY <2>3, <3>1, <3>2
    <2>4. QED
      BY <1>3, <2>1, <2>2, <2>3
  <1>7. Bound'
    BY <1>1, <1>5 DEF Bound
  <1>8. Stored'
    BY <1>1, <1>4, <1>5 DEF Stored
  <1>9. QED
    BY <1>7, <1>8

\* A deleted row leaves its id bound to its link.
LEMMA ClearKeeps ==
  ASSUME IInv, NEW r \in Run, Clear(r)
  PROVE  Bound' /\ Stored'
  <1> USE Types DEF IInv
  <1>1. UNCHANGED <<url, old, file, evicted, dpc, got>>
    BY DEF Clear, cacheVars, downloadVars
  <1>2. \A i \in Id : owner'[i] \in {owner[i], NoOwner} /\ path'[i] \in {path[i], 0}
    BY DEF Clear
  <1>3. \A i : Has(i) <=> Has(i)'
    BY <1>1 DEF Has
  <1>4. Bound'
    BY <1>1, <1>2 DEF Bound
  <1>5. Stored'
    BY <1>1, <1>2, <1>3 DEF Stored
  <1>6. QED
    BY <1>4, <1>5

\* A row is inserted for the link that its id is bound to, if any.
LEMMA InsertKeeps ==
  ASSUME IInv, NEW r \in Run, NEW u \in Url, NEW i \in Id, Insert(r, u, i)
  PROVE  Bound' /\ Stored'
  <1> USE Types, IdFacts DEF IInv
  <1>1. /\ UNCHANGED <<old, file, evicted, dpc, got>>
        /\ owner' = [owner EXCEPT ![i] = on[r]]
        /\ url' = [url EXCEPT ![i] = u]
        /\ path' = [path EXCEPT ![i] = old[r][u].path]
    BY DEF Insert, cacheVars, downloadVars
  <1>2. \/ old[r][u].id = i /\ url[i] = u
        \/ old[r][u].id = 0 /\ old[r][u].path = 0 /\ url[i] = NoUrl
    BY DEF Insert, IsIdFor, IsFresh, Bound
  <1>3. old[r][u].path \in {0, i} /\ (old[r][u].path # 0 => Has(i))
    BY <1>2 DEF Bound, Stored
  <1>4. \A j \in Id : url[j] # NoUrl => url'[j] = url[j]
    BY <1>1, <1>2 DEF RowTypes
  <1>5. \A j \in Id : Has(j) => Has(j)'
    BY <1>1, <1>4 DEF Has
  <1>6. \A s \in Run, v \in Url : old[s][v].id \in Id \cup {0}
    BY DEF RunTypes, Entry
  <1>7. Bound'
    <2>1. \A j \in Id : /\ owner'[j] # NoOwner => url'[j] # NoUrl
                        /\ path'[j] \in {0, j}
      BY <1>1, <1>3 DEF Bound, RowTypes
    <2>2. ASSUME NEW s \in Run, NEW v \in Url, old[s][v].id # 0
          PROVE  url'[old[s][v].id] = v
      <3>1. old[s][v].id \in Id /\ url[old[s][v].id] = v
        BY <1>6, <2>2 DEF Bound
      <3>2. QED
        BY <1>4, <3>1
    <2>3. \A d \in Download : dpc[d] # "idle" => url'[got[d].id] = got[d].url
      BY <1>4 DEF Bound
    <2>4. \A j \in Id : file[j] \in {NoUrl, url'[j]}
      BY <1>1, <1>2 DEF Bound, RowTypes
    <2>5. QED
      BY <1>1, <2>1, <2>2, <2>3, <2>4 DEF Bound
  <1>8. Stored'
    <2>1. \A j \in Id : path'[j] # 0 => Has(j)'
      BY <1>1, <1>3, <1>5 DEF Stored, RowTypes
    <2>2. \A s \in Run, v \in Url : old[s][v].path # 0 => old[s][v].id \in Id
      BY <1>6 DEF Bound
    <2>3. \A d \in Download : dpc[d] = "update" => got[d].id \in Id
      BY DEF Bound
    <2>4. QED
      BY <1>1, <1>5, <2>1, <2>2, <2>3 DEF Stored
  <1>9. QED
    BY <1>7, <1>8

\* Steps of downloads that store no file: a path is forgotten or the file it
\* names was stored, and a download goes on with what it has or ends.
LEMMA DownloadsKeep ==
  ASSUME IInv, UNCHANGED <<owner, url, cacheVars, runVars>>, NEW d \in Download,
         \A i \in Id : path'[i] \in {path[i], 0} \/ (path'[i] = i /\ Has(i)),
         \/ dpc' = [dpc EXCEPT ![d] = "idle"] /\ got' = [got EXCEPT ![d] = NoRow]
         \/ /\ dpc[d] # "idle" /\ got' = got
            /\ \E at \in {"forget", "fetch", "rename"} : dpc' = [dpc EXCEPT ![d] = at]
  PROVE  Bound' /\ Stored'
  <1> USE Types DEF IInv
  <1>1. UNCHANGED <<owner, url, file, evicted, old>>
    BY DEF cacheVars, runVars
  <1>2. \A e \in Download : \/ dpc'[e] = "idle"
                            \/ /\ dpc[e] # "idle" /\ got'[e] = got[e]
                               /\ dpc'[e] = "update" => dpc[e] = "update"
    BY DEF DownloadTypes
  <1>3. \A i : Has(i) <=> Has(i)'
    BY <1>1 DEF Has
  <1>4. Bound'
    BY <1>1, <1>2 DEF Bound
  <1>5. Stored'
    BY <1>1, <1>2, <1>3 DEF Stored
  <1>6. QED
    BY <1>4, <1>5

\* A download copies a row with its link.
LEMMA LookupKeeps ==
  ASSUME IInv, NEW d \in Download, NEW i \in Id, Lookup(d, i)
  PROVE  Bound' /\ Stored'
  <1> USE Types DEF IInv
  <1>1. UNCHANGED <<owner, url, path, file, evicted, old>>
    BY DEF Lookup, rowVars, cacheVars, runVars
  <1>2. /\ got'[d] = [id |-> i, url |-> url[i], path |-> path[i]]
        /\ dpc'[d] \in {"fetch", "read"}
        /\ \A e \in Download \ {d} : got'[e] = got[e] /\ dpc'[e] = dpc[e]
    BY DEF Lookup, Step, DownloadTypes
  <1>3. url[i] # NoUrl /\ path[i] \in {0, i}
    BY DEF Lookup, Bound
  <1>4. \A j : Has(j) <=> Has(j)'
    BY <1>1 DEF Has
  <1>5. \A e \in Download : dpc'[e] # "idle" =>
          /\ got'[e].id \in Id
          /\ url[got'[e].id] = got'[e].url /\ got'[e].url # NoUrl
          /\ got'[e].path \in {0, got'[e].id}
    BY <1>2, <1>3 DEF Bound
  <1>6. Bound'
    BY <1>1, <1>5 DEF Bound
  <1>7. Stored'
    BY <1>1, <1>2, <1>4 DEF Stored
  <1>8. QED
    BY <1>6, <1>7

\* A stored file has the bytes of the link of its id.
LEMMA RenameKeeps ==
  ASSUME IInv, NEW d \in Download, Rename(d)
  PROVE  Bound' /\ Stored'
  <1> USE Types, IdFacts DEF IInv
  <1>1. /\ UNCHANGED <<owner, url, path, evicted, old, got>>
        /\ file' = [file EXCEPT ![got[d].id] = got[d].url]
        /\ dpc' = [dpc EXCEPT ![d] = "update"]
    BY DEF Rename, CachePath, Step, rowVars, runVars
  <1>2. got[d].id \in Id /\ url[got[d].id] = got[d].url /\ got[d].url # NoUrl
    BY DEF Rename, Bound
  <1>3. \A i \in Id : file'[i] \in {file[i], url[i]}
    BY <1>1, <1>2 DEF CacheTypes, Path
  <1>4. \A i \in Id : Has(i) => Has(i)'
    BY <1>1, <1>3 DEF Has
  <1>5. Has(got[d].id)'
    BY <1>1, <1>2 DEF Has, CacheTypes, Path
  <1>6. Bound'
    <2>1. file'[0] = NoUrl /\ \A i \in Id : file'[i] \in {NoUrl, url[i]}
      BY <1>1, <1>2, <1>3 DEF Bound, CacheTypes, Path
    <2>2. \A e \in Download : dpc'[e] # "idle" => dpc[e] # "idle"
      BY <1>1 DEF Rename, DownloadTypes
    <2>3. QED
      BY <1>1, <2>1, <2>2 DEF Bound
  <1>7. Stored'
    <2>1. \A r \in Run, u \in Url : old[r][u].path # 0 => old[r][u].id \in Id
      BY DEF RunTypes, Entry, Bound
    <2>2. \A e \in Download : dpc'[e] = "update" => got[e].id \in Id /\ (e = d \/ Has(got[e].id))
      BY <1>1, <1>2 DEF DownloadTypes, Bound, Stored
    <2>3. QED
      BY <1>1, <1>4, <1>5, <2>1, <2>2 DEF Stored
  <1>8. QED
    BY <1>6, <1>7

\* A file that vanishes was stored.
LEMMA EvictKeeps ==
  ASSUME IInv, NEW p \in Path, Evict(p)
  PROVE  Bound' /\ Stored'
  <1> USE Types DEF IInv
  <1>1. /\ UNCHANGED <<owner, url, path, old, dpc, got>>
        /\ \A q \in Path : file'[q] \in {file[q], NoUrl}
        /\ \A q : q \in evicted \/ file'[q] # file[q] => q \in evicted' \/ q \notin Path
    BY DEF Evict, rowVars, runVars, downloadVars, CacheTypes
  <1>2. \A i \in Id : i \in Path
    BY DEF Path
  <1>3. \A i \in Id : Has(i) => Has(i)'
    BY <1>1, <1>2 DEF Has
  <1>4. Bound'
    BY <1>1, <1>2 DEF Bound, Path
  <1>5. Stored'
    <2>1. \A r \in Run, u \in Url : old[r][u].path # 0 => old[r][u].id \in Id
      BY DEF RunTypes, Entry, Bound
    <2>2. \A e \in Download : dpc[e] = "update" => got[e].id \in Id
      BY DEF Bound
    <2>3. QED
      BY <1>1, <1>3, <2>1, <2>2 DEF Stored
  <1>6. QED
    BY <1>4, <1>5

\* No step of a run, a download or the cache breaks what was bound or stored.
LEMMA IInvStep == IInv /\ [Next]_vars => IInv'
  <1> SUFFICES ASSUME IInv, [Next]_vars PROVE IInv'
    OBVIOUS
  <1>1. TypeOK'
    BY TypeStep DEF IInv
  <1>2. CASE UNCHANGED vars
    <2>1. UNCHANGED <<owner, url, path, file, evicted, old, dpc, got>>
      BY <1>2 DEF vars, rowVars, cacheVars, runVars, downloadVars
    <2>2. \A i : Has(i) <=> Has(i)'
      BY <2>1 DEF Has
    <2>3. Bound' /\ Stored'
      BY <2>1, <2>2 DEF IInv, Bound, Stored
    <2>4. QED
      BY <1>1, <2>3 DEF IInv
  <1>3. ASSUME NEW r \in Run, View(r) \/ (\E o \in Owner, ls \in SUBSET Url : Fetch(r, o, ls)) \/ Store(r)
        PROVE  Bound' /\ Stored'
    BY <1>3, RunsKeep DEF View, Fetch, Store
  <1>4. ASSUME NEW r \in Run, Finish(r) \/ FailRun(r) \/ \E u \in Url : Conflict(r, u)
        PROVE  Bound' /\ Stored'
    BY <1>4, RunsKeep DEF Finish, FailRun, Conflict, Leave
  <1>5. ASSUME NEW r \in Run, Load(r) PROVE Bound' /\ Stored'
    BY <1>5, LoadKeeps
  <1>6. ASSUME NEW r \in Run, Clear(r) PROVE Bound' /\ Stored'
    BY <1>6, ClearKeeps
  <1>7. ASSUME NEW r \in Run, NEW u \in Url, NEW i \in Id, Insert(r, u, i)
        PROVE  Bound' /\ Stored'
    BY <1>7, InsertKeeps
  <1>8. ASSUME NEW d \in Download, NEW i \in Id, Lookup(d, i) PROVE Bound' /\ Stored'
    BY <1>8, LookupKeeps
  <1>9. ASSUME NEW d \in Download, ReadHit(d) \/ ReadMiss(d) \/ WriteTemp(d) \/ GiveUp(d)
        PROVE  Bound' /\ Stored'
    <2>1. \A i \in Id : path'[i] \in {path[i], 0} \/ (path'[i] = i /\ Has(i))
      BY <1>9 DEF ReadHit, ReadMiss, WriteTemp, GiveUp, rowVars
    <2>2. UNCHANGED <<owner, url, cacheVars, runVars>>
      BY <1>9 DEF ReadHit, ReadMiss, WriteTemp, GiveUp, rowVars
    <2>3. \/ dpc' = [dpc EXCEPT ![d] = "idle"] /\ got' = [got EXCEPT ![d] = NoRow]
          \/ /\ dpc[d] # "idle" /\ got' = got
             /\ \E at \in {"forget", "fetch", "rename"} : dpc' = [dpc EXCEPT ![d] = at]
      BY <1>9 DEF ReadHit, ReadMiss, WriteTemp, GiveUp, Answer, Step
    <2>4. QED
      BY <2>1, <2>2, <2>3, DownloadsKeep
  <1>10. ASSUME NEW d \in Download, Forget(d) \/ SaveFails(d) \/ FetchFails(d)
         PROVE  Bound' /\ Stored'
    <2>1. SetPath(got[d].id, 0) /\ path \in [Id -> Path]
      BY <1>10 DEF Forget, SaveFails, FetchFails, IInv, TypeOK
    <2>2. \A i \in Id : path'[i] \in {path[i], 0} \/ (path'[i] = i /\ Has(i))
      BY <2>1 DEF SetPath
    <2>3. UNCHANGED <<owner, url, cacheVars, runVars>>
      BY <1>10 DEF Forget, SaveFails, FetchFails
    <2>4. \/ dpc' = [dpc EXCEPT ![d] = "idle"] /\ got' = [got EXCEPT ![d] = NoRow]
          \/ /\ dpc[d] # "idle" /\ got' = got
             /\ \E at \in {"forget", "fetch", "rename"} : dpc' = [dpc EXCEPT ![d] = at]
      BY <1>10 DEF Forget, SaveFails, FetchFails, Answer, Step
    <2>5. QED
      BY <2>2, <2>3, <2>4, DownloadsKeep
  <1>11. ASSUME NEW d \in Download, Update(d) PROVE Bound' /\ Stored'
    <2>1. SetPath(got[d].id, got[d].id) /\ path \in [Id -> Path]
      BY <1>11 DEF Update, CachePath, IInv, TypeOK
    <2>2. Has(got[d].id)
      BY <1>11 DEF Update, IInv, Stored
    <2>3. \A i \in Id : path'[i] \in {path[i], 0} \/ (path'[i] = i /\ Has(i))
      BY <2>1, <2>2 DEF SetPath
    <2>4. /\ UNCHANGED <<owner, url, cacheVars, runVars>>
          /\ dpc' = [dpc EXCEPT ![d] = "idle"] /\ got' = [got EXCEPT ![d] = NoRow]
      BY <1>11 DEF Update, Answer, Step
    <2>5. QED
      BY <2>3, <2>4, DownloadsKeep
  <1>12. ASSUME NEW d \in Download, Rename(d) PROVE Bound' /\ Stored'
    BY <1>12, RenameKeeps
  <1>13. ASSUME NEW p \in Path, Evict(p) PROVE Bound' /\ Stored'
    BY <1>13, EvictKeeps
  <1>14. CASE Next
    BY <1>1, <1>3, <1>4, <1>5, <1>6, <1>7, <1>8, <1>9, <1>10, <1>11, <1>12, <1>13, <1>14
       DEF Next, IInv
  <1>15. QED
    BY <1>2, <1>14

\* So the invariant holds always.
LEMMA IInvHolds == Spec => []IInv
  BY IInvInit, IInvStep, PTL DEF Spec

-----------------------------------------------------------------------------
\* Rows, cache, runs and downloads have their types, for any number of them.
THEOREM Typed == Spec => []TypeOK
  <1>1. IInv => TypeOK
    BY DEF IInv
  <1>2. QED
    BY <1>1, IInvHolds, PTL

\* download_attachment never serves the bytes of another link from the cache,
\* however many runs and downloads overlap, fail and die.
THEOREM ServedRight == Spec => []ServedMatches
  <1>1. ASSUME IInv, NEW d \in Download, dpc[d] = "read"
        PROVE  file[got[d].path] \in {NoUrl, got[d].url}
    <2>1. /\ got[d].id \in Id /\ url[got[d].id] = got[d].url
          /\ got[d].path \in {0, got[d].id}
      BY <1>1 DEF IInv, Bound
    <2>2. file[0] = NoUrl /\ file[got[d].id] \in {NoUrl, url[got[d].id]}
      BY <1>1, <2>1 DEF IInv, Bound
    <2>3. QED
      BY <2>1, <2>2
  <1>2. IInv => ServedMatches
    BY <1>1 DEF ServedMatches
  <1>3. QED
    BY <1>2, IInvHolds, PTL

\* A row of issue_attachments records a cache file only if the bytes of its link
\* were stored in it.
THEOREM CachedRight == Spec => []CachedIsStored
  <1>1. ASSUME IInv, NEW i \in Id, path[i] # 0
        PROVE  file[path[i]] \in {url[i]} \ {NoUrl} \/ path[i] \in evicted
    BY <1>1 DEF IInv, Bound, Stored, Has
  <1>2. IInv => CachedIsStored
    BY <1>1 DEF CachedIsStored
  <1>3. QED
    BY <1>2, IInvHolds, PTL

-----------------------------------------------------------------------------
(***************************************************************************)
(* Undisturbed runs.  A run that has its owner to itself meets the rows    *)
(* that `had` records, remembers for each link one of those it met, and    *)
(* has put back one row for each link it no longer has to insert.          *)
(***************************************************************************)
\* What such a run remembers is an address of a row it met, if there was one.
Remembers(r) ==
  /\ \A u \in Url : old[r][u].id # 0 => old[r][u].id \in had[on[r]]
  /\ \A i \in had[on[r]] : old[r][url[i]].id # 0

\* The rows it has inserted so far.
Rebuilt(r) ==
  /\ todo[r] \subseteq links[r]
  /\ \A i \in Rows(on[r]) : url[i] \in links[r] \ todo[r]
  /\ \A i, j \in Rows(on[r]) : url[i] = url[j] => i = j
  /\ \A u \in links[r] \ todo[r] :
       /\ \E i \in Rows(on[r]) : url[i] = u
       /\ old[r][u].id # 0 => old[r][u].id \in Rows(on[r])

Undisturbed(r) ==
  /\ pc[r] \in {"store", "load", "clear"} => had[on[r]] = Rows(on[r])
  /\ pc[r] \in {"clear", "insert"} => Remembers(r)
  /\ pc[r] = "insert" => Rebuilt(r)

\* What settled rows owe to the texts and to the clients of one owner.
Settled(o) ==
  \A ls \in settled[o] :
    /\ \A i \in Rows(o) : url[i] \in ls
    /\ \A u \in ls : \E i \in Rows(o) : \A j \in Rows(o) : url[j] = u <=> j = i
    /\ \A i \in had[o] : url[i] \in ls => \E j \in had[o] : url[j] = url[i] /\ owner[j] = o

\* Rows are settled only while no run is on their owner; rows met have links.
SettledInv ==
  /\ \A r \in alone : Active(on[r]) = {r} /\ Undisturbed(r)
  /\ \A r \in Run : pc[r] # "idle" => settled[on[r]] = {}
  /\ \A o \in Owner : \A i \in had[o] : url[i] # NoUrl
  /\ \A o \in Owner : Settled(o)

\* Once an id has a link it keeps it.
KeepsUrls == \A i \in Id : url[i] # NoUrl => url'[i] = url[i]

\* An INSERT gives a new id its link, or an old one the link it had.
LEMMA UrlsStay ==
  ASSUME IInv, NEW r \in Run, NEW u \in Url, NEW i \in Id, Insert(r, u, i)
  PROVE  KeepsUrls /\ url'[i] = u
  <1>1. url[i] = u \/ url[i] = NoUrl
    BY DEF Insert, IsIdFor, IsFresh, IInv, Bound
  <1>2. QED
    BY <1>1 DEF Insert, IInv, TypeOK, KeepsUrls

\* A step about run r and owner o leaves the others as they are.
OtherRuns(r) ==
  \A s \in Run \ {r} : /\ pc'[s] = pc[s] /\ on'[s] = on[s] /\ links'[s] = links[s]
                       /\ old'[s] = old[s] /\ todo'[s] = todo[s]

OtherOwners(o) ==
  \A p \in Owner \ {o} : /\ had'[p] = had[p] /\ settled'[p] = settled[p]
                         /\ \A i \in Id : owner'[i] = p <=> owner[i] = p

\* An undisturbed run on another owner goes on undisturbed.
LEMMA RunsElsewhere ==
  ASSUME IInv, SettledInv, KeepsUrls, NEW r \in Run, NEW o \in Owner,
         OtherRuns(r), OtherOwners(o),
         pc[r] = "idle" \/ on[r] = o, pc'[r] = "idle" \/ on'[r] = o,
         NEW s \in alone, s # r, on[s] # o
  PROVE  (Active(on[s]) = {s} /\ Undisturbed(s))'
  <1>1. s \in Run /\ on[s] \in Owner /\ had[on[s]] \subseteq Id
    BY DEF IInv, TypeOK
  <1>2. on'[s] = on[s] /\ pc'[s] = pc[s] /\ links'[s] = links[s] /\ old'[s] = old[s]
        /\ todo'[s] = todo[s] /\ had'[on[s]] = had[on[s]]
    BY <1>1 DEF OtherRuns, OtherOwners
  <1>3. Rows(on[s])' = Rows(on[s])
    BY <1>1, <1>2 DEF Rows, OtherOwners
  <1>4. Active(on[s])' = Active(on[s])
    BY <1>2 DEF Active, OtherRuns
  <1>5. \A i \in Rows(on[s]) : i \in Id /\ url[i] # NoUrl
    BY <1>1, ConstantsAssumption DEF Rows, IInv, Bound
  <1>6. \A i \in had[on[s]] : url[i] # NoUrl
    BY <1>1 DEF SettledInv
  <1>7. \A i \in Rows(on[s]) \cup had[on[s]] : url'[i] = url[i]
    BY <1>1, <1>5, <1>6 DEF KeepsUrls
  <1>8. Active(on[s]) = {s} /\ Undisturbed(s)
    BY DEF SettledInv
  <1>9. QED
    BY <1>2, <1>3, <1>4, <1>7, <1>8 DEF Undisturbed, Remembers, Rebuilt

\* Settled rows of another owner stay settled.
LEMMA OwnersElsewhere ==
  ASSUME IInv, SettledInv, KeepsUrls, NEW o \in Owner, OtherOwners(o), NEW p \in Owner, p # o
  PROVE  (\A i \in had[p] : url[i] # NoUrl)' /\ Settled(p)'
  <1>1. had'[p] = had[p] /\ settled'[p] = settled[p] /\ \A i \in Id : owner'[i] = p <=> owner[i] = p
    BY DEF OtherOwners
  <1>2. Rows(p)' = Rows(p)
    BY <1>1 DEF Rows
  <1>3. had[p] \subseteq Id /\ \A i \in had[p] : url[i] # NoUrl
    BY DEF IInv, TypeOK, SettledInv
  <1>4. \A i \in Rows(p) : i \in Id /\ url[i] # NoUrl
    BY ConstantsAssumption DEF Rows, IInv, Bound
  <1>5. \A i \in Rows(p) \cup had[p] : url'[i] = url[i]
    BY <1>3, <1>4 DEF KeepsUrls
  <1>6. \A i \in had[p] : owner'[i] = p <=> owner[i] = p
    BY <1>1, <1>3
  <1>7. Settled(p)
    BY DEF SettledInv
  <1>8. QED
    BY <1>1, <1>2, <1>3, <1>5, <1>6, <1>7 DEF Settled

\* So it is enough to look at the run that steps, and at its owner.
LEMMA SettledStep ==
  ASSUME IInv, SettledInv, KeepsUrls, NEW r \in Run, NEW o \in Owner,
         OtherRuns(r), OtherOwners(o),
         pc[r] = "idle" \/ on[r] = o, pc'[r] = "idle" \/ on'[r] = o,
         \A s \in alone' \ {r} : s \in alone /\ on[s] # o,
         r \in alone' => (Active(on[r]) = {r} /\ Undisturbed(r))',
         \A s \in Run : pc'[s] # "idle" /\ on'[s] = o => settled'[o] = {},
         \A i \in had'[o] : url'[i] # NoUrl,
         Settled(o)'
  PROVE  SettledInv'
  <1>1. ASSUME NEW s \in alone' PROVE (Active(on[s]) = {s} /\ Undisturbed(s))'
    <2>1. CASE s = r
      BY <1>1, <2>1
    <2>2. CASE s # r
      BY <1>1, <2>2, RunsElsewhere
    <2>3. QED
      BY <2>1, <2>2
  <1>2. ASSUME NEW s \in Run, pc'[s] # "idle" PROVE settled'[on'[s]] = {}
    <2>1. CASE on'[s] = o
      BY <1>2, <2>1
    <2>2. CASE on'[s] # o
      <3>1. s # r
        BY <1>2, <2>2
      <3>2. on'[s] = on[s] /\ pc'[s] = pc[s] /\ on[s] \in Owner
        BY <3>1 DEF OtherRuns, IInv, TypeOK
      <3>3. settled[on[s]] = {}
        BY <1>2, <3>2 DEF SettledInv
      <3>4. QED
        BY <2>2, <3>2, <3>3 DEF OtherOwners
    <2>3. QED
      BY <2>1, <2>2
  <1>3. ASSUME NEW p \in Owner PROVE (\A i \in had[p] : url[i] # NoUrl)' /\ Settled(p)'
    <2>1. CASE p = o
      BY <2>1
    <2>2. CASE p # o
      BY <2>2, OwnersElsewhere
    <2>3. QED
      BY <2>1, <2>2
  <1>4. QED
    BY <1>1, <1>2, <1>3 DEF SettledInv

\* A run begins: it meets the rows as they are, and unsettles them.
LEMMA EnterSettles ==
  ASSUME IInv, SettledInv, NEW r \in Run, NEW o \in Owner, pc[r] = "idle", Enter(r, o),
         NEW at \in {"store", "load"}, pc' = [pc EXCEPT ![r] = at],
         \E ls : links' = [links EXCEPT ![r] = ls],
         UNCHANGED <<owner, url, old, todo>>
  PROVE  SettledInv'
  <1> USE DEF IInv, TypeOK
  <1>1. /\ on'[r] = o /\ pc'[r] = at /\ OtherRuns(r)
        /\ had' = [had EXCEPT ![o] = Rows(o)] /\ settled' = [settled EXCEPT ![o] = {}]
    BY DEF Enter, OtherRuns
  <1>2. OtherOwners(o) /\ had'[o] = Rows(o) /\ settled'[o] = {}
    BY <1>1 DEF OtherOwners
  <1>3. KeepsUrls
    BY DEF KeepsUrls
  <1>4. r \notin alone
    BY DEF SettledInv, Active
  <1>5. ASSUME NEW s \in alone', s # r PROVE s \in alone /\ on[s] # o
    <2>1. s \in alone /\ s \notin Active(o)
      BY <1>5 DEF Enter
    <2>2. Active(on[s]) = {s}
      BY <2>1 DEF SettledInv
    <2>3. QED
      BY <2>1, <2>2
  <1>6. ASSUME r \in alone' PROVE (Active(on[r]) = {r} /\ Undisturbed(r))'
    <2>1. Active(o) = {}
      BY <1>4, <1>6 DEF Enter
    <2>2. \A s \in Run : pc'[s] # "idle" /\ on'[s] = o <=> s = r
      BY <1>1, <2>1 DEF Active, OtherRuns
    <2>3. Active(on[r])' = {r}
      BY <1>1, <2>2 DEF Active
    <2>4. Rows(o)' = Rows(o)
      BY DEF Rows
    <2>5. QED
      BY <1>1, <1>2, <2>3, <2>4 DEF Undisturbed
  <1>7. \A i \in had'[o] : url'[i] # NoUrl
    BY <1>2, ConstantsAssumption DEF Rows, Bound
  <1>8. Settled(o)'
    BY <1>2 DEF Settled
  <1>9. QED
    BY <1>1, <1>2, <1>3, <1>5, <1>6, <1>7, <1>8, SettledStep

\* A run goes on with its owner, whose rows are not settled.
LEMMA RunGoesOn ==
  ASSUME IInv, SettledInv, KeepsUrls, NEW r \in Run, pc[r] # "idle",
         OtherRuns(r), UNCHANGED <<alone, had, settled>>, on'[r] = on[r], pc'[r] # "idle",
         \A p \in Owner \ {on[r]} : \A i \in Id : owner'[i] = p <=> owner[i] = p,
         r \in alone => Undisturbed(r)'
  PROVE  SettledInv'
  <1> USE DEF IInv, TypeOK
  <1>1. settled[on[r]] = {} /\ \A s \in alone : Active(on[s]) = {s}
    BY DEF SettledInv
  <1>2. OtherOwners(on[r])
    BY DEF OtherOwners
  <1>3. ASSUME NEW s \in alone, s # r PROVE on[s] # on[r]
    BY <1>1, <1>3 DEF Active
  <1>4. ASSUME r \in alone PROVE Active(on[r])' = {r}
    <2>1. Active(on[r])' = Active(on[r])
      BY DEF Active, OtherRuns
    <2>2. QED
      BY <1>1, <1>4, <2>1
  <1>5. \A i \in had[on[r]] : i \in Id /\ url[i] # NoUrl
    BY DEF SettledInv
  <1>6. \A i \in had'[on[r]] : url'[i] # NoUrl
    BY <1>5 DEF KeepsUrls
  <1>7. PICK o \in Owner : o = on[r]
    OBVIOUS
  <1>8. Settled(o)'
    BY <1>1, <1>7 DEF Settled
  <1>9. QED
    BY <1>1, <1>2, <1>3, <1>4, <1>6, <1>7, <1>8, SettledStep

\* A run ends: if undisturbed, its last step may settle its rows.
LEMMA RunEnds ==
  ASSUME IInv, SettledInv, NEW r \in Run, pc[r] # "idle", Leave(r),
         NEW o \in Owner, on[r] = o, UNCHANGED <<owner, url, had>>,
         \E new : settled' = [settled EXCEPT ![o] = new] /\ (new # {} => r \in alone),
         Settled(o)'
  PROVE  SettledInv'
  <1> USE DEF IInv, TypeOK
  <1>1. /\ pc'[r] = "idle" /\ OtherRuns(r) /\ alone' = alone \ {r}
        /\ \A i \in Id : owner'[i] = owner[i]
    BY DEF Leave, OtherRuns
  <1>2. OtherOwners(o) /\ KeepsUrls
    <2>1. \A p \in Owner \ {o} : settled'[p] = settled[p]
      OBVIOUS
    <2>2. QED
      BY <1>1, <2>1 DEF OtherOwners, KeepsUrls
  <1>3. ASSUME NEW s \in alone, NEW q \in Active(on[s]) PROVE q = s
    <2>1. Active(on[s]) = {s}
      BY DEF SettledInv
    <2>2. QED
      BY <2>1
  <1>4. ASSUME NEW s \in alone', s # r PROVE s \in alone /\ on[s] # o
    BY <1>1, <1>3, <1>4 DEF Active
  <1>5. ASSUME NEW s \in Run, pc'[s] # "idle", on'[s] = o PROVE settled'[o] = {}
    <2>1. s # r /\ s \in Active(o)
      BY <1>1, <1>5 DEF OtherRuns, Active
    <2>2. r \notin alone
      BY <1>3, <2>1
    <2>3. QED
      BY <2>2
  <1>6. \A i \in had'[o] : url'[i] # NoUrl
    BY DEF SettledInv
  <1>7. QED
    BY <1>1, <1>2, <1>4, <1>5, <1>6, SettledStep

\* A run remembers a row for each link of the rows it meets.
LEMMA LoadRemembers ==
  ASSUME IInv, NEW r \in Run, Load(r), had[on[r]] = Rows(on[r])
  PROVE  Remembers(r)'
  <1> USE DEF IInv, TypeOK
  <1>1. PICK keep \in [Url -> Id \cup {0}] :
          /\ \A u \in Url :
               IF \E i \in Rows(on[r]) : url[i] = u
                 THEN keep[u] \in Rows(on[r]) /\ url[keep[u]] = u
                 ELSE keep[u] = 0
          /\ old' = [old EXCEPT ![r] =
               [u \in Url |-> IF keep[u] = 0 THEN NoEntry
                              ELSE [id |-> keep[u], path |-> path[keep[u]]]]]
    BY DEF Load
  <1>2. \A u \in Url : old'[r][u].id = keep[u]
    BY <1>1 DEF NoEntry
  <1>3. had' = had /\ on' = on /\ url' = url
    BY DEF Load, rowVars
  <1>4. \A u \in Url : keep[u] # 0 => keep[u] \in had[on[r]]
    BY <1>1
  <1>5. ASSUME NEW i \in had[on[r]] PROVE url[i] \in Url /\ keep[url[i]] # 0
    <2>1. i \in Rows(on[r]) /\ i \in Id /\ url[i] \in Url
      BY <1>5, ConstantsAssumption DEF Rows, Bound
    <2>2. keep[url[i]] \in Rows(on[r])
      BY <1>1, <2>1
    <2>3. QED
      BY <2>1, <2>2, IdFacts DEF Rows
  <1>6. QED
    BY <1>2, <1>3, <1>4, <1>5 DEF Remembers

\* What it remembers is not changed by changes to the rows.
LEMMA RemembersStill ==
  ASSUME IInv, SettledInv, KeepsUrls, NEW r \in Run, Remembers(r), UNCHANGED <<old, on, had>>
  PROVE  Remembers(r)'
  <1>1. \A i \in had[on[r]] : i \in Id /\ url[i] # NoUrl
    BY DEF IInv, TypeOK, SettledInv
  <1>2. QED
    BY <1>1 DEF Remembers, KeepsUrls

\* The text is stored; the rows are those the run met.
LEMMA StoreSettles ==
  ASSUME IInv, SettledInv, NEW r \in Run, Store(r)
  PROVE  SettledInv'
  <1>1. KeepsUrls /\ OtherRuns(r) /\ pc'[r] = "load" /\ pc[r] = "store"
        /\ UNCHANGED <<on, alone, had, settled, owner, url>>
    BY DEF Store, KeepsUrls, OtherRuns, rowVars, IInv, TypeOK
  <1>2. ASSUME r \in alone PROVE Undisturbed(r)'
    <2>1. had[on[r]] = Rows(on[r])
      BY <1>1, <1>2 DEF SettledInv, Undisturbed
    <2>2. (had[on[r]] = Rows(on[r]))'
      BY <1>1, <2>1 DEF Rows
    <2>3. QED
      BY <1>1, <2>2 DEF Undisturbed
  <1>3. QED
    BY <1>1, <1>2, RunGoesOn

\* It remembers the rows it meets ...
LEMMA LoadSettles ==
  ASSUME IInv, SettledInv, NEW r \in Run, Load(r)
  PROVE  SettledInv'
  <1>1. KeepsUrls /\ OtherRuns(r) /\ pc'[r] = "clear" /\ pc[r] = "load"
        /\ UNCHANGED <<on, alone, had, settled, owner, url>>
    BY DEF Load, KeepsUrls, OtherRuns, rowVars, IInv, TypeOK
  <1>2. ASSUME r \in alone PROVE Undisturbed(r)'
    <2>1. had[on[r]] = Rows(on[r])
      BY <1>1, <1>2 DEF SettledInv, Undisturbed
    <2>2. (had[on[r]] = Rows(on[r]))'
      BY <1>1, <2>1 DEF Rows
    <2>3. Remembers(r)'
      BY <2>1, LoadRemembers
    <2>4. QED
      BY <1>1, <2>2, <2>3 DEF Undisturbed
  <1>3. QED
    BY <1>1, <1>2, RunGoesOn

\* ... deletes them ...
LEMMA ClearSettles ==
  ASSUME IInv, SettledInv, NEW r \in Run, Clear(r)
  PROVE  SettledInv'
  <1> USE DEF IInv, TypeOK
  <1>1. KeepsUrls /\ OtherRuns(r) /\ pc'[r] = "insert" /\ pc[r] = "clear"
        /\ UNCHANGED <<on, alone, had, settled, old, links>> /\ todo'[r] = links[r]
    BY DEF Clear, KeepsUrls, OtherRuns
  <1>2. on[r] \in Owner /\ on[r] # NoOwner
    BY ConstantsAssumption
  <1>3. \A i \in Id : owner'[i] = IF owner[i] = on[r] THEN NoOwner ELSE owner[i]
    BY DEF Clear, Clears
  <1>4. \A p \in Owner \ {on[r]} : \A i \in Id : owner'[i] = p <=> owner[i] = p
    BY <1>3, ConstantsAssumption
  <1>5. ASSUME r \in alone PROVE Undisturbed(r)'
    <2>1. Remembers(r)
      BY <1>1, <1>5 DEF SettledInv, Undisturbed
    <2>2. Remembers(r)'
      BY <1>1, <2>1, RemembersStill
    <2>3. Rows(on[r])' = {}
      BY <1>1, <1>2, <1>3 DEF Rows
    <2>4. Rebuilt(r)'
      BY <1>1, <2>3 DEF Rebuilt
    <2>5. QED
      BY <1>1, <2>2, <2>4 DEF Undisturbed
  <1>6. QED
    BY <1>1, <1>4, <1>5, RunGoesOn

\* ... and puts one back for each link.
LEMMA InsertSettles ==
  ASSUME IInv, SettledInv, NEW r \in Run, NEW u \in Url, NEW i \in Id, Insert(r, u, i)
  PROVE  SettledInv'
  <1> USE DEF IInv, TypeOK
  <1>1. KeepsUrls /\ url'[i] = u
    BY UrlsStay
  <1>2. /\ OtherRuns(r) /\ pc'[r] = "insert" /\ pc[r] = "insert"
        /\ UNCHANGED <<on, alone, had, settled, old, links>>
        /\ todo'[r] = todo[r] \ {u} /\ u \in todo[r]
        /\ owner[i] = NoOwner /\ owner' = [owner EXCEPT ![i] = on[r]]
        /\ old[r][u].id # 0 => i = old[r][u].id
    BY DEF Insert, OtherRuns, IsIdFor
  <1>3. \A p \in Owner \ {on[r]} : \A j \in Id : owner'[j] = p <=> owner[j] = p
    BY <1>2, ConstantsAssumption
  <1>4. ASSUME r \in alone PROVE Undisturbed(r)'
    <2>1. Remembers(r) /\ Rebuilt(r)
      BY <1>2, <1>4 DEF SettledInv, Undisturbed
    <2>2. Remembers(r)'
      BY <1>1, <1>2, <2>1, RemembersStill
    <2>3. Rows(on[r])' = Rows(on[r]) \cup {i} /\ i \notin Rows(on[r])
      BY <1>2, ConstantsAssumption DEF Rows
    <2>4. \A j \in Rows(on[r]) : url'[j] = url[j] /\ url[j] \in links[r] \ todo[r]
      BY <1>1, <2>1, ConstantsAssumption DEF KeepsUrls, Rebuilt, Rows, Bound
    <2>5. u \in links[r] /\ todo[r] \subseteq links[r]
      BY <1>2, <2>1 DEF Rebuilt
    <2>6. Rebuilt(r)'
      <3>1. \A j \in Rows(on[r])' : url'[j] \in links[r] \ todo'[r]
        BY <1>1, <1>2, <2>3, <2>4, <2>5
      <3>2. ASSUME NEW j \in Rows(on[r])', NEW k \in Rows(on[r])', url'[j] = url'[k]
            PROVE  j = k
        <4>1. \A n \in Rows(on[r]) : url'[n] = url[n] /\ url'[n] # u
          BY <1>2, <2>4
        <4>2. \A n, m \in Rows(on[r]) : url[n] = url[m] => n = m
          BY <2>1 DEF Rebuilt
        <4>3. j \in Rows(on[r]) \cup {i} /\ k \in Rows(on[r]) \cup {i}
          BY <2>3
        <4>4. QED
          BY <1>1, <3>2, <4>1, <4>2, <4>3
      <3>3. ASSUME NEW v \in links[r] \ todo'[r]
            PROVE  /\ \E j \in Rows(on[r])' : url'[j] = v
                   /\ old[r][v].id # 0 => old[r][v].id \in Rows(on[r])'
        <4>1. CASE v = u
          BY <1>1, <1>2, <2>3, <4>1
        <4>2. CASE v # u
          <5>1. /\ \E j \in Rows(on[r]) : url[j] = v
                /\ old[r][v].id # 0 => old[r][v].id \in Rows(on[r])
            BY <1>2, <2>1, <3>3, <4>2 DEF Rebuilt
          <5>2. QED
            BY <2>3, <2>4, <5>1
        <4>3. QED
          BY <4>1, <4>2
      <3>4. todo'[r] \subseteq links[r]
        BY <1>2, <2>5
      <3>5. QED
        BY <1>2, <3>1, <3>2, <3>3, <3>4 DEF Rebuilt
    <2>7. QED
      BY <1>2, <2>2, <2>6 DEF Undisturbed
  <1>5. QED
    BY <1>1, <1>2, <1>3, <1>4, RunGoesOn

\* An undisturbed run that has inserted all its links has settled its rows.
LEMMA FinishSettles ==
  ASSUME IInv, SettledInv, NEW r \in Run, Finish(r)
  PROVE  SettledInv'
  <1> USE DEF IInv, TypeOK
  <1>1. PICK o \in Owner : o = on[r]
    OBVIOUS
  <1>2. /\ pc[r] = "insert" /\ todo[r] = {} /\ Leave(r) /\ UNCHANGED <<owner, url, had>>
        /\ settled' = [settled EXCEPT ![o] = IF r \in alone THEN {links[r]} ELSE {}]
    BY <1>1 DEF Finish, rowVars
  <1>3. settled'[o] = IF r \in alone THEN {links[r]} ELSE {}
    BY <1>2
  <1>4. ASSUME r \in alone PROVE Settled(o)'
    <2>1. Remembers(r) /\ Rebuilt(r)
      BY <1>2, <1>4 DEF SettledInv, Undisturbed
    <2>2. Rows(o)' = Rows(o)
      BY <1>2 DEF Rows
    <2>3. \A j \in Rows(o) : url[j] \in links[r]
      BY <1>1, <2>1 DEF Rebuilt
    <2>4. ASSUME NEW v \in links[r]
          PROVE  \E j \in Rows(o) : \A k \in Rows(o) : url[k] = v <=> k = j
      <3>1. PICK j \in Rows(o) : url[j] = v
        BY <1>1, <1>2, <2>1, <2>4 DEF Rebuilt
      <3>2. \A k \in Rows(o) : url[k] = v <=> k = j
        BY <1>1, <2>1, <3>1 DEF Rebuilt
      <3>3. QED
        BY <3>1, <3>2
    <2>5. ASSUME NEW j \in had[o], url[j] \in links[r]
          PROVE  \E k \in had[o] : url[k] = url[j] /\ owner[k] = o
      <3>1. PICK v \in Url : v = url[j]
        BY <2>5
      <3>2. PICK k : k = old[r][v].id
        OBVIOUS
      <3>3. k # 0 /\ k \in had[o]
        BY <1>1, <2>1, <2>5, <3>1, <3>2 DEF Remembers
      <3>4. k \in Rows(o)
        BY <1>1, <1>2, <2>1, <2>5, <3>1, <3>2, <3>3 DEF Rebuilt
      <3>5. url[k] = v
        BY <3>2, <3>3 DEF Bound
      <3>6. QED
        BY <3>1, <3>3, <3>4, <3>5 DEF Rows
    <2>6. QED
      BY <1>2, <1>3, <1>4, <2>2, <2>3, <2>4, <2>5 DEF Settled
  <1>5. ASSUME r \notin alone PROVE Settled(o)'
    BY <1>3, <1>5 DEF Settled
  <1>6. \E new : settled' = [settled EXCEPT ![o] = new] /\ (new # {} => r \in alone)
    BY <1>2
  <1>7. QED
    BY <1>1, <1>2, <1>4, <1>5, <1>6, RunEnds

\* One that fails settles nothing.
LEMMA FailureSettles ==
  ASSUME IInv, SettledInv, NEW r \in Run, FailRun(r) \/ \E u \in Url : Conflict(r, u)
  PROVE  SettledInv'
  <1> USE DEF IInv, TypeOK
  <1>1. PICK o \in Owner : o = on[r]
    OBVIOUS
  <1>2. pc[r] # "idle" /\ Leave(r) /\ UNCHANGED <<owner, url, had, settled>>
    BY DEF FailRun, Conflict, rowVars
  <1>3. settled[o] = {}
    BY <1>1, <1>2 DEF SettledInv
  <1>4. \E new : settled' = [settled EXCEPT ![o] = new] /\ (new # {} => r \in alone)
    BY <1>2, <1>3
  <1>5. Settled(o)'
    BY <1>2, <1>3 DEF Settled
  <1>6. QED
    BY <1>1, <1>2, <1>4, <1>5, RunEnds

\* At first nothing is settled.
LEMMA SettledInit == Init => SettledInv
  BY DEF Init, SettledInv, Settled

\* Every step keeps what is settled, and what undisturbed runs rely on.
LEMMA SettledNext == IInv /\ SettledInv /\ [Next]_vars => SettledInv'
  <1> SUFFICES ASSUME IInv, SettledInv, [Next]_vars PROVE SettledInv'
    OBVIOUS
  <1>1. CASE UNCHANGED <<owner, url, runVars>>
    BY <1>1 DEF runVars, SettledInv, Settled, Undisturbed, Remembers, Rebuilt, Active, Rows
  <1>2. ASSUME NEW r \in Run, View(r) PROVE SettledInv'
    BY <1>2, EnterSettles, IdFacts DEF View, rowVars
  <1>3. ASSUME NEW r \in Run, NEW o \in Owner, NEW ls \in SUBSET Url, Fetch(r, o, ls)
        PROVE  SettledInv'
    BY <1>3, EnterSettles DEF Fetch, rowVars
  <1>4. ASSUME NEW r \in Run,
               \/ Store(r) \/ Load(r) \/ Clear(r) \/ Finish(r) \/ FailRun(r)
               \/ \E u \in Url : Conflict(r, u) \/ \E i \in Id : Insert(r, u, i)
        PROVE  SettledInv'
    BY <1>4, StoreSettles, LoadSettles, ClearSettles, InsertSettles, FinishSettles,
       FailureSettles
  <1>5. CASE \/ UNCHANGED vars \/ \E p \in Path : Evict(p)
             \/ \E d \in Download :
                  \/ \E i \in Id : Lookup(d, i)
                  \/ ReadHit(d) \/ ReadMiss(d) \/ Forget(d) \/ WriteTemp(d) \/ Rename(d)
                  \/ Update(d) \/ SaveFails(d) \/ FetchFails(d) \/ GiveUp(d)
    BY <1>1, <1>5
       DEF vars, rowVars, Evict, Lookup, ReadHit, ReadMiss, Forget, WriteTemp, Rename, Update,
           SaveFails, FetchFails, GiveUp
  <1>6. QED
    BY <1>2, <1>3, <1>4, <1>5 DEF Next

\* So it holds always.
LEMMA SettledHolds == Spec => [](IInv /\ SettledInv)
  BY IInvInit, IInvStep, SettledInit, SettledNext, PTL DEF Spec

\* After a save that ran alone on its issue or comment, GitLab's links and the
\* rows are one to one, whatever overlapping, failed and dead saves did before.
THEOREM RowsMatch == Spec => []RowsMatchLinks
  <1>1. SettledInv => RowsMatchLinks
    BY DEF SettledInv, Settled, RowsMatchLinks
  <1>2. QED
    BY <1>1, SettledHolds, PTL

\* ... and each link that had a row when the save began has one of those it had:
\* the address that a client was given still works.
THEOREM AddressesKept == Spec => []AddressesAreKept
  <1>1. SettledInv => AddressesAreKept
    BY DEF SettledInv, Settled, AddressesAreKept
  <1>2. QED
    BY <1>1, SettledHolds, PTL

=============================================================================
