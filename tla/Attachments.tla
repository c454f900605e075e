----------------------------- MODULE Attachments -----------------------------
(***************************************************************************)
(* Attachments whose authority is GitLab.  Their rows are rebuilt from the *)
(* links in the text of an issue or comment (issue_sync.rs) by every GET   *)
(* of the issue and every synchronisation; their bytes are fetched through *)
(* a download and kept in a cache directory (routes/attachments.rs).  One  *)
(* action is one SQL statement, one request to GitLab or one operation on  *)
(* a file.  Definitions marked `Slip` are the next definition with one     *)
(* plausible mistake.                                                      *)
(***************************************************************************)
EXTENDS Naturals

CONSTANTS
  Owner,        \* an issue and its comments: texts that hold links
  Issue,        \* the issue among them
  Url,          \* absolute upload URLs; also stands for the bytes behind them
  NoUrl, NoOwner, Partial,
  Run,          \* requests and jobs that rebuild the rows of one owner
  Download,     \* requests for the bytes of an attachment
  MaxIds,       \* bound: attachment ids that are ever made
  MaxFailures   \* bound: runs that fail or die

ASSUME ConstantsAssumption ==
  /\ Issue \in Owner /\ NoOwner \notin Owner
  /\ NoUrl \notin Url /\ Partial \notin Url /\ NoUrl # Partial
  /\ MaxIds \in Nat \ {0} /\ MaxFailures \in Nat

Id == 1 .. MaxIds
Path == Id \cup {0}   \* cache files; 0 is NULL

\* What existing_gitlab_issue_attachments remembers of a row; id 0: no row.
Entry == [id : Id \cup {0}, path : Path]
NoEntry == [id |-> 0, path |-> 0]

VARIABLES
  text,      \* links in description or body_raw
  owner,     \* the owner of each row of issue_attachments, NoOwner: no such row
  url,       \* its external_url; of a deleted row, the one it had
  path,      \* its storage_path
  file,      \* the cache directory
  evicted,   \* paths whose file was removed from outside, at least once
  pc, on,    \* where each run is, and the owner it works on
  links,     \* the links it parsed
  old,       \* the rows it found, by URL
  todo,      \* links it has still to insert
  alone,     \* runs with no other run on their owner, so far
  had,       \* the rows that the last undisturbed run on each owner met
  settled,   \* the set of the links it ended with; {}: none ended so, or one began since
  dpc, got,  \* where each download is, and its copy of the row
  failures

rowVars == <<owner, url, path>>
cacheVars == <<file, evicted>>
runVars == <<text, pc, on, links, old, todo, alone, had, settled, failures>>
downloadVars == <<dpc, got>>
vars == <<rowVars, cacheVars, runVars, downloadVars>>

NoRow == [id |-> 0, url |-> NoUrl, path |-> 0]

\* Texts may hold links already, of an import that died before it stored rows.
Init ==
  /\ text \in [Owner -> SUBSET Url]
  /\ owner = [i \in Id |-> NoOwner]
  /\ url = [i \in Id |-> NoUrl]
  /\ path = [i \in Id |-> 0]
  /\ file = [p \in Path |-> NoUrl]
  /\ evicted = {}
  /\ pc = [r \in Run |-> "idle"]
  /\ on = [r \in Run |-> Issue]
  /\ links = [r \in Run |-> {}]
  /\ old = [r \in Run |-> [u \in Url |-> NoEntry]]
  /\ todo = [r \in Run |-> {}]
  /\ alone = {}
  /\ had = [o \in Owner |-> {}]
  /\ settled = [o \in Owner |-> {}]
  /\ dpc = [d \in Download |-> "idle"]
  /\ got = [d \in Download |-> NoRow]
  /\ failures = 0

(***************************************************************************)
(* Runs.                                                                   *)
(***************************************************************************)
Rows(o) == {i \in Id : owner[i] = o}

Active(o) == {r \in Run : pc[r] # "idle" /\ on[r] = o}

\* Bookkeeping for the properties: does the run have its owner to itself?
Enter(r, o) ==
  /\ on' = [on EXCEPT ![r] = o]
  /\ alone' = (alone \ (Active(o) \cup {r})) \cup (IF Active(o) = {} THEN {r} ELSE {})
  /\ had' = [had EXCEPT ![o] = Rows(o)]
  /\ settled' = [settled EXCEPT ![o] = {}]

\* The run ends: what it knew is forgotten.
Leave(r) ==
  /\ pc' = [pc EXCEPT ![r] = "idle"]
  /\ on' = [on EXCEPT ![r] = Issue]
  /\ links' = [links EXCEPT ![r] = {}]
  /\ old' = [old EXCEPT ![r] = [u \in Url |-> NoEntry]]
  /\ todo' = [todo EXCEPT ![r] = {}]
  /\ alone' = alone \ {r}

\* get_issue_detail: the links of the text as it is stored.
View(r) ==
  /\ pc[r] = "idle"
  /\ Enter(r, Issue)
  /\ pc' = [pc EXCEPT ![r] = "load"]
  /\ links' = [links EXCEPT ![r] = text[Issue]]
  /\ UNCHANGED <<text, old, todo, failures, rowVars, cacheVars, downloadVars>>

\* A synchronisation, an update or a post: the text as GitLab has it now ...
Fetch(r, o, ls) ==
  /\ pc[r] = "idle"
  /\ Enter(r, o)
  /\ pc' = [pc EXCEPT ![r] = "store"]
  /\ links' = [links EXCEPT ![r] = ls]
  /\ UNCHANGED <<text, old, todo, failures, rowVars, cacheVars, downloadVars>>

\* ... is stored first.
Store(r) ==
  /\ pc[r] = "store"
  /\ text' = [text EXCEPT ![on[r]] = links[r]]
  /\ pc' = [pc EXCEPT ![r] = "load"]
  /\ UNCHANGED <<on, links, old, todo, alone, had, settled, failures, rowVars, cacheVars,
                 downloadVars>>

\* Slip: of the rows only what the answer shows is remembered, not the ids.
LoadNothing(r) ==
  /\ pc[r] = "load"
  /\ old' = [old EXCEPT ![r] = [u \in Url |-> NoEntry]]
  /\ pc' = [pc EXCEPT ![r] = "clear"]
  /\ UNCHANGED <<text, on, links, todo, alone, had, settled, failures, rowVars, cacheVars,
                 downloadVars>>

\* The rows by URL; of two with the same one, the map keeps the last it meets.
Load(r) ==
  /\ pc[r] = "load"
  /\ \E keep \in [Url -> Id \cup {0}] :
       /\ \A u \in Url :
            IF \E i \in Rows(on[r]) : url[i] = u
              THEN keep[u] \in Rows(on[r]) /\ url[keep[u]] = u
              ELSE keep[u] = 0
       /\ old' = [old EXCEPT ![r] =
            [u \in Url |-> IF keep[u] = 0 THEN NoEntry
                           ELSE [id |-> keep[u], path |-> path[keep[u]]]]]
  /\ pc' = [pc EXCEPT ![r] = "clear"]
  /\ UNCHANGED <<text, on, links, todo, alone, had, settled, failures, rowVars, cacheVars,
                 downloadVars>>

\* Slip: the DELETE of an issue lacks comment_id IS NULL.
ClearsComments(r, i) == owner[i] = on[r] \/ (on[r] = Issue /\ owner[i] # NoOwner)

\* DELETE FROM issue_attachments of the owner.
Clears(r, i) == owner[i] = on[r]

Clear(r) ==
  /\ pc[r] = "clear"
  /\ owner' = [i \in Id |-> IF Clears(r, i) THEN NoOwner ELSE owner[i]]
  /\ path' = [i \in Id |-> IF Clears(r, i) THEN 0 ELSE path[i]]
  /\ todo' = [todo EXCEPT ![r] = links[r]]
  /\ pc' = [pc EXCEPT ![r] = "insert"]
  /\ UNCHANGED <<text, on, links, old, alone, had, settled, failures, url, cacheVars,
                 downloadVars>>

\* Uuid::new_v4: an id that no row has had.
IsFresh(i) == url[i] = NoUrl /\ \A j \in Id : j < i => url[j] # NoUrl

\* The id of the row for a link: that of the row found, else a new one.
IsIdFor(r, u, i) == IF old[r][u].id # 0 THEN i = old[r][u].id ELSE IsFresh(i)

Insert(r, u, i) ==
  /\ pc[r] = "insert" /\ u \in todo[r]
  /\ IsIdFor(r, u, i) /\ owner[i] = NoOwner
  /\ owner' = [owner EXCEPT ![i] = on[r]]
  /\ url' = [url EXCEPT ![i] = u]
  /\ path' = [path EXCEPT ![i] = old[r][u].path]
  /\ todo' = [todo EXCEPT ![r] = @ \ {u}]
  /\ UNCHANGED <<text, pc, on, links, old, alone, had, settled, failures, cacheVars,
                 downloadVars>>

\* Another run has put the same id back already: the primary key refuses it.
Conflict(r, u) ==
  /\ pc[r] = "insert" /\ u \in todo[r]
  /\ old[r][u].id # 0 /\ owner[old[r][u].id] # NoOwner
  /\ Leave(r)
  /\ UNCHANGED <<text, had, settled, failures, rowVars, cacheVars, downloadVars>>

Finish(r) ==
  /\ pc[r] = "insert" /\ todo[r] = {}
  /\ Leave(r)
  /\ settled' = [settled EXCEPT ![on[r]] = IF r \in alone THEN {links[r]} ELSE {}]
  /\ UNCHANGED <<text, had, failures, rowVars, cacheVars, downloadVars>>

\* A statement fails, or the process dies, between any two steps.
FailRun(r) ==
  /\ pc[r] # "idle"
  /\ failures < MaxFailures
  /\ failures' = failures + 1
  /\ Leave(r)
  /\ UNCHANGED <<text, had, settled, rowVars, cacheVars, downloadVars>>

(***************************************************************************)
(* Downloads.                                                              *)
(***************************************************************************)
Step(d, at) == dpc' = [dpc EXCEPT ![d] = at]

\* The download answers: with the bytes of the file, or those from GitLab, or
\* none.
Answer(d) ==
  /\ Step(d, "idle")
  /\ got' = [got EXCEPT ![d] = NoRow]

\* The row by id; without it, or without permission, the answer is 404.
Lookup(d, i) ==
  /\ dpc[d] = "idle" /\ owner[i] # NoOwner
  /\ got' = [got EXCEPT ![d] = [id |-> i, url |-> url[i], path |-> path[i]]]
  /\ Step(d, IF path[i] = 0 THEN "fetch" ELSE "read")
  /\ UNCHANGED <<rowVars, cacheVars, runVars>>

ReadHit(d) ==
  /\ dpc[d] = "read" /\ file[got[d].path] # NoUrl
  /\ Answer(d)
  /\ UNCHANGED <<rowVars, cacheVars, runVars>>

\* The file is gone, or cannot be read.
ReadMiss(d) ==
  /\ dpc[d] = "read"
  /\ Step(d, "forget")
  /\ UNCHANGED <<got, rowVars, cacheVars, runVars>>

SetPath(i, p) == path' = [path EXCEPT ![i] = IF owner[i] # NoOwner THEN p ELSE @]

\* record_gitlab_cache_missing, record_gitlab_cache_error; then GitLab is asked.
Forget(d) ==
  /\ dpc[d] = "forget"
  /\ SetPath(got[d].id, 0)
  /\ Step(d, "fetch")
  /\ UNCHANGED <<got, owner, url, cacheVars, runVars>>

\* Slip: file names repeat, "image.png" above all.
CachePathByName(i) == 1

\* gitlab_attachment_cache_path
CachePath(i) == i

\* Slip: the bytes are written to the file itself.
WriteInPlace(d) ==
  /\ dpc[d] = "fetch"
  /\ file' = [file EXCEPT ![CachePath(got[d].id)] = Partial]
  /\ Step(d, "rename")
  /\ UNCHANGED <<got, evicted, rowVars, runVars>>

\* GitLab answers; the bytes go to a temporary file of their own ...
WriteTemp(d) ==
  /\ dpc[d] = "fetch"
  /\ Step(d, "rename")
  /\ UNCHANGED <<got, rowVars, cacheVars, runVars>>

\* ... which is renamed.
Rename(d) ==
  /\ dpc[d] = "rename"
  /\ file' = [file EXCEPT ![CachePath(got[d].id)] = got[d].url]
  /\ Step(d, "update")
  /\ UNCHANGED <<got, evicted, rowVars, runVars>>

\* The row learns its path, if there still is one; the bytes are served anyway.
Update(d) ==
  /\ dpc[d] = "update"
  /\ SetPath(got[d].id, CachePath(got[d].id))
  /\ Answer(d)
  /\ UNCHANGED <<owner, url, cacheVars, runVars>>

\* Slip: the bytes are there, so the row may say so.
SaveFailsUpdate(d) ==
  /\ dpc[d] = "rename"
  /\ SetPath(got[d].id, CachePath(got[d].id))
  /\ Answer(d)
  /\ UNCHANGED <<owner, url, cacheVars, runVars>>

\* The cache cannot be written: "cache_write_failed".
SaveFails(d) ==
  /\ dpc[d] = "rename"
  /\ SetPath(got[d].id, 0)
  /\ Answer(d)
  /\ UNCHANGED <<owner, url, cacheVars, runVars>>

\* GitLab does not answer: "remote_fetch_failed", 502.
FetchFails(d) ==
  /\ dpc[d] = "fetch"
  /\ SetPath(got[d].id, 0)
  /\ Answer(d)
  /\ UNCHANGED <<owner, url, cacheVars, runVars>>

\* A token or URL is missing, a statement fails, or the API dies.
GiveUp(d) ==
  /\ dpc[d] # "idle"
  /\ Answer(d)
  /\ UNCHANGED <<rowVars, cacheVars, runVars>>

\* The cache directory is no authority: its files may vanish.
Evict(p) ==
  /\ file[p] # NoUrl
  /\ file' = [file EXCEPT ![p] = NoUrl]
  /\ evicted' = evicted \cup {p}
  /\ UNCHANGED <<rowVars, runVars, downloadVars>>

-----------------------------------------------------------------------------
Next ==
  \/ \E r \in Run :
       \/ View(r) \/ \E o \in Owner, ls \in SUBSET Url : Fetch(r, o, ls)
       \/ Store(r) \/ Load(r) \/ Clear(r) \/ Finish(r) \/ FailRun(r)
       \/ \E u \in Url : Conflict(r, u) \/ \E i \in Id : Insert(r, u, i)
  \/ \E d \in Download :
       \/ \E i \in Id : Lookup(d, i)
       \/ ReadHit(d) \/ ReadMiss(d) \/ Forget(d) \/ WriteTemp(d) \/ Rename(d) \/ Update(d)
       \/ SaveFails(d) \/ FetchFails(d) \/ GiveUp(d)
  \/ \E p \in Path : Evict(p)

Spec == Init /\ [][Next]_vars

-----------------------------------------------------------------------------
\* Rows, cache, runs and downloads have their types.
TypeOK ==
  /\ text \in [Owner -> SUBSET Url]
  /\ owner \in [Id -> Owner \cup {NoOwner}]
  /\ url \in [Id -> Url \cup {NoUrl}]
  /\ path \in [Id -> Path]
  /\ file \in [Path -> Url \cup {NoUrl}]
  /\ evicted \subseteq Path
  /\ pc \in [Run -> {"idle", "store", "load", "clear", "insert"}]
  /\ on \in [Run -> Owner]
  /\ links \in [Run -> SUBSET Url] /\ todo \in [Run -> SUBSET Url]
  /\ old \in [Run -> [Url -> Entry]]
  /\ alone \subseteq Run
  /\ had \in [Owner -> SUBSET Id]
  /\ settled \in [Owner -> SUBSET SUBSET Url]
  /\ dpc \in [Download -> {"idle", "read", "forget", "fetch", "rename", "update"}]
  /\ got \in [Download -> [id : Id \cup {0}, url : Url \cup {NoUrl}, path : Path]]
  /\ failures \in Nat

\* A download that reads a cache file finds the bytes of the link its row had,
\* whatever other downloads, runs and the cache directory do meanwhile.
ServedMatches ==
  \A d \in Download : dpc[d] = "read" => file[got[d].path] \in {NoUrl, got[d].url}

\* A row that names a cache file is right: the file was stored, even if the row
\* was deleted and inserted again meanwhile with what a run had remembered.
CachedIsStored ==
  \A i \in Id : path[i] # 0 => file[path[i]] \in {url[i]} \ {NoUrl} \/ path[i] \in evicted

\* One undisturbed run puts the rows right, whatever overlapping or failed
\* runs have left behind: one row for each link of its owner.
RowsMatchLinks ==
  \A o \in Owner : \A ls \in settled[o] :
    /\ \A i \in Rows(o) : url[i] \in ls
    /\ \A u \in ls : \E i \in Rows(o) : \A j \in Rows(o) : url[j] = u <=> j = i

\* ... and clients that know the address of one of the rows it met can still
\* use it, or that of another row for the same link.
AddressesAreKept ==
  \A o \in Owner : \A ls \in settled[o] :
    \A i \in had[o] : url[i] \in ls =>
      \E j \in had[o] : url[j] = url[i] /\ owner[j] = o
=============================================================================
