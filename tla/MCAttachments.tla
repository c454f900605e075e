---------------------------- MODULE MCAttachments ----------------------------
EXTENDS Attachments, FiniteSets, TLC

CONSTANTS comment, u1, u2, r1, r2, d1, d2

MCOwner == {Issue, comment}
MCUrl == {u1, u2}
MCRun == {r1, r2}
MCDownload == {d1, d2}
MCSymmetry == Permutations(MCUrl) \cup Permutations(MCRun) \cup Permutations(MCDownload)

\* Bound: overlapping and failing runs on an issue and a comment, which may
\* have one link, while nothing is downloaded; or downloads beside one run at a
\* time on an issue with two links and two ids, or two of them beside none.
Undownloaded ==
  /\ evicted = {} /\ \A p \in Path : file[p] = NoUrl
  /\ \A d \in Download : dpc[d] = "idle"
  /\ Cardinality(UNION ({text[o] : o \in Owner} \cup {links[r] : r \in Run})) <= 1
  /\ \A i, j \in Id : url[i] # NoUrl /\ url[j] # NoUrl => url[i] = url[j]

OneRun ==
  /\ Cardinality(Active(Issue)) + Cardinality({d \in Download : dpc[d] # "idle"}) <= 2
  /\ Cardinality(Active(Issue)) <= 1 /\ Active(comment) = {}
  /\ text[comment] = {} /\ Rows(comment) = {} /\ settled[comment] = {}
  /\ failures = 0
  /\ url[3] = NoUrl

MCSpec == Init /\ [][Next /\ (Undownloaded \/ OneRun)']_vars
=============================================================================
