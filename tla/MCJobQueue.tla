----------------------------- MODULE MCJobQueue -----------------------------
(***************************************************************************)
(* Finite instances of JobQueue for TLC.                                   *)
(***************************************************************************)
EXTENDS JobQueue, FiniteSets, TLC

CONSTANTS w1, w2, hook, invite, plain, plain2

NoJobs    == {}
OneWorker == {w1}
TwoWorkers == {w1, w2}
Hooks   == {hook}
Invites == {invite}
Plains  == {plain}
TwoPlains == {plain, plain2}

\* Requests of both kinds, but only one row at a time comes into being.
OneKey == Cardinality({j \in Job : requested[j] > 0}) <= 1
OneKeySpec == Init /\ [][Next /\ OneKey']_vars /\ Fairness

WorkerSymmetry == Permutations(Worker)
PlainSymmetry == Permutations(Worker) \cup Permutations(PlainJob)

=============================================================================
