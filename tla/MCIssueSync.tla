----------------------------- MODULE MCIssueSync -----------------------------
(***************************************************************************)
(* Finite instances of IssueSync for TLC.                                  *)
(***************************************************************************)
EXTENDS IssueSync, TLC

CONSTANTS p1, p2, a1

OneProc == {p1}
TwoProcs == {p1, p2}
OneApiIssue == {a1}

Symmetry == Permutations(Proc)

\* Without the histories that no guard reads, and of the run's properties none but
\* TypeOK.
MappingView == <<enabled, gitlab, rowVars, queueVars, op, maker, doubled, edits, failures>>
TextView == <<enabled, gitlab, rowVars, queueVars, op, crossed, blurred, edits, failures>>

=============================================================================
