------------------------------ MODULE MCAccess ------------------------------
EXTENDS Access, Naturals, FiniteSets, TLC

CONSTANTS u1, p1, i1, t1, t2, t3

MCUser == {u1}
MCProject == {p1}
MCIssue == {i1}
MCProjectOf == [i \in MCIssue |-> p1]
MCTx == {t1, t2, t3}
MCSymmetry == Permutations(MCTx)

Started == {t \in Tx : pc[t] # "idle"}

\* Bounds: of two transactions that overlap, or of three, each asks for one
\* weakest or strongest permission at most.
Modest(t) == Cardinality(list[t]) <= 1 /\ \A e \in list[t] : e.permission \in {"view", "read", "admin"}

Bounds ==
  /\ Cardinality({t \in Tx : Running(t)}) <= 2
  /\ Cardinality({t \in Tx : Running(t)}) = 2 \/ Started = Tx => \A t \in Tx : Modest(t)

MCSpec == Init /\ [][/\ Next
                     /\ Bounds'
                     /\ UNCHANGED <<active, admin>> \/ Started' = {} \/ member' # member]_vars
=============================================================================
