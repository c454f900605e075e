---------------------------- MODULE BoundedRetry ----------------------------
(***************************************************************************)
(* What a queue with retries promises for one kind of work item: it is     *)
(* started at most MaxAttempts times and never twice at once, the work is  *)
(* done at least once before the item is closed as `done`, it is given up  *)
(* only with the budget used, and a closed item stays closed.              *)
(***************************************************************************)
EXTENDS Naturals

CONSTANTS Item, MaxAttempts

VARIABLES
  phase,   \* "none", "open", "done" or "dead"
  tries,   \* how often the item was started
  busy,    \* a try is under way (or its runner died)
  worked   \* the work has been carried out at least once

vars == <<phase, tries, busy, worked>>

Init ==
  /\ phase = [i \in Item |-> "none"]
  /\ tries = [i \in Item |-> 0]
  /\ busy = [i \in Item |-> FALSE]
  /\ worked = [i \in Item |-> FALSE]

Submit(i) ==
  /\ phase[i] = "none"
  /\ phase' = [phase EXCEPT ![i] = "open"]
  /\ UNCHANGED <<tries, busy, worked>>

Start(i) ==
  /\ phase[i] = "open" /\ ~busy[i] /\ tries[i] < MaxAttempts
  /\ tries' = [tries EXCEPT ![i] = @ + 1]
  /\ busy' = [busy EXCEPT ![i] = TRUE]
  /\ UNCHANGED <<phase, worked>>

Work(i) ==
  /\ busy[i]
  /\ worked' = [worked EXCEPT ![i] = TRUE]
  /\ UNCHANGED <<phase, tries, busy>>

Complete(i) ==
  /\ busy[i] /\ worked[i]
  /\ phase' = [phase EXCEPT ![i] = "done"]
  /\ busy' = [busy EXCEPT ![i] = FALSE]
  /\ UNCHANGED <<tries, worked>>

\* The tries of all items of S end without success at once (a sweep over
\* expired locks ends several).
Fail(S) ==
  /\ \A i \in S : busy[i]
  /\ busy' = [i \in Item |-> i \notin S /\ busy[i]]
  /\ phase' = [i \in Item |->
       IF i \in S /\ tries[i] >= MaxAttempts THEN "dead" ELSE phase[i]]
  /\ UNCHANGED <<tries, worked>>

Next ==
  \/ \E i \in Item : Submit(i) \/ Start(i) \/ Work(i) \/ Complete(i)
  \/ \E S \in SUBSET Item : Fail(S)

Spec == Init /\ [][Next]_vars

=============================================================================
