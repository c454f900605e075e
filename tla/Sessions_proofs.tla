--------------------------- MODULE Sessions_proofs ---------------------------
(***************************************************************************)
(* Theorems about Sessions for all calls, sessions and tokens.             *)
(***************************************************************************)
EXTENDS Sessions, TLAPS

Steps == {"idle", "open", "change", "set", "mark", "sweep"}

TypeInv ==
  /\ password \in Nat /\ swept \in Nat
  /\ session \in [Session -> Nat \cup {None}]
  /\ token \in [Token -> {"absent", "valid", "used", "expired"}]
  /\ pc \in [Call -> Steps]
  /\ with \in [Call -> Nat \cup {None}]
  /\ reset \in [Call -> {{}} \cup {{k} : k \in Token}]
  /\ sets \in [Token -> Nat]
  /\ \A c \in Call : /\ pc[c] = "open" => with[c] \in Nat
                     /\ pc[c] \in {"idle", "open", "change"} => reset[c] = {}

\* What each step of a reset does to the step of its call.
LEMMA Order ==
  /\ Then("find") = "set" /\ Then("set") = "mark"
  /\ Then("mark") = "sweep" /\ Then("sweep") = "idle"
  BY DEF Then

\* The steps of a reset that are not its last.
LEMMA SetGoes ==
  ASSUME NEW c \in Call, Set(c)
  PROVE  /\ pc[c] = "set" /\ pc' = [pc EXCEPT ![c] = "mark"]
         /\ password' = password + 1
         /\ sets' = [k \in Token |-> IF reset[c] = {k} THEN sets[k] + 1 ELSE sets[k]]
         /\ UNCHANGED <<session, token, with, reset, swept, overtaken, late, failed>>
  BY Order DEF Set, Goes

LEMMA MarkGoes ==
  ASSUME NEW c \in Call, Mark(c)
  PROVE  /\ pc[c] = "mark" /\ pc' = [pc EXCEPT ![c] = "sweep"]
         /\ token' = [k \in Token |-> IF reset[c] = {k} THEN "used" ELSE token[k]]
         /\ UNCHANGED <<password, session, with, reset, swept, sets, overtaken, late, failed>>
  BY Order DEF Mark, Goes

LEMMA SweepEnds ==
  ASSUME NEW c \in Call, Sweep(c)
  PROVE  /\ pc[c] = "sweep" /\ pc' = [pc EXCEPT ![c] = "idle"]
         /\ session' = [s \in Session |-> None]
         /\ swept' = password' /\ overtaken' = {d \in Call : pc[d] = "open"}
         /\ with' = [with EXCEPT ![c] = None] /\ reset' = [reset EXCEPT ![c] = {}]
         /\ UNCHANGED <<password, token, sets, late, failed>>
  BY Order DEF Sweep, Goes, Forget

LEMMA TypeInvInit == Init => TypeInv
  BY DEF Init, TypeInv, Steps, None

LEMMA TypeInvStep == TypeInv /\ [Next]_vars => TypeInv'
  <1> SUFFICES ASSUME TypeInv, [Next]_vars PROVE TypeInv'
    OBVIOUS
  <1> USE DEF TypeInv, Steps, None
  <1>1. CASE UNCHANGED vars
    BY <1>1 DEF vars
  <1>2. ASSUME NEW c \in Call, Login(c) PROVE TypeInv'
    BY <1>2 DEF Login, Checks
  <1>3. ASSUME NEW c \in Call, NEW s \in Session, Open(c, s) PROVE TypeInv'
    BY <1>3 DEF Open, Ends, Forget
  <1>4. ASSUME NEW c \in Call, NEW s \in Session, Verify(c, s) PROVE TypeInv'
    BY <1>4 DEF Verify, Checks
  <1>5. ASSUME NEW c \in Call, Change(c) PROVE TypeInv'
    BY <1>5 DEF Change, Ends, Forget
  <1>6. ASSUME NEW c \in Call, NEW k \in Token, Find(c, k) PROVE TypeInv'
    BY <1>6, Order DEF Find
  <1>7. ASSUME NEW c \in Call, Set(c) PROVE TypeInv'
    <2>1. \A k \in Token : sets'[k] \in Nat
      BY <1>7, SetGoes
    <2>2. sets' \in [Token -> Nat]
      BY <1>7, <2>1, SetGoes
    <2>3. QED
      BY <1>7, <2>2, SetGoes
  <1>8. ASSUME NEW c \in Call, Mark(c) PROVE TypeInv'
    BY <1>8, MarkGoes
  <1>9. ASSUME NEW c \in Call, Sweep(c) PROVE TypeInv'
    BY <1>9, SweepEnds
  <1>10. ASSUME NEW c \in Call, Fail(c) PROVE TypeInv'
    BY <1>10 DEF Fail, Ends, Forget
  <1>11. CASE SetActive \/ (\E s \in Session : Logout(s))
              \/ \E k \in Token : Recover(k) \/ Expire(k)
    BY <1>11 DEF SetActive, Logout, Recover, Expire
  <1>12. QED
    BY <1>1, <1>2, <1>3, <1>4, <1>5, <1>6, <1>7, <1>8, <1>9, <1>10, <1>11 DEF Next

-----------------------------------------------------------------------------
(***************************************************************************)
(* The sessions.  A login that no reset has overtaken has checked a        *)
(* password at least as new as the one that the last reset set.            *)
(***************************************************************************)
FreshInv ==
  /\ TypeInv
  /\ swept <= password
  /\ \A c \in Call \ overtaken : pc[c] = "open" => with[c] >= swept
  /\ ResetEndsSessions

LEMMA FreshStep == FreshInv /\ [Next]_vars => FreshInv'
  <1> SUFFICES ASSUME FreshInv, [Next]_vars PROVE FreshInv'
    OBVIOUS
  <1>0. TypeInv'
    BY TypeInvStep DEF FreshInv
  <1> USE <1>0 DEF FreshInv, ResetEndsSessions
  <1>1. CASE UNCHANGED vars
    BY <1>1 DEF vars
  <1>2. ASSUME NEW c \in Call, Login(c) \/ \E s \in Session : Verify(c, s) PROVE FreshInv'
    BY <1>2 DEF Login, Verify, Checks, TypeInv
  <1>3. ASSUME NEW c \in Call, NEW s \in Session, Open(c, s) PROVE FreshInv'
    BY <1>3 DEF Open, Ends, Forget, TypeInv
  <1>4. ASSUME NEW c \in Call, Change(c) PROVE FreshInv'
    BY <1>4 DEF Change, Ends, Forget, TypeInv
  <1>5. ASSUME NEW c \in Call, NEW k \in Token, Find(c, k) PROVE FreshInv'
    BY <1>5, Order DEF Find, TypeInv
  <1>6. ASSUME NEW c \in Call, Set(c) PROVE FreshInv'
    BY <1>6, SetGoes DEF TypeInv
  <1>7. ASSUME NEW c \in Call, Mark(c) PROVE FreshInv'
    BY <1>7, MarkGoes DEF TypeInv
  <1>8. ASSUME NEW c \in Call, Sweep(c) PROVE FreshInv'
    BY <1>8, SweepEnds DEF TypeInv
  <1>9. ASSUME NEW c \in Call, Fail(c) PROVE FreshInv'
    BY <1>9 DEF Fail, Ends, Forget, TypeInv
  <1>10. CASE SetActive \/ (\E s \in Session : Logout(s))
              \/ \E k \in Token : Recover(k) \/ Expire(k)
    BY <1>10 DEF SetActive, Logout, Recover, Expire, TypeInv
  <1>11. QED
    BY <1>1, <1>2, <1>3, <1>4, <1>5, <1>6, <1>7, <1>8, <1>9, <1>10 DEF Next

\* After reset_password no session opened with an older password is left, for
\* any number of overlapping logins, changes and resets.
THEOREM ResetEnds == Spec => []ResetEndsSessions
  <1>1. Init => FreshInv
    BY TypeInvInit DEF Init, FreshInv, ResetEndsSessions
  <1>2. FreshInv => ResetEndsSessions
    BY DEF FreshInv
  <1>3. QED
    BY <1>1, <1>2, FreshStep, PTL DEF Spec

-----------------------------------------------------------------------------
(***************************************************************************)
(* The tokens.  Of a token that no reset has failed with or shared, the    *)
(* one call that uses it either has not set the password yet or will mark  *)
(* the token before anybody finds it again.                                *)
(***************************************************************************)
Uses(c, k, step) == reset[c] = {k} /\ pc[c] = step

Spent(k) ==
  /\ \A c, d \in Call : reset[c] = {k} /\ reset[d] = {k} => c = d
  /\ sets[k] <= 1
  /\ \A c \in Call : Uses(c, k, "set") => sets[k] = 0
  /\ token[k] = "absent" => sets[k] = 0 /\ \A c \in Call : reset[c] # {k}
  /\ token[k] = "valid" /\ sets[k] # 0 => \E c \in Call : Uses(c, k, "mark")

SpentInv == TypeInv /\ \A k \in Token \ failed : Spent(k)

\* Steps by which no call comes to use the token, and the one that is to mark
\* it, if there is one, still is or has.
LEMMA SpentKeeps ==
  ASSUME NEW k \in Token, Spent(k), sets'[k] = sets[k],
         \A c \in Call : reset'[c] = {k} =>
           reset[c] = {k} /\ (pc'[c] = "set" => pc[c] = "set"),
         \/ token'[k] \notin {"absent", "valid"}
         \/ /\ token'[k] = token[k]
            /\ \A c \in Call : Uses(c, k, "mark") => Uses(c, k, "mark")'
  PROVE  Spent(k)'
  <1>1. /\ \A c, d \in Call : reset'[c] = {k} /\ reset'[d] = {k} => c = d
        /\ sets'[k] <= 1
        /\ \A c \in Call : Uses(c, k, "set")' => sets'[k] = 0
    BY DEF Spent, Uses
  <1>2. token'[k] = "absent" => sets'[k] = 0 /\ \A c \in Call : reset'[c] # {k}
    BY DEF Spent
  <1>3. token'[k] = "valid" /\ sets'[k] # 0 => \E c \in Call : Uses(c, k, "mark")'
    BY DEF Spent
  <1>4. QED
    BY <1>1, <1>2, <1>3 DEF Spent

LEMMA SpentStep == SpentInv /\ [Next]_vars => SpentInv'
  <1> SUFFICES ASSUME SpentInv, [Next]_vars PROVE SpentInv'
    OBVIOUS
  <1> SUFFICES ASSUME NEW k \in Token \ failed' PROVE Spent(k)'
    BY TypeInvStep DEF SpentInv
  <1>1. CASE UNCHANGED vars
    <2>1. k \in Token \ failed /\ UNCHANGED <<token, reset, pc, sets>>
      BY <1>1 DEF vars
    <2>2. QED
      BY <2>1, SpentKeeps DEF SpentInv, Uses
  <1>2. ASSUME NEW c \in Call, Login(c) \/ \E s \in Session : Verify(c, s) PROVE Spent(k)'
    <2>1. /\ k \in Token \ failed /\ UNCHANGED <<token, reset, sets>>
          /\ pc[c] = "idle" /\ pc'[c] # "set"
          /\ \A d \in Call \ {c} : pc'[d] = pc[d]
      BY <1>2 DEF Login, Verify, Checks, SpentInv, TypeInv
    <2>2. QED
      BY <2>1, SpentKeeps DEF SpentInv, TypeInv, Uses
  <1>3. ASSUME NEW c \in Call, Change(c) \/ \E s \in Session : Open(c, s) PROVE Spent(k)'
    <2>1. /\ k \in Token \ failed /\ UNCHANGED <<token, sets>>
          /\ pc[c] \in {"open", "change"} /\ reset'[c] = {}
          /\ \A d \in Call \ {c} : pc'[d] = pc[d] /\ reset'[d] = reset[d]
      BY <1>3 DEF Change, Open, Ends, Forget, SpentInv, TypeInv
    <2>2. QED
      BY <2>1, SpentKeeps DEF SpentInv, TypeInv, Uses
  <1>4. ASSUME NEW c \in Call, NEW l \in Token, Find(c, l) PROVE Spent(k)'
    <2>1. /\ k \in Token \ failed /\ UNCHANGED <<token, sets>> /\ token[l] = "valid"
          /\ pc[c] = "idle" /\ pc'[c] = "set" /\ reset[c] = {} /\ reset'[c] = {l}
          /\ \A d \in Call \ {c} : pc'[d] = pc[d] /\ reset'[d] = reset[d]
          /\ k = l => \A d \in Call : reset[d] # {k}
      BY <1>4, Order DEF Find, SpentInv, TypeInv
    <2>2. CASE k # l
      BY <2>1, <2>2, SpentKeeps DEF SpentInv, Uses
    <2>3. CASE k = l
      <3>1. Spent(k)
        BY <2>1 DEF SpentInv
      <3>2. sets[k] = 0
        BY <2>1, <2>3, <3>1 DEF Spent, Uses
      <3>3. QED
        BY <2>1, <2>3, <3>2 DEF Spent, Uses
    <2>4. QED
      BY <2>2, <2>3
  <1>5. ASSUME NEW c \in Call, Set(c) PROVE Spent(k)'
    <2>1. /\ k \in Token \ failed /\ UNCHANGED <<token, reset>>
          /\ pc[c] = "set" /\ pc'[c] = "mark"
          /\ \A d \in Call \ {c} : pc'[d] = pc[d]
          /\ sets'[k] = IF reset[c] = {k} THEN sets[k] + 1 ELSE sets[k]
      BY <1>5, SetGoes DEF SpentInv, TypeInv
    <2>2. CASE reset[c] # {k}
      BY <2>1, <2>2, SpentKeeps DEF SpentInv, Uses
    <2>3. CASE reset[c] = {k}
      <3>1. Spent(k)
        BY <2>1 DEF SpentInv
      <3>2. sets[k] = 0 /\ sets'[k] = 1 /\ token[k] # "absent"
        BY <2>1, <2>3, <3>1 DEF Spent, Uses
      <3>3. \A d \in Call : reset'[d] = {k} => d = c
        BY <2>1, <2>3, <3>1 DEF Spent
      <3>4. QED
        BY <2>1, <2>3, <3>2, <3>3 DEF Spent, Uses
    <2>4. QED
      BY <2>2, <2>3
  <1>6. ASSUME NEW c \in Call, Mark(c) PROVE Spent(k)'
    <2>1. /\ k \in Token \ failed /\ UNCHANGED <<reset, sets>>
          /\ pc'[c] = "sweep"
          /\ \A d \in Call \ {c} : pc'[d] = pc[d]
          /\ token'[k] = IF reset[c] = {k} THEN "used" ELSE token[k]
      BY <1>6, MarkGoes DEF SpentInv, TypeInv
    <2>2. QED
      BY <2>1, SpentKeeps DEF SpentInv, Uses
  <1>7. ASSUME NEW c \in Call, Sweep(c) PROVE Spent(k)'
    <2>1. /\ k \in Token \ failed /\ UNCHANGED <<token, sets>>
          /\ pc[c] = "sweep" /\ reset'[c] = {}
          /\ \A d \in Call \ {c} : pc'[d] = pc[d] /\ reset'[d] = reset[d]
      BY <1>7, SweepEnds DEF SpentInv, TypeInv
    <2>2. QED
      BY <2>1, SpentKeeps DEF SpentInv, Uses
  <1>8. ASSUME NEW c \in Call, Fail(c) PROVE Spent(k)'
    <2>1. /\ k \in Token \ failed /\ reset[c] # {k} /\ UNCHANGED <<token, sets>>
          /\ reset'[c] = {}
          /\ \A d \in Call \ {c} : pc'[d] = pc[d] /\ reset'[d] = reset[d]
      BY <1>8 DEF Fail, Ends, Forget, SpentInv, TypeInv
    <2>2. QED
      BY <2>1, SpentKeeps DEF SpentInv, Uses
  <1>9. CASE SetActive \/ (\E s \in Session : Logout(s)) \/ \E l \in Token : Expire(l)
    <2>1. /\ k \in Token \ failed /\ UNCHANGED <<reset, pc, sets>>
          /\ token'[k] \in {token[k], "expired"}
      BY <1>9 DEF SetActive, Logout, Expire, SpentInv, TypeInv
    <2>2. QED
      BY <2>1, SpentKeeps DEF SpentInv, Uses
  <1>10. ASSUME NEW l \in Token, Recover(l) PROVE Spent(k)'
    <2>1. /\ k \in Token \ failed /\ UNCHANGED <<reset, pc, sets>>
          /\ token'[k] = token[k] \/ (token[k] = "absent" /\ token'[k] = "valid")
      BY <1>10 DEF Recover, SpentInv, TypeInv
    <2>2. QED
      BY <2>1 DEF SpentInv, Spent, Uses
  <1>11. QED
    BY <1>1, <1>2, <1>3, <1>4, <1>5, <1>6, <1>7, <1>8, <1>9, <1>10 DEF Next

\* A recovery link sets the password once, for any number of calls and tokens,
\* unless it was used twice at once or a step after the password failed.
THEOREM TokenSpent == Spec => []TokenIsSpent
  <1>1. Init => SpentInv
    BY TypeInvInit DEF Init, SpentInv, Spent, Uses
  <1>2. SpentInv => TokenIsSpent
    BY DEF SpentInv, Spent, TokenIsSpent
  <1>3. QED
    BY <1>1, <1>2, SpentStep, PTL DEF Spec
=============================================================================
