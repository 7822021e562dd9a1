------------------------ MODULE SessionManager_proofs ------------------------
(***************************************************************************)
(* Proofs about the session table of SessionManager.tla, for every set of  *)
(* ids and users and every lifetime.  The type invariant is inductive: it  *)
(* contains that only issued ids have a session, which is what makes an    *)
(* end final.                                                              *)
(***************************************************************************)
EXTENDS SessionManager, TLAPS

\* A fresh session is one; so is a session a tick later; neither is NONE.
LEMMA SessionFacts ==
  /\ NONE \notin Session
  /\ \A u \in Users : [username |-> u, left |-> LIFETIME] \in Session
  /\ \A s \in Session : Older(s) \in Session
BY NoneAssumption, LifetimeAssumption DEF Session, Older

\* What the clock does to the two fields of a session.
LEMMA OlderFields ==
  ASSUME NEW s
  PROVE  /\ Older(s).username = s.username
         /\ s.left >= 0 => Older(s).left = s.left - 1
         /\ ~(s.left >= 0) => Older(s).left = s.left
BY DEF Older

\* Each operation and the clock keep the table a table of issued sessions.
LEMMA StoreTypeStep == StoreTypeOK /\ [StoreNext]_storeVars => StoreTypeOK'
<1> SUFFICES ASSUME StoreTypeOK, [StoreNext]_storeVars PROVE StoreTypeOK'
  OBVIOUS
<1> USE DEF StoreTypeOK, Present
<1>1. ASSUME NEW i \in Ids, NEW u \in Users, createSession(i, u) PROVE StoreTypeOK'
  BY <1>1, SessionFacts DEF createSession
<1>2. ASSUME NEW i \in Ids, Lookup(i) PROVE StoreTypeOK'
  BY <1>2 DEF Lookup
<1>3. ASSUME NEW i \in Ids, destroySession(i) PROVE StoreTypeOK'
  BY <1>3 DEF destroySession
<1>4. CASE cleanupExpiredSessions
  BY <1>4 DEF cleanupExpiredSessions, Valid
<1>5. CASE StoreTick
  BY <1>5, SessionFacts DEF StoreTick
<1>6. CASE UNCHANGED storeVars
  BY <1>6 DEF storeVars
<1> QED
  BY <1>1, <1>2, <1>3, <1>4, <1>5, <1>6 DEF StoreNext

-----------------------------------------------------------------------------
(* Refinement of the policy *)

\* Two tables look alike when the same ids are issued and valid in both, with
\* the same rest of life and the same owner.
Alike ==
  /\ issued' = issued
  /\ \A i \in Ids : Valid(i)' = Valid(i)
  /\ \A i \in Ids : Valid(i) => sessions'[i] = sessions[i]

\* Tables that look alike are the same to the policy.
LEMMA AlikeStutters == Alike => UNCHANGED Policy!vars
<1> SUFFICES ASSUME Alike PROVE lifeBar' = lifeBar /\ ownerBar' = ownerBar
  BY DEF Policy!vars
<1>1. \A i \in Ids : lifeBar'[i] = lifeBar[i] /\ ownerBar'[i] = ownerBar[i]
  BY DEF Alike, lifeBar, ownerBar
<1> QED
  BY <1>1 DEF lifeBar, ownerBar

\* What is valid, to the table and to the policy.
LEMMA LiveIsValid ==
  ASSUME StoreTypeOK, NEW i \in Ids
  PROVE  /\ Policy!Live(i) <=> Valid(i)
         /\ Valid(i) => /\ i \in issued
                        /\ lifeBar[i] = sessions[i].left
                        /\ sessions[i].left \in 0 .. LIFETIME
         /\ i \in issued /\ ~Valid(i) => lifeBar[i] = -1
         /\ i \notin issued => lifeBar[i] = LIFETIME + 1
<1>1. Valid(i) => i \in issued /\ sessions[i].left \in 0 .. LIFETIME
  BY LifetimeAssumption DEF StoreTypeOK, Valid, Present, Session
<1>2. lifeBar[i] = IF i \notin issued THEN LIFETIME + 1
                   ELSE IF Valid(i) THEN sessions[i].left ELSE -1
  BY DEF lifeBar
<1> QED
  BY <1>1, <1>2, LifetimeAssumption DEF Policy!Live

\* A new session is one step of the policy for its id.
LEMMA CreateRefines ==
  ASSUME StoreTypeOK, NEW i \in Ids, NEW u \in Users, createSession(i, u)
  PROVE  Policy!Issue(i, u)
<1> DEFINE s == [username |-> u, left |-> LIFETIME]
<1>1. ~Valid(i) /\ lifeBar[i] = LIFETIME + 1
  BY DEF StoreTypeOK, Valid, createSession, lifeBar
<1>2. /\ sessions' = [sessions EXCEPT ![i] = s]
      /\ issued' = issued \union {i}
  BY DEF createSession
<1>3. /\ sessions'[i] = s
      /\ \A j \in Ids \ {i} : sessions'[j] = sessions[j]
  BY <1>2 DEF StoreTypeOK
<1>4. s # NONE /\ s.left >= 0 /\ s.left = LIFETIME /\ s.username = u
  BY SessionFacts, LifetimeAssumption
<1>5. Valid(i)' /\ \A j \in Ids \ {i} : Valid(j)' = Valid(j)
  BY <1>3, <1>4 DEF Valid, Present
<1>6. \A j \in Ids : lifeBar'[j] = IF j = i THEN LIFETIME ELSE lifeBar[j]
  <2> SUFFICES ASSUME NEW j \in Ids
               PROVE  lifeBar'[j] = IF j = i THEN LIFETIME ELSE lifeBar[j]
    OBVIOUS
  <2>1. lifeBar'[j] = IF j \notin issued' THEN LIFETIME + 1
                      ELSE IF Valid(j)' THEN sessions'[j].left ELSE -1
    BY DEF lifeBar
  <2>2. CASE j = i
    BY <2>1, <2>2, <1>2, <1>3, <1>4, <1>5
  <2>3. CASE j # i
    BY <2>1, <2>3, <1>2, <1>3, <1>5 DEF lifeBar
  <2> QED
    BY <2>2, <2>3
<1>7. \A j \in Ids : ownerBar'[j] = IF j = i THEN u ELSE ownerBar[j]
  BY <1>3, <1>4, <1>5 DEF ownerBar
<1>8. lifeBar' = [lifeBar EXCEPT ![i] = LIFETIME]
  BY <1>6 DEF lifeBar
<1>9. ownerBar' = [ownerBar EXCEPT ![i] = u]
  BY <1>7 DEF ownerBar
<1> QED
  BY <1>1, <1>8, <1>9 DEF Policy!Issue, Policy!Unissued

\* Destroying a live session ends it; destroying anything else is no step.
LEMMA DestroyRefines ==
  ASSUME StoreTypeOK, NEW i \in Ids, destroySession(i)
  PROVE  Policy!End(i) \/ UNCHANGED Policy!vars
<1>1. /\ sessions' = [sessions EXCEPT ![i] = NONE]
      /\ issued' = issued
  BY DEF destroySession
<1>2. /\ sessions'[i] = NONE
      /\ \A j \in Ids \ {i} : sessions'[j] = sessions[j]
  BY <1>1 DEF StoreTypeOK
<1>3. ~Valid(i)' /\ \A j \in Ids \ {i} : Valid(j)' = Valid(j)
  BY <1>2 DEF Valid, Present
<1>4. CASE ~Valid(i)
  <2>1. ASSUME NEW j \in Ids
        PROVE  Valid(j)' = Valid(j) /\ (Valid(j) => sessions'[j] = sessions[j])
    <3>1. CASE j = i
      <4>1. Valid(j) = FALSE /\ Valid(j)' = FALSE
        BY <3>1, <1>3, <1>4 DEF Valid, Present
      <4> QED
        BY <4>1
    <3>2. CASE j # i
      BY <3>2, <1>2, <1>3
    <3> QED
      BY <3>1, <3>2
  <2>2. Alike
    BY <2>1, <1>1 DEF Alike
  <2> QED
    BY <2>2, AlikeStutters
<1>5. CASE Valid(i)
  <2>1. i \in issued /\ Policy!Live(i)
    BY <1>5, LiveIsValid
  <2>2. \A j \in Ids : lifeBar'[j] = IF j = i THEN -1 ELSE lifeBar[j]
    BY <2>1, <1>1, <1>2, <1>3 DEF lifeBar
  <2>3. \A j \in Ids : ownerBar'[j] = IF j = i THEN NONE ELSE ownerBar[j]
    BY <1>2, <1>3 DEF ownerBar
  <2>4. lifeBar' = [lifeBar EXCEPT ![i] = -1]
    BY <2>2 DEF lifeBar
  <2>5. ownerBar' = [ownerBar EXCEPT ![i] = NONE]
    BY <2>3 DEF ownerBar
  <2> QED
    BY <2>1, <2>4, <2>5 DEF Policy!End, Policy!Over
<1> QED
  BY <1>4, <1>5

\* A tick takes one off every life; the last one ends it.
LEMMA TickRefines ==
  ASSUME StoreTypeOK, StoreTick
  PROVE  Policy!TimePasses
<1>1. issued' = issued
  BY DEF StoreTick
<1>2. \A i \in Ids : sessions'[i] = IF sessions[i] # NONE THEN Older(sessions[i]) ELSE NONE
  BY DEF StoreTick, Present
<1>3. ASSUME NEW i \in Ids
      PROVE  /\ lifeBar'[i] = IF Policy!Live(i) THEN lifeBar[i] - 1 ELSE lifeBar[i]
             /\ ownerBar'[i] = IF lifeBar[i] = 0 THEN NONE ELSE ownerBar[i]
  <2>1. /\ lifeBar'[i] = IF i \notin issued THEN LIFETIME + 1
                         ELSE IF Valid(i)' THEN sessions'[i].left ELSE -1
        /\ ownerBar'[i] = IF Valid(i)' THEN sessions'[i].username ELSE NONE
        /\ ownerBar[i] = IF Valid(i) THEN sessions[i].username ELSE NONE
    BY <1>1 DEF lifeBar, ownerBar
  <2>2. Valid(i)' <=> sessions'[i] # NONE /\ sessions'[i].left >= 0
    BY DEF Valid, Present
  <2>3. CASE Valid(i)
    <3>1. /\ sessions[i] # NONE
          /\ sessions[i] \in Session
      BY <2>3 DEF Valid, Present, StoreTypeOK
    <3>2. /\ i \in issued
          /\ Policy!Live(i)
          /\ lifeBar[i] = sessions[i].left
          /\ sessions[i].left \in 0 .. LIFETIME
      BY <2>3, LiveIsValid
    <3>3. /\ sessions'[i].left = sessions[i].left - 1
          /\ sessions'[i].username = sessions[i].username
          /\ sessions'[i] # NONE
      <4>1. sessions'[i] = Older(sessions[i]) /\ sessions[i].left >= 0
        BY <3>1, <3>2, <1>2, LifetimeAssumption
      <4>2. Older(sessions[i]) # NONE
        BY <3>1, SessionFacts
      <4> QED
        BY <4>1, <4>2, OlderFields
    <3>4. CASE sessions[i].left = 0
      <4>1. ~Valid(i)' /\ sessions'[i].left = -1
        BY <3>4, <3>3, <2>2
      <4> QED
        BY <4>1, <3>2, <3>4, <2>1
    <3>5. CASE sessions[i].left # 0
      <4>1. sessions[i].left - 1 >= 0
        BY <3>5, <3>2, LifetimeAssumption
      <4>2. Valid(i)'
        BY <4>1, <3>3, <2>2
      <4> QED
        BY <4>2, <3>2, <3>3, <3>5, <2>1, <2>3
    <3> QED
      BY <3>4, <3>5
  <2>4. CASE ~Valid(i)
    <3>1. ~Valid(i)'
      <4>1. CASE sessions[i] = NONE
        BY <4>1, <1>2, <2>2
      <4>2. CASE sessions[i] # NONE
        <5>1. sessions[i].left = -1
          BY <4>2, <2>4, LifetimeAssumption DEF Valid, Present, StoreTypeOK, Session
        <5>2. sessions'[i].left = -1
          BY <5>1, <4>2, <1>2, OlderFields
        <5> QED
          BY <5>2, <2>2
      <4> QED
        BY <4>1, <4>2
    <3>2. /\ ~Policy!Live(i)
          /\ lifeBar[i] # 0
          /\ lifeBar[i] = IF i \notin issued THEN LIFETIME + 1 ELSE -1
      BY <2>4, LiveIsValid, LifetimeAssumption
    <3> QED
      BY <3>1, <3>2, <2>1, <2>4
  <2> QED
    BY <2>3, <2>4
<1>4. lifeBar' = [i \in Ids |-> IF Policy!Live(i) THEN lifeBar[i] - 1 ELSE lifeBar[i]]
  BY <1>3 DEF lifeBar
<1>5. ownerBar' = [i \in Ids |-> IF lifeBar[i] = 0 THEN NONE ELSE ownerBar[i]]
  BY <1>3 DEF ownerBar
<1> QED
  BY <1>4, <1>5 DEF Policy!TimePasses

\* Every step of the table is a step of the policy or leaves it alone.
LEMMA StoreRefines == StoreTypeOK /\ [StoreNext]_storeVars => [Policy!Next]_(Policy!vars)
<1> SUFFICES ASSUME StoreTypeOK, [StoreNext]_storeVars
             PROVE  Policy!Next \/ UNCHANGED Policy!vars
  OBVIOUS
<1>1. ASSUME NEW i \in Ids, NEW u \in Users, createSession(i, u)
      PROVE  Policy!Next
  BY <1>1, CreateRefines DEF Policy!Next
<1>2. ASSUME NEW i \in Ids, Lookup(i) PROVE UNCHANGED Policy!vars
  <2>1. Alike
    BY <1>2 DEF Lookup, Alike, Valid, Present, StoreTypeOK
  <2> QED
    BY <2>1, AlikeStutters
<1>3. ASSUME NEW i \in Ids, destroySession(i)
      PROVE  Policy!Next \/ UNCHANGED Policy!vars
  BY <1>3, DestroyRefines DEF Policy!Next
<1>4. CASE cleanupExpiredSessions
  <2>1. Alike
    BY <1>4 DEF cleanupExpiredSessions, Alike, Valid, Present, StoreTypeOK
  <2> QED
    BY <2>1, AlikeStutters
<1>5. CASE StoreTick
  BY <1>5, TickRefines DEF Policy!Next
<1>6. CASE UNCHANGED storeVars
  <2>1. Alike
    BY <1>6 DEF storeVars, Alike, Valid, Present
  <2> QED
    BY <2>1, AlikeStutters
<1> QED
  BY <1>1, <1>2, <1>3, <1>4, <1>5, <1>6 DEF StoreNext
=============================================================================
