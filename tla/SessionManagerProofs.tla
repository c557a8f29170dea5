------------------------ MODULE SessionManagerProofs ------------------------
(***************************************************************************)
(* The invariants of SessionManager, and that it implements the atomic     *)
(* registry, for any number of requests and keys.  One lemma per conjunct  *)
(* of the inductive invariant IInv, in each one step per action.           *)
(***************************************************************************)
EXTENDS SessionManager, FiniteSetTheorems, TLAPS

\* Every step preserves the types.
LEMMA TypeStep ==
  ASSUME TypeOK, RequestInv, [Next]_vars PROVE TypeOK'
<1> USE NilIsNew DEF TypeOK, RequestInv, Answers, PC, Goto, Answer, mapVars, objVars, refVars
<1>1. ASSUME NEW r \in Requests, NEW a \in Asks, Begin(r, a), UNCHANGED up PROVE TypeOK'
  BY <1>1 DEF Begin
<1>2. ASSUME NEW r \in Requests, Malformed(r), UNCHANGED up PROVE TypeOK'
  BY <1>2 DEF Malformed
<1>3. ASSUME NEW r \in Requests, InvalidKey(r), UNCHANGED up PROVE TypeOK'
  BY <1>3 DEF InvalidKey
<1>4. ASSUME NEW r \in Requests, CreateLock(r), UNCHANGED up PROVE TypeOK'
  BY <1>4 DEF CreateLock, CanLock
<1>5. ASSUME NEW r \in Requests, CreateCheck(r), UNCHANGED up PROVE TypeOK'
  BY <1>5 DEF CreateCheck, CanLock
<1>6. ASSUME NEW r \in Requests, CreateLoad(r), UNCHANGED up PROVE TypeOK'
  BY <1>6 DEF CreateLoad
<1>7. ASSUME NEW r \in Requests, CreateEmplace(r), UNCHANGED up PROVE TypeOK'
  <2>1. sessions' \in [Keys -> Requests \cup {Nil}] BY <1>7 DEF CreateEmplace
  <2>2. Registered' \subseteq Requests BY <2>1 DEF Registered
  <2>3. window' \in [Requests -> SUBSET SUBSET Requests]
    <3>1. \A q \in Requests : window[q] \cup {Registered'} \in SUBSET SUBSET Requests
      BY <2>2
    <3> QED BY <1>7, <3>1 DEF CreateEmplace, ObserveMap
  <2>4. \A q \in Requests : (local[q] # Nil)' <=>
          pc'[q] \in {"emplace", "json", "touch", "count", "context", "execute"}
    BY <1>7 DEF CreateEmplace
  <2>5. pc' \in [Requests -> PC] /\ answer' \in [Requests -> Answers] /\ mutex' = Nil
    BY <1>7 DEF CreateEmplace
  <2> HIDE DEF PC, Answers, RequestInv
  <2> QED BY <1>7, <2>1, <2>3, <2>4, <2>5 DEF CreateEmplace
<1>8. ASSUME NEW r \in Requests, Lookup(r), UNCHANGED up PROVE TypeOK'
  BY <1>8 DEF Lookup, CanLock
<1>9. ASSUME NEW r \in Requests, Json(r), UNCHANGED up PROVE TypeOK'
  BY <1>9 DEF Json, DropRefs
<1>10. ASSUME NEW r \in Requests, TouchRead(r), UNCHANGED up PROVE TypeOK'
  BY <1>10 DEF TouchRead
<1>11. ASSUME NEW r \in Requests, TouchWrite(r), UNCHANGED up PROVE TypeOK'
  BY <1>11 DEF TouchWrite
<1>12. ASSUME NEW r \in Requests, BuildContext(r), UNCHANGED up PROVE TypeOK'
  BY <1>12 DEF BuildContext, DropRefs
<1>13. ASSUME NEW r \in Requests, ExecuteRun(r), UNCHANGED up PROVE TypeOK'
  BY <1>13 DEF ExecuteRun, DropRefs
<1>14. ASSUME NEW r \in Requests, Remove(r), UNCHANGED up PROVE TypeOK'
  <2>1. sessions' \in [Keys -> Requests \cup {Nil}] BY <1>14 DEF Remove
  <2>2. Registered' \subseteq Requests BY <2>1 DEF Registered
  <2>3. window' \in [Requests -> SUBSET SUBSET Requests]
    <3>1. \A q \in Requests : window[q] \cup {Registered'} \in SUBSET SUBSET Requests
      BY <2>2
    <3> QED BY <1>14, <3>1 DEF Remove, ObserveMap
  <2>4. freed' \in SUBSET Requests BY <1>14 DEF Remove
  <2>5. \A q \in Requests : (local[q] # Nil)' <=>
          pc'[q] \in {"emplace", "json", "touch", "count", "context", "execute"}
    BY <1>14 DEF Remove
  <2>6. pc' \in [Requests -> PC] /\ answer' \in [Requests -> Answers]
    BY <1>14 DEF Remove
  <2> HIDE DEF PC, Answers, RequestInv
  <2> QED BY <1>14, <2>1, <2>3, <2>4, <2>5, <2>6 DEF Remove
<1>15. ASSUME NEW r \in Requests, ListBegin(r), UNCHANGED up PROVE TypeOK'
  <2>1. Registered \subseteq Requests BY DEF Registered
  <2>2. window' \in [Requests -> SUBSET SUBSET Requests]
    <3> HIDE DEF PC, Answers, RequestInv
    <3> QED BY <1>15, <2>1 DEF ListBegin
  <2> QED BY <1>15, <2>2 DEF ListBegin
<1>16. ASSUME NEW r \in Requests, ListEnd(r), UNCHANGED up PROVE TypeOK'
  <2>1. copy' \in [Requests -> SUBSET Requests]
    <3>1. PICK c \in SUBSET ((UNION window[r]) \ freed) : copy' = [copy EXCEPT ![r] = c]
      BY <1>16 DEF ListEnd
    <3>2. c \in SUBSET Requests BY <3>1
    <3> QED BY <3>1, <3>2
  <2> QED BY <1>16, <2>1 DEF ListEnd
<1>17. ASSUME NEW r \in Requests, ListJson(r), UNCHANGED up PROVE TypeOK'
  BY <1>17 DEF ListJson, DropRefs
<1>18. ASSUME NEW r \in Requests, ListCrash(r) PROVE TypeOK'
  BY <1>18 DEF ListCrash
<1>19. CASE UNCHANGED vars
  BY <1>19 DEF vars
<1> QED
  BY <1>1, <1>2, <1>3, <1>4, <1>5, <1>6, <1>7, <1>8, <1>9, <1>10, <1>11, <1>12, <1>13, <1>14, <1>15, <1>16, <1>17, <1>18, <1>19 DEF Next, Arrive, Progress

\* Every step keeps place and request in agreement.
LEMMA RequestStep ==
  ASSUME TypeOK, RequestInv, [Next]_vars PROVE RequestInv'
<1> USE NilIsNew, KeysAreGoodOrBad DEF TypeOK, RequestInv, Asks, Ops, op, key, Goto, Answer, mapVars, objVars, refVars
<1>1. ASSUME NEW r \in Requests, NEW a \in Asks, Begin(r, a), UNCHANGED up PROVE RequestInv'
  BY <1>1 DEF Begin
<1>2. ASSUME NEW r \in Requests, Malformed(r), UNCHANGED up PROVE RequestInv'
  BY <1>2 DEF Malformed
<1>3. ASSUME NEW r \in Requests, InvalidKey(r), UNCHANGED up PROVE RequestInv'
  BY <1>3 DEF InvalidKey
<1>4. ASSUME NEW r \in Requests, CreateLock(r), UNCHANGED up PROVE RequestInv'
  BY <1>4 DEF CreateLock, CanLock
<1>5. ASSUME NEW r \in Requests, CreateCheck(r), UNCHANGED up PROVE RequestInv'
  BY <1>5 DEF CreateCheck, CanLock
<1>6. ASSUME NEW r \in Requests, CreateLoad(r), UNCHANGED up PROVE RequestInv'
  BY <1>6 DEF CreateLoad
<1>7. ASSUME NEW r \in Requests, CreateEmplace(r), UNCHANGED up PROVE RequestInv'
  BY <1>7 DEF CreateEmplace, ObserveMap, CanLock
<1>8. ASSUME NEW r \in Requests, Lookup(r), UNCHANGED up PROVE RequestInv'
  BY <1>8 DEF Lookup, CanLock
<1>9. ASSUME NEW r \in Requests, Json(r), UNCHANGED up PROVE RequestInv'
  BY <1>9 DEF Json, DropRefs
<1>10. ASSUME NEW r \in Requests, TouchRead(r), UNCHANGED up PROVE RequestInv'
  BY <1>10 DEF TouchRead
<1>11. ASSUME NEW r \in Requests, TouchWrite(r), UNCHANGED up PROVE RequestInv'
  BY <1>11 DEF TouchWrite
<1>12. ASSUME NEW r \in Requests, BuildContext(r), UNCHANGED up PROVE RequestInv'
  BY <1>12 DEF BuildContext, DropRefs
<1>13. ASSUME NEW r \in Requests, ExecuteRun(r), UNCHANGED up PROVE RequestInv'
  BY <1>13 DEF ExecuteRun, DropRefs
<1>14. ASSUME NEW r \in Requests, Remove(r), UNCHANGED up PROVE RequestInv'
  BY <1>14 DEF Remove, ObserveMap, CanLock
<1>15. ASSUME NEW r \in Requests, ListBegin(r), UNCHANGED up PROVE RequestInv'
  BY <1>15 DEF ListBegin
<1>16. ASSUME NEW r \in Requests, ListEnd(r), UNCHANGED up PROVE RequestInv'
  BY <1>16 DEF ListEnd
<1>17. ASSUME NEW r \in Requests, ListJson(r), UNCHANGED up PROVE RequestInv'
  BY <1>17 DEF ListJson, DropRefs
<1>18. ASSUME NEW r \in Requests, ListCrash(r) PROVE RequestInv'
  BY <1>18 DEF ListCrash
<1>19. CASE UNCHANGED vars
  BY <1>19 DEF vars
<1> QED
  BY <1>1, <1>2, <1>3, <1>4, <1>5, <1>6, <1>7, <1>8, <1>9, <1>10, <1>11, <1>12, <1>13, <1>14, <1>15, <1>16, <1>17, <1>18, <1>19 DEF Next, Arrive, Progress

\* From the check to the emplace nobody else gets the mutex, so the key stays free.
LEMMA MutexStep ==
  ASSUME TypeOK, RequestInv, CheckStillHolds, [Next]_vars PROVE CheckStillHolds'
<1> USE NilIsNew DEF TypeOK, RequestInv, CheckStillHolds, op, key, Goto, Answer, mapVars, objVars, refVars
<1>1. ASSUME NEW r \in Requests, NEW a \in Asks, Begin(r, a), UNCHANGED up PROVE CheckStillHolds'
  BY <1>1 DEF Begin
<1>2. ASSUME NEW r \in Requests, Malformed(r), UNCHANGED up PROVE CheckStillHolds'
  BY <1>2 DEF Malformed
<1>3. ASSUME NEW r \in Requests, InvalidKey(r), UNCHANGED up PROVE CheckStillHolds'
  BY <1>3 DEF InvalidKey
<1>4. ASSUME NEW r \in Requests, CreateLock(r), UNCHANGED up PROVE CheckStillHolds'
  BY <1>4 DEF CreateLock, CanLock
<1>5. ASSUME NEW r \in Requests, CreateCheck(r), UNCHANGED up PROVE CheckStillHolds'
  BY <1>5 DEF CreateCheck, CanLock
<1>6. ASSUME NEW r \in Requests, CreateLoad(r), UNCHANGED up PROVE CheckStillHolds'
  BY <1>6 DEF CreateLoad
<1>7. ASSUME NEW r \in Requests, CreateEmplace(r), UNCHANGED up PROVE CheckStillHolds'
  BY <1>7 DEF CreateEmplace, ObserveMap, CanLock
<1>8. ASSUME NEW r \in Requests, Lookup(r), UNCHANGED up PROVE CheckStillHolds'
  BY <1>8 DEF Lookup, CanLock
<1>9. ASSUME NEW r \in Requests, Json(r), UNCHANGED up PROVE CheckStillHolds'
  BY <1>9 DEF Json, DropRefs
<1>10. ASSUME NEW r \in Requests, TouchRead(r), UNCHANGED up PROVE CheckStillHolds'
  BY <1>10 DEF TouchRead
<1>11. ASSUME NEW r \in Requests, TouchWrite(r), UNCHANGED up PROVE CheckStillHolds'
  BY <1>11 DEF TouchWrite
<1>12. ASSUME NEW r \in Requests, BuildContext(r), UNCHANGED up PROVE CheckStillHolds'
  BY <1>12 DEF BuildContext, DropRefs
<1>13. ASSUME NEW r \in Requests, ExecuteRun(r), UNCHANGED up PROVE CheckStillHolds'
  BY <1>13 DEF ExecuteRun, DropRefs
<1>14. ASSUME NEW r \in Requests, Remove(r), UNCHANGED up PROVE CheckStillHolds'
  BY <1>14 DEF Remove, ObserveMap, CanLock
<1>15. ASSUME NEW r \in Requests, ListBegin(r), UNCHANGED up PROVE CheckStillHolds'
  BY <1>15 DEF ListBegin
<1>16. ASSUME NEW r \in Requests, ListEnd(r), UNCHANGED up PROVE CheckStillHolds'
  BY <1>16 DEF ListEnd
<1>17. ASSUME NEW r \in Requests, ListJson(r), UNCHANGED up PROVE CheckStillHolds'
  BY <1>17 DEF ListJson, DropRefs
<1>18. ASSUME NEW r \in Requests, ListCrash(r) PROVE CheckStillHolds'
  BY <1>18 DEF ListCrash
<1>19. CASE UNCHANGED vars
  BY <1>19 DEF vars
<1> QED
  BY <1>1, <1>2, <1>3, <1>4, <1>5, <1>6, <1>7, <1>8, <1>9, <1>10, <1>11, <1>12, <1>13, <1>14, <1>15, <1>16, <1>17, <1>18, <1>19 DEF Next, Arrive, Progress

\* Pointers are copied from pointers, and only to sessions that were built.
LEMMA BuiltStep ==
  ASSUME TypeOK, RequestInv, BuiltInv, [Next]_vars PROVE BuiltInv'
<1> USE NilIsNew DEF TypeOK, RequestInv, BuiltInv, Goto, Answer, mapVars, objVars, refVars
<1>1. ASSUME NEW r \in Requests, NEW a \in Asks, Begin(r, a), UNCHANGED up PROVE BuiltInv'
  BY <1>1 DEF Begin
<1>2. ASSUME NEW r \in Requests, Malformed(r), UNCHANGED up PROVE BuiltInv'
  BY <1>2 DEF Malformed
<1>3. ASSUME NEW r \in Requests, InvalidKey(r), UNCHANGED up PROVE BuiltInv'
  BY <1>3 DEF InvalidKey
<1>4. ASSUME NEW r \in Requests, CreateLock(r), UNCHANGED up PROVE BuiltInv'
  BY <1>4 DEF CreateLock, CanLock
<1>5. ASSUME NEW r \in Requests, CreateCheck(r), UNCHANGED up PROVE BuiltInv'
  BY <1>5 DEF CreateCheck, CanLock
<1>6. ASSUME NEW r \in Requests, CreateLoad(r), UNCHANGED up PROVE BuiltInv'
  BY <1>6 DEF CreateLoad
<1>7. ASSUME NEW r \in Requests, CreateEmplace(r), UNCHANGED up PROVE BuiltInv'
  <2>1. PICK k \in Keys : key(r) = k BY <1>7 DEF CreateEmplace, key
  <2>2. r \in built /\ r # Nil BY <1>7 DEF CreateEmplace
  <2>3. \A j \in Keys : sessions'[j] \in {sessions[j], r}
    BY <1>7, <2>1 DEF CreateEmplace
  <2>4. Registered' \subseteq built BY <2>2, <2>3 DEF Registered
  <2>5. \A q \in Requests : UNION window'[q] \subseteq built
    BY <1>7, <2>4 DEF CreateEmplace, ObserveMap
  <2>6. \A q \in Requests : pc'[q] = IF q = r THEN "json" ELSE pc[q]
    BY <1>7 DEF CreateEmplace
  <2> QED BY <1>7, <2>2, <2>3, <2>5, <2>6 DEF CreateEmplace
<1>8. ASSUME NEW r \in Requests, Lookup(r), UNCHANGED up PROVE BuiltInv'
  BY <1>8 DEF Lookup, CanLock
<1>9. ASSUME NEW r \in Requests, Json(r), UNCHANGED up PROVE BuiltInv'
  BY <1>9 DEF Json, DropRefs
<1>10. ASSUME NEW r \in Requests, TouchRead(r), UNCHANGED up PROVE BuiltInv'
  BY <1>10 DEF TouchRead
<1>11. ASSUME NEW r \in Requests, TouchWrite(r), UNCHANGED up PROVE BuiltInv'
  BY <1>11 DEF TouchWrite
<1>12. ASSUME NEW r \in Requests, BuildContext(r), UNCHANGED up PROVE BuiltInv'
  BY <1>12 DEF BuildContext, DropRefs
<1>13. ASSUME NEW r \in Requests, ExecuteRun(r), UNCHANGED up PROVE BuiltInv'
  BY <1>13 DEF ExecuteRun, DropRefs
<1>14. ASSUME NEW r \in Requests, Remove(r), UNCHANGED up PROVE BuiltInv'
  <2>1. \A j \in Keys : sessions'[j] \in {sessions[j], Nil}
    BY <1>14 DEF Remove
  <2>2. Registered' \subseteq built BY <2>1 DEF Registered
  <2>3. \A q \in Requests : UNION window'[q] \subseteq built
    BY <1>14, <2>2 DEF Remove, ObserveMap
  <2>4. \A q \in Requests : pc'[q] = IF q = r THEN "done" ELSE pc[q]
    BY <1>14 DEF Remove
  <2> QED BY <1>14, <2>1, <2>3, <2>4 DEF Remove
<1>15. ASSUME NEW r \in Requests, ListBegin(r), UNCHANGED up PROVE BuiltInv'
  <2>1. Registered \subseteq built BY DEF Registered
  <2>2. \A q \in Requests : UNION window'[q] \subseteq built
    BY <1>15, <2>1 DEF ListBegin
  <2> QED BY <1>15, <2>2 DEF ListBegin
<1>16. ASSUME NEW r \in Requests, ListEnd(r), UNCHANGED up PROVE BuiltInv'
  BY <1>16 DEF ListEnd
<1>17. ASSUME NEW r \in Requests, ListJson(r), UNCHANGED up PROVE BuiltInv'
  BY <1>17 DEF ListJson, DropRefs
<1>18. ASSUME NEW r \in Requests, ListCrash(r) PROVE BuiltInv'
  BY <1>18 DEF ListCrash
<1>19. CASE UNCHANGED vars
  BY <1>19 DEF vars
<1> QED
  BY <1>1, <1>2, <1>3, <1>4, <1>5, <1>6, <1>7, <1>8, <1>9, <1>10, <1>11, <1>12, <1>13, <1>14, <1>15, <1>16, <1>17, <1>18, <1>19 DEF Next, Arrive, Progress

\* A session never changes the request that made it, nor a thread its key.
LEMMA RightStep ==
  ASSUME TypeOK, RequestInv, BuiltInv, CheckStillHolds, RightSession, [Next]_vars PROVE RightSession'
<1> USE NilIsNew DEF TypeOK, RequestInv, BuiltInv, CheckStillHolds, RightSession, op, key, Goto, Answer, mapVars, objVars, refVars
<1>1. ASSUME NEW r \in Requests, NEW a \in Asks, Begin(r, a), UNCHANGED up PROVE RightSession'
  BY <1>1 DEF Begin
<1>2. ASSUME NEW r \in Requests, Malformed(r), UNCHANGED up PROVE RightSession'
  BY <1>2 DEF Malformed
<1>3. ASSUME NEW r \in Requests, InvalidKey(r), UNCHANGED up PROVE RightSession'
  BY <1>3 DEF InvalidKey
<1>4. ASSUME NEW r \in Requests, CreateLock(r), UNCHANGED up PROVE RightSession'
  BY <1>4 DEF CreateLock, CanLock
<1>5. ASSUME NEW r \in Requests, CreateCheck(r), UNCHANGED up PROVE RightSession'
  BY <1>5 DEF CreateCheck, CanLock
<1>6. ASSUME NEW r \in Requests, CreateLoad(r), UNCHANGED up PROVE RightSession'
  BY <1>6 DEF CreateLoad
<1>7. ASSUME NEW r \in Requests, CreateEmplace(r), UNCHANGED up PROVE RightSession'
  <2>1. /\ UNCHANGED <<ask, local>>
        /\ answer' = [answer EXCEPT ![r] = "ok"]
    BY <1>7 DEF CreateEmplace
  <2>2. PICK k \in Keys : ask[r] = <<"create", k>>
    BY <1>7 DEF CreateEmplace
  <2>3. \A j \in Keys : sessions'[j] = IF j = k THEN r ELSE sessions[j]
    BY <1>7, <2>2 DEF CreateEmplace
  <2>4. ASSUME NEW j \in Keys, sessions'[j] # Nil
        PROVE  ask'[sessions'[j]] = <<"create", j>> /\ answer'[sessions'[j]] = "ok"
    <3>1. CASE j = k
      <4>1. sessions'[j] = r BY <2>3, <3>1
      <4>2. answer'[r] = "ok" /\ ask'[r] = <<"create", j>> BY <2>1, <2>2, <3>1
      <4> QED BY <4>1, <4>2
    <3>2. CASE j # k
      <4>1. sessions'[j] = sessions[j] /\ sessions[j] # Nil BY <2>3, <2>4, <3>2
      <4>2. sessions[j] \in Requests /\ ask[sessions[j]] = <<"create", j>> /\ answer[sessions[j]] = "ok"
        BY <4>1
      <4>3. \A q \in Requests : answer[q] = "ok" => answer'[q] = "ok" BY <2>1
      <4> QED BY <2>1, <4>1, <4>2, <4>3
    <3> QED BY <3>1, <3>2
  <2>5. \A q \in Requests : local'[q] # Nil => ask'[local'[q]][2] = ask'[q][2]
    BY <2>1
  <2> QED BY <2>4, <2>5
<1>8. ASSUME NEW r \in Requests, Lookup(r), UNCHANGED up PROVE RightSession'
  BY <1>8 DEF Lookup, CanLock
<1>9. ASSUME NEW r \in Requests, Json(r), UNCHANGED up PROVE RightSession'
  BY <1>9 DEF Json, DropRefs
<1>10. ASSUME NEW r \in Requests, TouchRead(r), UNCHANGED up PROVE RightSession'
  BY <1>10 DEF TouchRead
<1>11. ASSUME NEW r \in Requests, TouchWrite(r), UNCHANGED up PROVE RightSession'
  BY <1>11 DEF TouchWrite
<1>12. ASSUME NEW r \in Requests, BuildContext(r), UNCHANGED up PROVE RightSession'
  BY <1>12 DEF BuildContext, DropRefs
<1>13. ASSUME NEW r \in Requests, ExecuteRun(r), UNCHANGED up PROVE RightSession'
  BY <1>13 DEF ExecuteRun, DropRefs
<1>14. ASSUME NEW r \in Requests, Remove(r), UNCHANGED up PROVE RightSession'
  BY <1>14 DEF Remove, ObserveMap, CanLock
<1>15. ASSUME NEW r \in Requests, ListBegin(r), UNCHANGED up PROVE RightSession'
  BY <1>15 DEF ListBegin
<1>16. ASSUME NEW r \in Requests, ListEnd(r), UNCHANGED up PROVE RightSession'
  BY <1>16 DEF ListEnd
<1>17. ASSUME NEW r \in Requests, ListJson(r), UNCHANGED up PROVE RightSession'
  BY <1>17 DEF ListJson, DropRefs
<1>18. ASSUME NEW r \in Requests, ListCrash(r) PROVE RightSession'
  BY <1>18 DEF ListCrash
<1>19. CASE UNCHANGED vars
  BY <1>19 DEF vars
<1> QED
  BY <1>1, <1>2, <1>3, <1>4, <1>5, <1>6, <1>7, <1>8, <1>9, <1>10, <1>11, <1>12, <1>13, <1>14, <1>15, <1>16, <1>17, <1>18, <1>19 DEF Next, Arrive, Progress

\* A thread that drops its pointers frees what nobody else points to.
LEMMA DropKeepsLifetime ==
  ASSUME TypeOK, BuiltInv, SessionLifetime,
         NEW r \in Requests, DropRefs(r), UNCHANGED <<sessions, built>>
  PROVE  SessionLifetime'
<1> USE NilIsNew DEF TypeOK
<1> DEFINE held == ({local[r]} \cup copy[r]) \ {Nil}
           others(o) == \E q \in Requests \ {r} : local[q] = o \/ o \in copy[q]
<1>1. Registered' = Registered
  BY DEF Registered
<1>2. freed' = freed \cup {o \in held : o \notin Registered /\ ~others(o)}
  BY DEF DropRefs
<1>3. held \subseteq built /\ built \subseteq Requests
  BY DEF BuiltInv
<1>4. ASSUME NEW o \in built PROVE Referenced(o) <=> o \in Registered \/ others(o) \/ o \in held
  BY <1>3 DEF Referenced
<1>5. ASSUME NEW o \in built PROVE Referenced(o)' <=> o \in Registered \/ others(o)
  <2>1. /\ local'[r] = Nil /\ copy'[r] = {} /\ o # Nil
        /\ \A q \in Requests \ {r} : local'[q] = local[q] /\ copy'[q] = copy[q]
    BY <1>3 DEF DropRefs
  <2> QED BY <1>1, <2>1 DEF Referenced
<1>6. freed = {o \in built : ~Referenced(o)}
  BY DEF SessionLifetime
<1> HIDE DEF held, others
<1>7. \A o \in built : o \in freed' <=> ~Referenced(o)'
  BY <1>2, <1>4, <1>5, <1>6
<1>8. built' = built /\ freed' \subseteq built
  BY <1>2, <1>3, <1>6
<1> QED BY <1>7, <1>8 DEF SessionLifetime

\* A session is freed by the step that drops the last pointer to it.
LEMMA LifetimeStep ==
  ASSUME TypeOK, RequestInv, BuiltInv, RightSession, SessionLifetime, [Next]_vars PROVE SessionLifetime'
<1> USE NilIsNew DEF TypeOK, RequestInv, BuiltInv, SessionLifetime, Referenced, Registered, Goto, Answer, mapVars, objVars, refVars
<1>1. ASSUME NEW r \in Requests, NEW a \in Asks, Begin(r, a), UNCHANGED up PROVE SessionLifetime'
  BY <1>1 DEF Begin
<1>2. ASSUME NEW r \in Requests, Malformed(r), UNCHANGED up PROVE SessionLifetime'
  BY <1>2 DEF Malformed
<1>3. ASSUME NEW r \in Requests, InvalidKey(r), UNCHANGED up PROVE SessionLifetime'
  BY <1>3 DEF InvalidKey
<1>4. ASSUME NEW r \in Requests, CreateLock(r), UNCHANGED up PROVE SessionLifetime'
  BY <1>4 DEF CreateLock, CanLock
<1>5. ASSUME NEW r \in Requests, CreateCheck(r), UNCHANGED up PROVE SessionLifetime'
  BY <1>5 DEF CreateCheck, CanLock
<1>6. ASSUME NEW r \in Requests, CreateLoad(r), UNCHANGED up PROVE SessionLifetime'
  BY <1>6 DEF CreateLoad
<1>7. ASSUME NEW r \in Requests, CreateEmplace(r), UNCHANGED up PROVE SessionLifetime'
  BY <1>7 DEF CreateEmplace, ObserveMap, CanLock
<1>8. ASSUME NEW r \in Requests, Lookup(r), UNCHANGED up PROVE SessionLifetime'
  BY <1>8 DEF Lookup, CanLock
<1>9. ASSUME NEW r \in Requests, Json(r), UNCHANGED up PROVE SessionLifetime'
  <2> HIDE DEF TypeOK, BuiltInv, SessionLifetime
  <2>1. DropRefs(r) /\ UNCHANGED <<sessions, built>>
    BY <1>9 DEF Json
  <2> QED BY <2>1, DropKeepsLifetime
<1>10. ASSUME NEW r \in Requests, TouchRead(r), UNCHANGED up PROVE SessionLifetime'
  BY <1>10 DEF TouchRead
<1>11. ASSUME NEW r \in Requests, TouchWrite(r), UNCHANGED up PROVE SessionLifetime'
  BY <1>11 DEF TouchWrite
<1>12. ASSUME NEW r \in Requests, BuildContext(r), UNCHANGED up PROVE SessionLifetime'
  <2>1. CASE UNCHANGED refVars /\ UNCHANGED <<mapVars, objVars>>
    BY <2>1
  <2>2. CASE DropRefs(r) /\ UNCHANGED <<sessions, built>>
    <3> HIDE DEF TypeOK, BuiltInv, SessionLifetime
    <3> QED BY <2>2, DropKeepsLifetime
  <2> QED BY <1>12, <2>1, <2>2 DEF BuildContext
<1>13. ASSUME NEW r \in Requests, ExecuteRun(r), UNCHANGED up PROVE SessionLifetime'
  <2> HIDE DEF TypeOK, BuiltInv, SessionLifetime
  <2>1. DropRefs(r) /\ UNCHANGED <<sessions, built>>
    BY <1>13 DEF ExecuteRun
  <2> QED BY <2>1, DropKeepsLifetime
<1>14. ASSUME NEW r \in Requests, Remove(r), UNCHANGED up PROVE SessionLifetime'
  <2>1. CASE sessions[key(r)] = Nil BY <1>14, <2>1 DEF Remove
  <2>2. CASE sessions[key(r)] # Nil
    <3> DEFINE k == key(r)
               o == sessions[k]
    <3>1. k \in Keys /\ o \in built BY <1>14, <2>2 DEF Remove
    <3>2. \A j \in Keys : sessions[j] = o => j = k
      BY <2>2, <3>1 DEF RightSession
    <3>3. \A j \in Keys : sessions'[j] = IF j = k THEN Nil ELSE sessions[j]
      BY <1>14, <2>2, <3>1 DEF Remove
    <3>4. \A x \in built : x \in Registered' <=> x \in Registered /\ x # o
      BY <3>1, <3>2, <3>3
    <3>5. freed' = freed \cup {x \in {o} : \A q \in Requests : local[q] # x /\ x \notin copy[q]}
      BY <1>14, <2>2 DEF Remove
    <3>6. UNCHANGED <<built, local, copy>> BY <1>14 DEF Remove
    <3>7. o \in Registered BY <2>2, <3>1
    <3> HIDE DEF k, o, Registered
    <3> QED BY <3>1, <3>4, <3>5, <3>6, <3>7
  <2> QED BY <2>1, <2>2
<1>15. ASSUME NEW r \in Requests, ListBegin(r), UNCHANGED up PROVE SessionLifetime'
  BY <1>15 DEF ListBegin
<1>16. ASSUME NEW r \in Requests, ListEnd(r), UNCHANGED up PROVE SessionLifetime'
  <2>1. PICK c \in SUBSET ((UNION window[r]) \ freed) : copy' = [copy EXCEPT ![r] = c]
    BY <1>16 DEF ListEnd
  <2>2. \A x \in c : x \in built /\ Referenced(x)
    BY <2>1
  <2>3. copy[r] = {}
    BY <1>16 DEF ListEnd
  <2>4. \A x \in built : Referenced(x)' <=> Referenced(x)
    BY <1>16, <2>1, <2>2, <2>3 DEF ListEnd
  <2> HIDE DEF Referenced
  <2> QED BY <1>16, <2>4 DEF ListEnd
<1>17. ASSUME NEW r \in Requests, ListJson(r), UNCHANGED up PROVE SessionLifetime'
  <2> HIDE DEF TypeOK, BuiltInv, SessionLifetime
  <2>1. DropRefs(r) /\ UNCHANGED <<sessions, built>>
    BY <1>17 DEF ListJson
  <2> QED BY <2>1, DropKeepsLifetime
<1>18. ASSUME NEW r \in Requests, ListCrash(r) PROVE SessionLifetime'
  BY <1>18 DEF ListCrash
<1>19. CASE UNCHANGED vars
  BY <1>19 DEF vars
<1> QED
  BY <1>1, <1>2, <1>3, <1>4, <1>5, <1>6, <1>7, <1>8, <1>9, <1>10, <1>11, <1>12, <1>13, <1>14, <1>15, <1>16, <1>17, <1>18, <1>19 DEF Next, Arrive, Progress

\* A store is one more than what was read, which was within the bound.
LEMMA CountStep ==
  ASSUME TypeOK, RequestInv, CountWithinTouches, SeenInv, [Next]_vars PROVE (CountWithinTouches /\ SeenInv)'
<1> USE NilIsNew DEF TypeOK, RequestInv, CountWithinTouches, SeenInv, Goto, Answer, mapVars, objVars, refVars
<1>1. ASSUME NEW r \in Requests, NEW a \in Asks, Begin(r, a), UNCHANGED up PROVE (CountWithinTouches /\ SeenInv)'
  BY <1>1 DEF Begin
<1>2. ASSUME NEW r \in Requests, Malformed(r), UNCHANGED up PROVE (CountWithinTouches /\ SeenInv)'
  BY <1>2 DEF Malformed
<1>3. ASSUME NEW r \in Requests, InvalidKey(r), UNCHANGED up PROVE (CountWithinTouches /\ SeenInv)'
  BY <1>3 DEF InvalidKey
<1>4. ASSUME NEW r \in Requests, CreateLock(r), UNCHANGED up PROVE (CountWithinTouches /\ SeenInv)'
  BY <1>4 DEF CreateLock, CanLock
<1>5. ASSUME NEW r \in Requests, CreateCheck(r), UNCHANGED up PROVE (CountWithinTouches /\ SeenInv)'
  BY <1>5 DEF CreateCheck, CanLock
<1>6. ASSUME NEW r \in Requests, CreateLoad(r), UNCHANGED up PROVE (CountWithinTouches /\ SeenInv)'
  BY <1>6 DEF CreateLoad
<1>7. ASSUME NEW r \in Requests, CreateEmplace(r), UNCHANGED up PROVE (CountWithinTouches /\ SeenInv)'
  BY <1>7 DEF CreateEmplace, ObserveMap, CanLock
<1>8. ASSUME NEW r \in Requests, Lookup(r), UNCHANGED up PROVE (CountWithinTouches /\ SeenInv)'
  BY <1>8 DEF Lookup, CanLock
<1>9. ASSUME NEW r \in Requests, Json(r), UNCHANGED up PROVE (CountWithinTouches /\ SeenInv)'
  BY <1>9 DEF Json, DropRefs
<1>10. ASSUME NEW r \in Requests, TouchRead(r), UNCHANGED up PROVE (CountWithinTouches /\ SeenInv)'
  BY <1>10 DEF TouchRead
<1>11. ASSUME NEW r \in Requests, TouchWrite(r), UNCHANGED up PROVE (CountWithinTouches /\ SeenInv)'
  BY <1>11 DEF TouchWrite
<1>12. ASSUME NEW r \in Requests, BuildContext(r), UNCHANGED up PROVE (CountWithinTouches /\ SeenInv)'
  BY <1>12 DEF BuildContext, DropRefs
<1>13. ASSUME NEW r \in Requests, ExecuteRun(r), UNCHANGED up PROVE (CountWithinTouches /\ SeenInv)'
  BY <1>13 DEF ExecuteRun, DropRefs
<1>14. ASSUME NEW r \in Requests, Remove(r), UNCHANGED up PROVE (CountWithinTouches /\ SeenInv)'
  BY <1>14 DEF Remove, ObserveMap, CanLock
<1>15. ASSUME NEW r \in Requests, ListBegin(r), UNCHANGED up PROVE (CountWithinTouches /\ SeenInv)'
  BY <1>15 DEF ListBegin
<1>16. ASSUME NEW r \in Requests, ListEnd(r), UNCHANGED up PROVE (CountWithinTouches /\ SeenInv)'
  BY <1>16 DEF ListEnd
<1>17. ASSUME NEW r \in Requests, ListJson(r), UNCHANGED up PROVE (CountWithinTouches /\ SeenInv)'
  BY <1>17 DEF ListJson, DropRefs
<1>18. ASSUME NEW r \in Requests, ListCrash(r) PROVE (CountWithinTouches /\ SeenInv)'
  BY <1>18 DEF ListCrash
<1>19. CASE UNCHANGED vars
  BY <1>19 DEF vars
<1> QED
  BY <1>1, <1>2, <1>3, <1>4, <1>5, <1>6, <1>7, <1>8, <1>9, <1>10, <1>11, <1>12, <1>13, <1>14, <1>15, <1>16, <1>17, <1>18, <1>19 DEF Next, Arrive, Progress

-----------------------------------------------------------------------------
\* Initially nothing is registered, nobody runs and every count is zero.
LEMMA InitIInv == Init => IInv
<1> SUFFICES ASSUME Init PROVE IInv
  OBVIOUS
<1> USE NilIsNew DEF Init
<1>1. TypeOK
  BY DEF TypeOK, Answers, PC
<1>2. RequestInv /\ BuiltInv
  BY DEF RequestInv, BuiltInv
<1>3. CheckStillHolds /\ RightSession
  BY DEF CheckStillHolds, RightSession
<1>4. SessionLifetime /\ CountWithinTouches /\ SeenInv
  BY DEF SessionLifetime, CountWithinTouches, SeenInv
<1> QED
  BY <1>1, <1>2, <1>3, <1>4 DEF IInv

\* The inductive step, put together from the lemmas above.
LEMMA StepIInv == ASSUME IInv, [Next]_vars PROVE IInv'
  BY TypeStep, RequestStep, MutexStep, BuiltStep, RightStep, LifetimeStep, CountStep
  DEF IInv

\* The inductive invariant holds in every reachable state.
THEOREM ManagerInvariant == Spec => []IInv
  BY InitIInv, StepIInv, PTL DEF Spec

\* Types are respected, and a thread has a session_ptr exactly between the
\* look-up (or the construction) and the end of its request.
THEOREM ManagerTypeCorrect == Spec => []TypeOK
<1>1. IInv => TypeOK
  BY DEF IInv
<1> QED
  BY <1>1, ManagerInvariant, PTL

\* What create_session checked under the mutex is still true when it emplaces.
THEOREM ManagerCheckStillHolds == Spec => []CheckStillHolds
<1>1. IInv => CheckStillHolds
  BY DEF IInv
<1> QED
  BY <1>1, ManagerInvariant, PTL

\* A session is found under its own key only, and a thread works on a session
\* of the key it was asked for.
THEOREM ManagerRightSession == Spec => []RightSession
<1>1. IInv => RightSession
  BY DEF IInv
<1> QED
  BY <1>1, ManagerInvariant, PTL

\* No session is destroyed while a thread uses it, and none is leaked.
THEOREM ManagerSessionLifetime == Spec => []SessionLifetime
<1>1. IInv => SessionLifetime
  BY DEF IInv
<1> QED
  BY <1>1, ManagerInvariant, PTL

\* The racing increment of execution_count never exceeds the executions, and
\* never loses all of them.
THEOREM ManagerCountWithinTouches == Spec => []CountWithinTouches
<1>1. IInv => CountWithinTouches
  BY DEF IInv
<1> QED
  BY <1>1, ManagerInvariant, PTL

-----------------------------------------------------------------------------
\* A step that changes what is registered under a key is either the emplace
\* of a create that found it free or a successful destroy.
THEOREM ManagerOnlyDestroyUnregisters == Spec => OnlyDestroyUnregisters
<1> DEFINE Step == \A k \in Keys : sessions[k] # Nil /\ sessions'[k] # sessions[k] =>
                     /\ sessions'[k] = Nil
                     /\ \E r \in Requests : /\ ask[r] = <<"destroy", k>>
                                            /\ answer[r] = "none" /\ answer'[r] = "ok"
<1>1. ASSUME IInv, [Next]_vars PROVE [Step]_vars
  <2> USE NilIsNew DEF IInv, TypeOK, mapVars
  <2>1. ASSUME NEW r \in Requests, CreateEmplace(r) PROVE Step
    BY <1>1, <2>1 DEF CreateEmplace
  <2>2. ASSUME NEW r \in Requests, Remove(r) PROVE Step
    <3>1. CASE sessions[key(r)] = Nil
      BY <2>2, <3>1 DEF Remove
    <3>2. CASE sessions[key(r)] # Nil
      <4>1. key(r) \in Keys /\ answer'[r] = "ok" /\ answer[r] = "none"
        BY <1>1, <2>2, <3>2 DEF Remove, Answer, RequestInv
      <4>2. ask[r] = <<"destroy", key(r)>>
        BY <1>1, <2>2 DEF Remove, RequestInv, Asks, Ops, op, key
      <4>3. \A k \in Keys : sessions'[k] = IF k = key(r) THEN Nil ELSE sessions[k]
        BY <1>1, <2>2, <3>2 DEF Remove
      <4> HIDE DEF IInv
      <4> QED
        BY <4>1, <4>2, <4>3
    <3> QED
      BY <3>1, <3>2
  <2>3. ASSUME UNCHANGED sessions PROVE Step
    BY <2>3
  <2>4. CASE UNCHANGED vars
    BY <2>4
  <2> HIDE DEF Step, IInv, TypeOK
  <2>5. ASSUME NEW r \in Requests, Progress(r) PROVE Step
    <3>1. InvalidKey(r) \/ CreateLock(r) \/ CreateCheck(r) \/ CreateLoad(r) => UNCHANGED sessions
      BY DEF InvalidKey, CreateLock, CreateCheck, CreateLoad
    <3>2. Lookup(r) \/ Json(r) \/ TouchRead(r) \/ TouchWrite(r) => UNCHANGED sessions
      BY DEF Lookup, Json, TouchRead, TouchWrite
    <3>3. BuildContext(r) \/ ExecuteRun(r) => UNCHANGED sessions
      BY DEF BuildContext, ExecuteRun
    <3>4. ListBegin(r) \/ ListEnd(r) \/ ListJson(r) => UNCHANGED sessions
      BY DEF ListBegin, ListEnd, ListJson
    <3> QED
      BY <2>1, <2>2, <2>3, <2>5, <3>1, <3>2, <3>3, <3>4 DEF Progress
  <2>6. ASSUME NEW r \in Requests, Arrive(r) \/ ListCrash(r) PROVE Step
    BY <2>3, <2>6 DEF Arrive, Malformed, Begin, ListCrash
  <2> QED
    BY <1>1, <2>4, <2>5, <2>6 DEF Next
<1> QED
  BY <1>1, ManagerInvariant, PTL DEF Spec, OnlyDestroyUnregisters

-----------------------------------------------------------------------------
(* The refinement: seen through ask, answer and the map, every step of a
   request thread is a step of the atomic SessionRegistry or changes nothing.
   The mutex is what makes it true for create: the registry step happens at
   the emplace, and only CheckStillHolds says that the key is still free. *)

\* The initial states agree.
LEMMA InitRegistry == Init => Registry!Init
  BY DEF Init, Registry!Init

\* The steps that only concern the thread itself are stutters.
LEMMA SilentSteps ==
  ASSUME NEW r \in Requests,
         \/ CreateLock(r) \/ TouchRead(r) \/ TouchWrite(r)
         \/ ListBegin(r) \/ ListEnd(r) \/ ListCrash(r)
  PROVE  UNCHANGED Registry!rvars
<1> USE DEF Registry!rvars, mapVars
<1>1. CASE CreateLock(r) \/ TouchRead(r) \/ TouchWrite(r)
  BY <1>1 DEF CreateLock, TouchRead, TouchWrite
<1>2. CASE ListBegin(r) \/ ListEnd(r) \/ ListCrash(r)
  BY <1>2 DEF ListBegin, ListEnd, ListCrash
<1> QED
  BY <1>1, <1>2

\* A request arrives, or is rejected before it reaches the manager.
LEMMA ArrivalSteps ==
  ASSUME IInv, NEW r \in Requests, Arrive(r) \/ InvalidKey(r)
  PROVE  Registry!Next
<1> USE DEF IInv, RequestInv, mapVars
<1>1. ASSUME NEW a \in Asks, Begin(r, a) PROVE Registry!Ask(r, a)
  BY <1>1 DEF Begin, Registry!Ask
<1>2. ASSUME Malformed(r) \/ InvalidKey(r) PROVE Registry!Failed(r)
  <2>1. answer[r] = "none"
    BY <1>2 DEF Malformed, InvalidKey
  <2>2. UNCHANGED <<ask, sessions>> /\ \E a \in {"bad_request", "error"} : Answer(r, a)
    BY <1>2 DEF Malformed, InvalidKey
  <2> QED
    BY <2>1, <2>2 DEF Answer, Registry!Failed, Registry!Decide
<1> QED
  BY <1>1, <1>2 DEF Arrive, Registry!Next, Asks, Ops, Registry!Asks, Registry!Ops

\* create_session: a taken key is a Conflict, a model that cannot be loaded is
\* Failed, and the emplace is Created.
LEMMA CreateSteps ==
  ASSUME IInv, NEW r \in Requests, CreateCheck(r) \/ CreateLoad(r) \/ CreateEmplace(r)
  PROVE  [Registry!Next]_Registry!rvars
<1>1. PICK k \in Keys : ask[r] = <<"create", k>>
  BY DEF IInv, RequestInv, CreateCheck, CreateLoad, CreateEmplace
<1>2. key(r) = k /\ answer[r] = "none"
  BY <1>1 DEF IInv, RequestInv, CreateCheck, CreateLoad, CreateEmplace, key
<1> USE DEF mapVars, Answer, Registry!Decide
<1>3. CASE CreateCheck(r)
  <2>1. CASE sessions[k] # Nil
    <3>1. Registry!Conflict(r, k)
      BY <1>1, <1>2, <1>3, <2>1 DEF CreateCheck, Registry!Conflict
    <3> QED
      BY <3>1 DEF Registry!Next
  <2>2. CASE sessions[k] = Nil
    BY <1>2, <1>3, <2>2 DEF CreateCheck, Registry!rvars
  <2> QED
    BY <2>1, <2>2
<1>4. CASE CreateLoad(r)
  <2>1. CASE UNCHANGED answer
    BY <1>4, <2>1 DEF CreateLoad, Registry!rvars
  <2>2. CASE Answer(r, "error")
    <3>1. Registry!Failed(r)
      BY <1>2, <1>4, <2>2 DEF CreateLoad, Registry!Failed
    <3> QED
      BY <3>1 DEF Registry!Next
  <2> QED
    BY <1>4, <2>1, <2>2 DEF CreateLoad
<1>5. CASE CreateEmplace(r)
  <2>1. sessions[k] = Nil
    BY <1>2, <1>5 DEF IInv, CheckStillHolds, CreateEmplace
  <2>2. Registry!Created(r, k)
    BY <1>1, <1>2, <1>5, <2>1 DEF CreateEmplace, Registry!Created
  <2> QED
    BY <2>2 DEF Registry!Next
<1> QED
  BY <1>3, <1>4, <1>5

\* A look-up is Found or NotFound, a removal Removed or NotFound: one step
\* under the mutex is one step of the registry.
LEMMA AccessSteps ==
  ASSUME IInv, NEW r \in Requests, Lookup(r) \/ Remove(r)
  PROVE  Registry!Next
<1> USE DEF mapVars, Answer, Registry!Decide, Registry!Ops
<1>1. PICK k \in Keys : key(r) = k
  BY DEF Lookup, Remove
<1>2. ask[r] = <<op(r), k>> /\ answer[r] = "none"
  BY <1>1 DEF IInv, RequestInv, Lookup, Remove, Asks, Ops, op, key
<1>3. CASE Lookup(r)
  <2>1. op(r) \in {"get", "execute"}
    BY <1>3 DEF Lookup
  <2>2. CASE sessions[k] = Nil
    <3>1. Registry!NotFound(r, k)
      BY <1>1, <1>2, <1>3, <2>1, <2>2 DEF Lookup, Registry!NotFound
    <3> QED
      BY <3>1 DEF Registry!Next
  <2>3. CASE sessions[k] # Nil
    <3>1. Registry!Found(r, k)
      BY <1>1, <1>2, <1>3, <2>1, <2>3 DEF Lookup, Registry!Found
    <3> QED
      BY <3>1 DEF Registry!Next
  <2> QED
    BY <2>2, <2>3
<1>4. CASE Remove(r)
  <2>1. op(r) = "destroy"
    BY <1>4 DEF Remove
  <2>2. CASE sessions[k] = Nil
    <3>1. Registry!NotFound(r, k)
      BY <1>1, <1>2, <1>4, <2>1, <2>2 DEF Remove, Registry!NotFound
    <3> QED
      BY <3>1 DEF Registry!Next
  <2>3. CASE sessions[k] # Nil
    <3>1. Registry!Removed(r, k)
      BY <1>1, <1>2, <1>4, <2>1, <2>3 DEF Remove, Registry!Removed
    <3> QED
      BY <3>1 DEF Registry!Next
  <2> QED
    BY <2>2, <2>3
<1> QED
  BY <1>3, <1>4

\* The end of a request: Served for what was looked up, Listed for a list, and
\* a stutter for a create, which was answered at its emplace.
LEMMA EndSteps ==
  ASSUME IInv, NEW r \in Requests, Json(r) \/ BuildContext(r) \/ ExecuteRun(r) \/ ListJson(r)
  PROVE  [Registry!Next]_Registry!rvars
<1> USE DEF mapVars, Answer, Registry!Decide
<1>1. CASE Json(r)
  <2>1. CASE answer[r] = "found"
    <3>1. Registry!Served(r)
      BY <1>1, <2>1 DEF Json, Registry!Served
    <3> QED
      BY <3>1 DEF Registry!Next
  <2>2. CASE answer[r] = "ok"
    <3>1. answer' = answer
      BY <1>1, <2>2 DEF Json, IInv, TypeOK
    <3> QED
      BY <1>1, <3>1 DEF Json, Registry!rvars
  <2> QED
    BY <1>1, <2>1, <2>2 DEF Json, IInv, RequestInv
<1>2. CASE BuildContext(r)
  <2>1. answer[r] = "found"
    BY <1>2 DEF BuildContext, IInv, RequestInv
  <2>2. CASE UNCHANGED answer
    BY <1>2, <2>2 DEF BuildContext, Registry!rvars
  <2>3. CASE \E a \in {"bad_request", "error"} : Answer(r, a)
    <3>1. Registry!Served(r)
      BY <1>2, <2>1, <2>3 DEF BuildContext, Registry!Served
    <3> QED
      BY <3>1 DEF Registry!Next
  <2> QED
    BY <1>2, <2>2, <2>3 DEF BuildContext
<1>3. CASE ExecuteRun(r)
  <2>1. Registry!Served(r)
    BY <1>3 DEF ExecuteRun, Registry!Served, IInv, RequestInv
  <2> QED
    BY <2>1 DEF Registry!Next
<1>4. CASE ListJson(r)
  <2>1. Registry!Listed(r)
    BY <1>4 DEF ListJson, Registry!Listed, IInv, RequestInv
  <2> QED
    BY <2>1 DEF Registry!Next
<1> QED
  BY <1>1, <1>2, <1>3, <1>4

\* session_manager and its mutex behave as an atomic registry, whatever the
\* number of requests and keys.
THEOREM ManagerImplementsRegistry == Spec => ImplementsRegistry
<1>1. Init => Registry!Init
  BY InitRegistry
<1>2. ASSUME IInv, [Next]_vars PROVE [Registry!Next]_Registry!rvars
  <2>1. ASSUME NEW r \in Requests, Arrive(r) \/ Progress(r) \/ ListCrash(r)
        PROVE  [Registry!Next]_Registry!rvars
    BY <1>2, <2>1, SilentSteps, ArrivalSteps, CreateSteps, AccessSteps, EndSteps DEF Progress
  <2>2. CASE UNCHANGED vars
    BY <2>2 DEF vars, mapVars, Registry!rvars
  <2> QED
    BY <1>2, <2>1, <2>2 DEF Next
<1> QED
  BY <1>1, <1>2, ManagerInvariant, PTL DEF Spec, ImplementsRegistry, Registry!Spec
=============================================================================
