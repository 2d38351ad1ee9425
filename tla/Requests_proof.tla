---------------------------- MODULE Requests_proof ---------------------------
(***************************************************************************)
(* Proofs about Requests, for any devices, interfaces and calls.           *)
(***************************************************************************)
EXTENDS Requests, TLAPS

\* What a device defines belongs to interfaces.
LEMMA MembersTyped ==
  ASSUME NEW r \in Root
  PROVE  Members[r] \subseteq Member /\ InterfacesOf(r) \subseteq Interface
BY MemberAssumption DEF InterfacesOf

\* A call that began asks a device for something it defines.
LEMMA TargetTyped ==
  ASSUME TypeOK, RootInv, NEW c \in Call, pc[c] # "idle"
  PROVE  /\ target[c] \in Targets /\ target[c].root \in Root
         /\ target[c].member \in Members[target[c].root] /\ target[c].member \in Member
         /\ Wanted(c) \in InterfacesOf(target[c].root) /\ Wanted(c) \in Interface
<1>1. target[c] \in Targets
  BY DEF RootInv
<1>2. target[c].root \in Root /\ target[c].member \in Members[target[c].root]
  BY <1>1 DEF Targets
<1> QED
  BY <1>1, <1>2, MembersTyped DEF Wanted, InterfacesOf

\* Every step keeps the types.
LEMMA TypeStep ==
  TypeOK /\ RootInv /\ AnswerInv /\ [Next]_vars => TypeOK'
<1> SUFFICES ASSUME TypeOK, RootInv, AnswerInv, [Next]_vars PROVE TypeOK'
  OBVIOUS
<1> USE DEF publishVars, downVars, callVars, adapterVars, historyVars
<1>1. CASE EndInsert
  BY <1>1 DEF EndInsert, TypeOK
<1>2. CASE RegisterBusObject
  BY <1>2 DEF RegisterBusObject, TypeOK
<1>3. CASE PublishFails
  BY <1>3 DEF PublishFails, TypeOK
<1>4. ASSUME NEW r \in Root, PublishInternal(r) PROVE TypeOK'
  <2>1. InterfacesOf(r) \subseteq Interface
    BY MembersTyped
  <2> QED BY <1>4, <2>1 DEF PublishInternal, TypeOK
<1>5. ASSUME NEW i \in Interface, BeginInsert(i) PROVE TypeOK'
  BY <1>5 DEF BeginInsert, TypeOK
<1>6. ASSUME NEW i \in Interface, SkipInterface(i) PROVE TypeOK'
  BY <1>6 DEF SkipInterface, TypeOK
<1>7. CASE HitEnter
  BY <1>7 DEF HitEnter, TypeOK
<1>8. ASSUME NEW r \in Root, StopBus(r) PROVE TypeOK'
  BY <1>8 DEF StopBus, TypeOK
<1>9. ASSUME NEW r \in Root, FreeObject(r) PROVE TypeOK'
  BY <1>9 DEF FreeObject, TypeOK
<1>10. CASE ShutdownAdapter
  BY <1>10 DEF ShutdownAdapter, TypeOK
<1>11. ASSUME NEW c \in Call, CallAdapter(c) PROVE TypeOK'
  <2>1. Wanted(c) \in Interface
    BY <1>11, TargetTyped DEF CallAdapter
  <2> QED BY <1>11, <2>1 DEF CallAdapter, TypeOK
<1>12. ASSUME NEW c \in Call, CacheMiss(c) PROVE TypeOK'
  BY <1>12 DEF CacheMiss, Return, TypeOK
<1>13. ASSUME NEW c \in Call, LookupCrash(c) PROVE TypeOK'
  BY <1>13 DEF LookupCrash, TypeOK
<1>14. ASSUME NEW c \in Call, BeginWait(c) PROVE TypeOK'
  BY <1>14 DEF BeginWait, TypeOK
<1>15. ASSUME NEW c \in Call, AdapterRefuses(c) PROVE TypeOK'
  BY <1>15 DEF AdapterRefuses, Return, TypeOK
<1>16. ASSUME NEW c \in Call, WaitSucceeds(c) PROVE TypeOK'
  BY <1>16 DEF WaitSucceeds, Return, Replaced, TypeOK
<1>17. ASSUME NEW c \in Call, WaitTimesOut(c) PROVE TypeOK'
  BY <1>17 DEF WaitTimesOut, Return, TypeOK
<1>18. ASSUME NEW c \in Call, Serve(c) PROVE TypeOK'
  <2>1. pc[c] # "idle"
    BY <1>18 DEF Serve, AnswerInv
  <2>2. target[c].member \in Member
    BY <2>1, TargetTyped
  <2> QED BY <1>18, <2>2 DEF Serve, TypeOK
<1>19. ASSUME NEW c \in Call, Complete(c) PROVE TypeOK'
  BY <1>19 DEF Complete, TypeOK
<1>20. ASSUME NEW c \in Call, NEW t \in Targets, Dispatch(c, t) PROVE TypeOK'
  <2>1. [stale |-> stale, done |-> Finished] \in [stale : SUBSET Call, done : SUBSET Call]
    BY DEF Finished, TypeOK
  <2> QED BY <1>20, <2>1 DEF Dispatch, TypeOK
<1>21. CASE UNCHANGED vars
  BY <1>21 DEF vars, TypeOK
<1>22. CASE Announce
  BY <1>22 DEF Announce, TypeOK
<1>23. CASE ExitOnError
  BY <1>23 DEF ExitOnError, TypeOK
<1> QED
  BY <1>1, <1>2, <1>3, <1>4, <1>5, <1>6, <1>7, <1>8, <1>9, <1>10, <1>11, <1>12, <1>13, <1>14, <1>15, <1>16, <1>17, <1>18, <1>19, <1>20, <1>21,
     <1>22, <1>23
     DEF Next, Publish, TakeDown, Handle, Over

\* What main does with the roots stays in order.
LEMMA RootStep ==
  TypeOK /\ RootInv /\ [Next]_vars => RootInv'
<1> SUFFICES ASSUME TypeOK, RootInv, [Next]_vars PROVE RootInv'
  OBVIOUS
<1> USE DEF publishVars, downVars, callVars, adapterVars, historyVars
<1>1. CASE EndInsert
  BY <1>1 DEF EndInsert, RootInv, TypeOK, Active
<1>2. CASE RegisterBusObject
  BY <1>2, NothingAssumption DEF RegisterBusObject, RootInv, TypeOK, Active
<1>3. CASE PublishFails
  BY <1>3, NothingAssumption DEF PublishFails, RootInv, TypeOK, Active
<1>4. ASSUME NEW r \in Root, PublishInternal(r) PROVE RootInv'
  BY <1>4 DEF PublishInternal, RootInv, TypeOK, Active
<1>5. ASSUME NEW i \in Interface, BeginInsert(i) PROVE RootInv'
  BY <1>5 DEF BeginInsert, RootInv, TypeOK, Active
<1>6. ASSUME NEW i \in Interface, SkipInterface(i) PROVE RootInv'
  BY <1>6 DEF SkipInterface, RootInv, TypeOK, Active
<1>7. CASE HitEnter
  BY <1>7 DEF HitEnter, RootInv, TypeOK, Active
<1>8. ASSUME NEW r \in Root, StopBus(r) PROVE RootInv'
  BY <1>8 DEF StopBus, RootInv, TypeOK, Active
<1>9. ASSUME NEW r \in Root, FreeObject(r) PROVE RootInv'
  BY <1>9 DEF FreeObject, RootInv, TypeOK, Active
<1>10. CASE ShutdownAdapter
  BY <1>10 DEF ShutdownAdapter, RootInv, TypeOK, Active
<1>11. ASSUME NEW c \in Call, CallAdapter(c) PROVE RootInv'
  BY <1>11 DEF CallAdapter, RootInv, TypeOK, Active
<1>12. ASSUME NEW c \in Call, CacheMiss(c) PROVE RootInv'
  BY <1>12 DEF CacheMiss, Return, RootInv, TypeOK, Active
<1>13. ASSUME NEW c \in Call, LookupCrash(c) PROVE RootInv'
  BY <1>13 DEF LookupCrash, RootInv, TypeOK, Active
<1>14. ASSUME NEW c \in Call, BeginWait(c) PROVE RootInv'
  BY <1>14 DEF BeginWait, RootInv, TypeOK, Active
<1>15. ASSUME NEW c \in Call, AdapterRefuses(c) PROVE RootInv'
  BY <1>15 DEF AdapterRefuses, Return, RootInv, TypeOK, Active
<1>16. ASSUME NEW c \in Call, WaitSucceeds(c) PROVE RootInv'
  BY <1>16 DEF WaitSucceeds, Return, Replaced, RootInv, TypeOK, Active
<1>17. ASSUME NEW c \in Call, WaitTimesOut(c) PROVE RootInv'
  BY <1>17 DEF WaitTimesOut, Return, RootInv, TypeOK, Active
<1>18. ASSUME NEW c \in Call, Serve(c) PROVE RootInv'
  BY <1>18 DEF Serve, RootInv, TypeOK, Active
<1>19. ASSUME NEW c \in Call, Complete(c) PROVE RootInv'
  BY <1>19 DEF Complete, RootInv, TypeOK, Active
<1>20. ASSUME NEW c \in Call, NEW t \in Targets, Dispatch(c, t) PROVE RootInv'
  BY <1>20 DEF Dispatch, RootInv, TypeOK, Active
<1>21. CASE UNCHANGED vars
  BY <1>21 DEF vars, RootInv, TypeOK, Active
<1>22. CASE Announce
  BY <1>22, NothingAssumption DEF Announce, RootInv, TypeOK, Active
<1>23. CASE ExitOnError
  BY <1>23, NothingAssumption DEF ExitOnError, RootInv, TypeOK, Active
<1> QED
  BY <1>1, <1>2, <1>3, <1>4, <1>5, <1>6, <1>7, <1>8, <1>9, <1>10, <1>11, <1>12, <1>13, <1>14, <1>15, <1>16, <1>17, <1>18, <1>19, <1>20, <1>21,
     <1>22, <1>23
     DEF Next, Publish, TakeDown, Handle, Over

\* Nothing in the cache is replaced, and it is filled in time.
LEMMA CacheStep ==
  TypeOK /\ RootInv /\ CacheInv /\ [Next]_vars => CacheInv'
<1> SUFFICES ASSUME TypeOK, RootInv, CacheInv, [Next]_vars PROVE CacheInv'
  OBVIOUS
<1> USE DEF publishVars, downVars, callVars, adapterVars, historyVars
<1>1. CASE EndInsert
  BY <1>1 DEF EndInsert, CacheInv, TypeOK, Wanted
<1>2. CASE RegisterBusObject
  BY <1>2 DEF RegisterBusObject, CacheInv, TypeOK, Wanted
<1>3. CASE PublishFails
  BY <1>3 DEF PublishFails, CacheInv, TypeOK, Wanted
<1>4. ASSUME NEW r \in Root, PublishInternal(r) PROVE CacheInv'
  BY <1>4, NothingAssumption DEF PublishInternal, CacheInv, TypeOK, Wanted
<1>5. ASSUME NEW i \in Interface, BeginInsert(i) PROVE CacheInv'
  BY <1>5 DEF BeginInsert, CacheInv, TypeOK, Wanted
<1>6. ASSUME NEW i \in Interface, SkipInterface(i) PROVE CacheInv'
  BY <1>6 DEF SkipInterface, CacheInv, TypeOK, Wanted
<1>7. CASE HitEnter
  BY <1>7 DEF HitEnter, CacheInv, TypeOK, Wanted
<1>8. ASSUME NEW r \in Root, StopBus(r) PROVE CacheInv'
  BY <1>8 DEF StopBus, CacheInv, TypeOK, Wanted
<1>9. ASSUME NEW r \in Root, FreeObject(r) PROVE CacheInv'
  BY <1>9 DEF FreeObject, CacheInv, TypeOK, Wanted
<1>10. CASE ShutdownAdapter
  BY <1>10 DEF ShutdownAdapter, CacheInv, TypeOK, Wanted
<1>11. ASSUME NEW c \in Call, CallAdapter(c) PROVE CacheInv'
  BY <1>11 DEF CallAdapter, CacheInv, TypeOK, Wanted
<1>12. ASSUME NEW c \in Call, CacheMiss(c) PROVE CacheInv'
  BY <1>12 DEF CacheMiss, Return, CacheInv, TypeOK, Wanted
<1>13. ASSUME NEW c \in Call, LookupCrash(c) PROVE CacheInv'
  BY <1>13 DEF LookupCrash, CacheInv, TypeOK, Wanted
<1>14. ASSUME NEW c \in Call, BeginWait(c) PROVE CacheInv'
  BY <1>14 DEF BeginWait, CacheInv, TypeOK, Wanted
<1>15. ASSUME NEW c \in Call, AdapterRefuses(c) PROVE CacheInv'
  BY <1>15 DEF AdapterRefuses, Return, CacheInv, TypeOK, Wanted
<1>16. ASSUME NEW c \in Call, WaitSucceeds(c) PROVE CacheInv'
  BY <1>16 DEF WaitSucceeds, Return, Replaced, CacheInv, TypeOK, Wanted
<1>17. ASSUME NEW c \in Call, WaitTimesOut(c) PROVE CacheInv'
  BY <1>17 DEF WaitTimesOut, Return, CacheInv, TypeOK, Wanted
<1>18. ASSUME NEW c \in Call, Serve(c) PROVE CacheInv'
  BY <1>18 DEF Serve, CacheInv, TypeOK, Wanted
<1>19. ASSUME NEW c \in Call, Complete(c) PROVE CacheInv'
  BY <1>19 DEF Complete, CacheInv, TypeOK, Wanted
<1>20. ASSUME NEW c \in Call, NEW t \in Targets, Dispatch(c, t) PROVE CacheInv'
  BY <1>20 DEF Dispatch, CacheInv, TypeOK, Wanted
<1>21. CASE UNCHANGED vars
  BY <1>21 DEF vars, CacheInv, TypeOK, Wanted
<1>22. CASE Announce
  BY <1>22 DEF Announce, CacheInv, TypeOK, Wanted
<1>23. CASE ExitOnError
  BY <1>23 DEF ExitOnError, CacheInv, TypeOK, Wanted
<1> QED
  BY <1>1, <1>2, <1>3, <1>4, <1>5, <1>6, <1>7, <1>8, <1>9, <1>10, <1>11, <1>12, <1>13, <1>14, <1>15, <1>16, <1>17, <1>18, <1>19, <1>20, <1>21,
     <1>22, <1>23
     DEF Next, Publish, TakeDown, Handle, Over

\* A handler answers "ok" only to what is complete.
LEMMA AnswerStep ==
  TypeOK /\ AnswerInv /\ [Next]_vars => AnswerInv'
<1> SUFFICES ASSUME TypeOK, AnswerInv, [Next]_vars PROVE AnswerInv'
  OBVIOUS
<1> USE DEF publishVars, downVars, callVars, adapterVars, historyVars
<1>1. CASE EndInsert
  BY <1>1 DEF EndInsert, AnswerInv, TypeOK
<1>2. CASE RegisterBusObject
  BY <1>2 DEF RegisterBusObject, AnswerInv, TypeOK
<1>3. CASE PublishFails
  BY <1>3 DEF PublishFails, AnswerInv, TypeOK
<1>4. ASSUME NEW r \in Root, PublishInternal(r) PROVE AnswerInv'
  BY <1>4 DEF PublishInternal, AnswerInv, TypeOK
<1>5. ASSUME NEW i \in Interface, BeginInsert(i) PROVE AnswerInv'
  BY <1>5 DEF BeginInsert, AnswerInv, TypeOK
<1>6. ASSUME NEW i \in Interface, SkipInterface(i) PROVE AnswerInv'
  BY <1>6 DEF SkipInterface, AnswerInv, TypeOK
<1>7. CASE HitEnter
  BY <1>7 DEF HitEnter, AnswerInv, TypeOK
<1>8. ASSUME NEW r \in Root, StopBus(r) PROVE AnswerInv'
  BY <1>8 DEF StopBus, AnswerInv, TypeOK
<1>9. ASSUME NEW r \in Root, FreeObject(r) PROVE AnswerInv'
  BY <1>9 DEF FreeObject, AnswerInv, TypeOK
<1>10. CASE ShutdownAdapter
  BY <1>10 DEF ShutdownAdapter, AnswerInv, TypeOK
<1>11. ASSUME NEW c \in Call, CallAdapter(c) PROVE AnswerInv'
  BY <1>11 DEF CallAdapter, AnswerInv, TypeOK
<1>12. ASSUME NEW c \in Call, CacheMiss(c) PROVE AnswerInv'
  BY <1>12 DEF CacheMiss, Return, AnswerInv, TypeOK
<1>13. ASSUME NEW c \in Call, LookupCrash(c) PROVE AnswerInv'
  BY <1>13 DEF LookupCrash, AnswerInv, TypeOK
<1>14. ASSUME NEW c \in Call, BeginWait(c) PROVE AnswerInv'
  BY <1>14 DEF BeginWait, AnswerInv, TypeOK
<1>15. ASSUME NEW c \in Call, AdapterRefuses(c) PROVE AnswerInv'
  BY <1>15 DEF AdapterRefuses, Return, AnswerInv, TypeOK
<1>16. ASSUME NEW c \in Call, WaitSucceeds(c) PROVE AnswerInv'
  BY <1>16 DEF WaitSucceeds, Return, Replaced, AnswerInv, TypeOK
<1>17. ASSUME NEW c \in Call, WaitTimesOut(c) PROVE AnswerInv'
  BY <1>17 DEF WaitTimesOut, Return, AnswerInv, TypeOK
<1>18. ASSUME NEW c \in Call, Serve(c) PROVE AnswerInv'
  BY <1>18 DEF Serve, AnswerInv, TypeOK
<1>19. ASSUME NEW c \in Call, Complete(c) PROVE AnswerInv'
  BY <1>19 DEF Complete, AnswerInv, TypeOK
<1>20. ASSUME NEW c \in Call, NEW t \in Targets, Dispatch(c, t) PROVE AnswerInv'
  BY <1>20 DEF Dispatch, AnswerInv, TypeOK
<1>21. CASE UNCHANGED vars
  BY <1>21 DEF vars, AnswerInv, TypeOK
<1>22. CASE Announce
  BY <1>22 DEF Announce, AnswerInv, TypeOK
<1>23. CASE ExitOnError
  BY <1>23 DEF ExitOnError, AnswerInv, TypeOK
<1> QED
  BY <1>1, <1>2, <1>3, <1>4, <1>5, <1>6, <1>7, <1>8, <1>9, <1>10, <1>11, <1>12, <1>13, <1>14, <1>15, <1>16, <1>17, <1>18, <1>19, <1>20, <1>21,
     <1>22, <1>23
     DEF Next, Publish, TakeDown, Handle, Over

\* A Set that was replaced is not the value of the property again.
LEMMA StoreStep ==
  TypeOK /\ RootInv /\ AnswerInv /\ StoreInv /\ [Next]_vars => StoreInv'
<1> SUFFICES ASSUME TypeOK, RootInv, AnswerInv, StoreInv, [Next]_vars PROVE StoreInv'
  OBVIOUS
<1> USE DEF publishVars, downVars, callVars, adapterVars, historyVars
<1>1. CASE EndInsert
  BY <1>1 DEF EndInsert, AnswerInv, StoreInv, TypeOK, Finished
<1>2. CASE RegisterBusObject
  BY <1>2 DEF RegisterBusObject, AnswerInv, StoreInv, TypeOK, Finished
<1>3. CASE PublishFails
  BY <1>3 DEF PublishFails, AnswerInv, StoreInv, TypeOK, Finished
<1>4. ASSUME NEW r \in Root, PublishInternal(r) PROVE StoreInv'
  BY <1>4 DEF PublishInternal, AnswerInv, StoreInv, TypeOK, Finished
<1>5. ASSUME NEW i \in Interface, BeginInsert(i) PROVE StoreInv'
  BY <1>5 DEF BeginInsert, AnswerInv, StoreInv, TypeOK, Finished
<1>6. ASSUME NEW i \in Interface, SkipInterface(i) PROVE StoreInv'
  BY <1>6 DEF SkipInterface, AnswerInv, StoreInv, TypeOK, Finished
<1>7. CASE HitEnter
  BY <1>7 DEF HitEnter, AnswerInv, StoreInv, TypeOK, Finished
<1>8. ASSUME NEW r \in Root, StopBus(r) PROVE StoreInv'
  BY <1>8 DEF StopBus, AnswerInv, StoreInv, TypeOK, Finished
<1>9. ASSUME NEW r \in Root, FreeObject(r) PROVE StoreInv'
  BY <1>9 DEF FreeObject, AnswerInv, StoreInv, TypeOK, Finished
<1>10. CASE ShutdownAdapter
  BY <1>10 DEF ShutdownAdapter, AnswerInv, StoreInv, TypeOK, Finished
<1>11. ASSUME NEW c \in Call, CallAdapter(c) PROVE StoreInv'
  BY <1>11 DEF CallAdapter, AnswerInv, StoreInv, TypeOK, Finished
<1>12. ASSUME NEW c \in Call, CacheMiss(c) PROVE StoreInv'
  BY <1>12 DEF CacheMiss, Return, AnswerInv, StoreInv, TypeOK, Finished
<1>13. ASSUME NEW c \in Call, LookupCrash(c) PROVE StoreInv'
  BY <1>13 DEF LookupCrash, AnswerInv, StoreInv, TypeOK, Finished
<1>14. ASSUME NEW c \in Call, BeginWait(c) PROVE StoreInv'
  BY <1>14 DEF BeginWait, AnswerInv, StoreInv, TypeOK, Finished
<1>15. ASSUME NEW c \in Call, AdapterRefuses(c) PROVE StoreInv'
  BY <1>15 DEF AdapterRefuses, Return, AnswerInv, StoreInv, TypeOK, Finished
<1>16. ASSUME NEW c \in Call, WaitSucceeds(c) PROVE StoreInv'
  BY <1>16 DEF WaitSucceeds, Return, Replaced, AnswerInv, StoreInv, TypeOK, Finished
<1>17. ASSUME NEW c \in Call, WaitTimesOut(c) PROVE StoreInv'
  BY <1>17 DEF WaitTimesOut, Return, AnswerInv, StoreInv, TypeOK, Finished
<1>18. ASSUME NEW c \in Call, Serve(c) PROVE StoreInv'
  <2> DEFINE m == target[c].member
  <2>1. pc[c] # "idle" /\ work[c] = "pending" /\ c \notin Finished
    BY <1>18 DEF Serve, AnswerInv, Finished
  <2>2. m \in Member
    BY <2>1, TargetTyped
  <2>3. UNCHANGED <<target, outcome, stale, before>> /\ work' = [work EXCEPT ![c] = "served"]
    BY <1>18 DEF Serve
  <2>4. Finished' = Finished
    BY <2>3 DEF Finished
  <2>5. \A d \in Call : d \in Finished => d # c
    BY <2>1
  <2>6. CASE target[c].op = "set"
    <3>1. store' = [store EXCEPT ![m] = c] /\ got' = got
      BY <1>18, <2>6 DEF Serve
    <3>2. \A d \in stale : store'[target[d].member] # d
      BY <2>2, <2>5, <3>1 DEF StoreInv, TypeOK
    <3>3. \A e \in Call : target[e].op = "set" /\ work'[e] \in {"served", "closed"} =>
            \A d \in before[e].done :
              target[d].member = target[e].member => store'[target[d].member] # d
      <4> SUFFICES ASSUME NEW e \in Call, target[e].op = "set", work'[e] \in {"served", "closed"},
                          NEW d \in before[e].done, target[d].member = target[e].member
                   PROVE  store'[target[d].member] # d
        OBVIOUS
      <4>1. d \in Call /\ d # c
        BY <2>5 DEF StoreInv, Finished
      <4>2. CASE target[d].member = m
        BY <2>2, <3>1, <4>1, <4>2 DEF TypeOK
      <4>3. CASE target[d].member # m
        <5>1. e # c /\ work[e] \in {"served", "closed"}
          BY <2>3, <4>3 DEF TypeOK
        <5>2. pc[d] # "idle"
          BY <4>1 DEF StoreInv, AnswerInv, Finished
        <5>3. target[d].member \in Member
          BY <4>1, <5>2, TargetTyped
        <5>4. store'[target[d].member] = store[target[d].member]
          BY <3>1, <4>3, <5>3 DEF TypeOK
        <5> QED BY <5>1, <5>4 DEF StoreInv
      <4> QED BY <4>2, <4>3
    <3>4. \A n \in Member : store'[n] # Nothing =>
            target[store'[n]].member = n /\ work'[store'[n]] \in {"served", "closed"}
      BY <2>1, <2>2, <2>3, <3>1 DEF StoreInv, TypeOK
    <3> QED BY <2>3, <2>4, <3>1, <3>2, <3>3, <3>4 DEF StoreInv, TypeOK
  <2>7. CASE target[c].op # "set"
    <3>1. store' = store
      BY <1>18, <2>7 DEF Serve
    <3>2. \A e \in Call : e # c => got'[e] = got[e] /\ work'[e] = work[e]
      BY <1>18 DEF Serve, TypeOK
    <3>3. got'[c] \in {got[c], store[m]}
      BY <1>18 DEF Serve, TypeOK
    <3>4. store[m] \notin stale
      <4> SUFFICES ASSUME store[m] \in stale PROVE FALSE
        OBVIOUS
      <4>1. store[m] # Nothing
        BY NothingAssumption DEF TypeOK
      <4>2. target[store[m]].member = m
        BY <2>2, <4>1 DEF StoreInv
      <4> QED BY <4>2 DEF StoreInv
    <3>5. \A e \in Call : got'[e] \notin before[e].stale
      BY <3>2, <3>3, <3>4 DEF StoreInv
    <3>6. \A n \in Member : store[n] # Nothing => work'[store[n]] \in {"served", "closed"}
      BY <2>1, <2>3, <3>2 DEF StoreInv, TypeOK
    <3>7. \A e \in Call : work'[e] \in {"none", "pending"} => got'[e] = Nothing
      BY <2>3, <3>2 DEF StoreInv, TypeOK
    <3>8. \A e \in Call : target[e].op = "set" => work'[e] = work[e]
      BY <2>7, <3>2
    <3> QED BY <2>3, <2>4, <3>1, <3>5, <3>6, <3>7, <3>8 DEF StoreInv
  <2> QED BY <2>6, <2>7
<1>19. ASSUME NEW c \in Call, Complete(c) PROVE StoreInv'
  BY <1>19 DEF Complete, AnswerInv, StoreInv, TypeOK, Finished
<1>20. ASSUME NEW c \in Call, NEW t \in Targets, Dispatch(c, t) PROVE StoreInv'
  <2>1. outcome[c] = "none" /\ work[c] = "none" /\ Nothing \notin Call
    BY <1>20, NothingAssumption DEF Dispatch, AnswerInv, TypeOK
  <2>2. Finished' = Finished /\ c \notin Finished
    BY <1>20, <2>1 DEF Dispatch, Finished, TypeOK
  <2>3. \A d \in Call \ {c} : target'[d] = target[d] /\ before'[d] = before[d]
    BY <1>20 DEF Dispatch, TypeOK
  <2>4. before'[c].stale = stale /\ before'[c].done = Finished
    BY <1>20 DEF Dispatch, TypeOK
  <2>5. UNCHANGED <<work, store, stale, got>>
    BY <1>20 DEF Dispatch
  <2>6. \A m \in Member : store[m] # Nothing => store[m] \in Call \ {c}
    BY <2>1 DEF StoreInv, TypeOK
  <2>7. stale \subseteq Call \ {c} /\ got[c] = Nothing
    BY <2>1, <2>2 DEF StoreInv, TypeOK
  <2>8. \A d \in Call : before[d].stale \subseteq stale /\ before[d].done \subseteq Call \ {c}
    BY <2>2 DEF StoreInv, TypeOK, Finished
  <2>9. \A m \in Member : store'[m] # Nothing =>
          target'[store'[m]].member = m /\ work'[store'[m]] \in {"served", "closed"}
    BY <2>3, <2>5, <2>6 DEF StoreInv
  <2>10. \A d \in stale : store'[target'[d].member] # d
    BY <2>3, <2>5, <2>7 DEF StoreInv
  <2>11. \A d \in Call : before'[d].stale \subseteq stale' /\ before'[d].done \subseteq Finished'
    BY <2>2, <2>3, <2>4, <2>5 DEF StoreInv
  <2>12. ASSUME NEW e \in Call, target'[e].op = "set", work'[e] \in {"served", "closed"},
                NEW d \in before'[e].done, target'[d].member = target'[e].member
         PROVE  store'[target'[d].member] # d
    <3>1. e # c
      BY <2>1, <2>5, <2>12
    <3>2. d \in before[e].done /\ d \in Call \ {c}
      BY <2>3, <2>8, <3>1
    <3> QED BY <2>3, <2>5, <2>12, <3>1, <3>2 DEF StoreInv
  <2>13. \A d \in Call : got'[d] \notin before'[d].stale
    BY <2>1, <2>3, <2>4, <2>5, <2>7 DEF StoreInv
  <2>14. \A d \in Call : work'[d] \in {"none", "pending"} => got'[d] = Nothing
    BY <2>5 DEF StoreInv
  <2> QED BY <2>2, <2>5, <2>9, <2>10, <2>11, <2>12, <2>13, <2>14 DEF StoreInv
<1>21. CASE UNCHANGED vars
  BY <1>21 DEF vars, AnswerInv, StoreInv, TypeOK, Finished
<1>22. CASE Announce
  BY <1>22 DEF Announce, AnswerInv, StoreInv, TypeOK, Finished
<1>23. CASE ExitOnError
  BY <1>23 DEF ExitOnError, AnswerInv, StoreInv, TypeOK, Finished
<1> QED
  BY <1>1, <1>2, <1>3, <1>4, <1>5, <1>6, <1>7, <1>8, <1>9, <1>10, <1>11, <1>12, <1>13, <1>14, <1>15, <1>16, <1>17, <1>18, <1>19, <1>20, <1>21,
     <1>22, <1>23
     DEF Next, Publish, TakeDown, Handle, Over

IInv == TypeOK /\ RootInv /\ CacheInv /\ AnswerInv /\ StoreInv

LEMMA IInvCorrect == Spec => []IInv
<1>1. Init => IInv
  <2> SUFFICES ASSUME Init PROVE IInv
    OBVIOUS
  <2>1. TypeOK
    BY DEF Init, TypeOK, NoTarget
  <2>2. RootInv
    BY NothingAssumption DEF Init, RootInv, Active
  <2>3. CacheInv
    BY DEF Init, CacheInv
  <2>4. AnswerInv
    BY DEF Init, AnswerInv
  <2>5. StoreInv
    BY DEF Init, StoreInv
  <2> QED BY <2>1, <2>2, <2>3, <2>4, <2>5 DEF IInv
<1>2. IInv /\ [Next]_vars => IInv'
  BY TypeStep, RootStep, CacheStep, AnswerStep, StoreStep DEF IInv
<1> QED BY <1>1, <1>2, PTL DEF Spec

\* The variables keep their types.
THEOREM TypeCorrect == Spec => []TypeOK
<1>1. IInv => TypeOK
  BY DEF IInv
<1> QED BY <1>1, IInvCorrect, PTL

\* No handler runs on an object that is gone or calls an adapter that is shut
\* down, for any number of devices and clients.
THEOREM HandlersInside == Spec => []HandlersInsideObject
<1>1. IInv => HandlersInsideObject
  BY DEF IInv, RootInv, HandlersInsideObject
<1> QED BY <1>1, IInvCorrect, PTL

\* Registered devices have their interfaces in the cache.
THEOREM RegisteredCached == Spec => []RegisteredIsCached
<1>1. ASSUME IInv, NEW c \in Call, pc[c] = "lookup"
      PROVE  Wanted(c) \in Known \/ s_interfaceCache[Wanted(c)] # Nothing
  <2>1. Wanted(c) \in InterfacesOf(target[c].root)
    BY <1>1, TargetTyped DEF IInv
  <2>2. target[c].root \in published
    BY <1>1 DEF IInv, RootInv, Active
  <2> QED BY <1>1, <2>1, <2>2 DEF IInv, CacheInv
<1>2. IInv => RegisteredIsCached
  BY <1>1 DEF RegisteredIsCached
<1> QED BY <1>2, IInvCorrect, PTL

\* The Interface a handler holds on to stays in the cache while it waits.
THEOREM InterfacePinned == Spec => []PinnedInterface
<1>1. IInv => PinnedInterface
  BY DEF IInv, CacheInv, PinnedInterface
<1> QED BY <1>1, IInvCorrect, PTL

\* Only handlers that gave up can have their variables written too late.
THEOREM StraysAreLate == Spec => []StrayAfterTimeout
<1>1. IInv => StrayAfterTimeout
  BY DEF IInv, TypeOK, AnswerInv, StrayAfterTimeout
<1> QED BY <1>1, IInvCorrect, PTL

\* No Get reads a value that was replaced before it began.
THEOREM ReadsAreFresh == Spec => []NoStaleRead
<1>1. IInv => NoStaleRead
  BY DEF IInv, StoreInv, NoStaleRead
<1> QED BY <1>1, IInvCorrect, PTL

\* Every call of a handler uses its request as Completion allows.
LEMMA CompletionStep ==
  ASSUME IInv, [Next]_vars, NEW c \in Call
  PROVE  [Promise(c)!Next]_<<c \in ready, WaitAnswer(c)>>
<1> USE DEF IInv, TypeOK, AnswerInv
<1> DEFINE Step == [Promise(c)!Next]_<<c \in ready, WaitAnswer(c)>>
<1>1. ASSUME UNCHANGED <<pc, outcome, ready>>,
             work'[c] \in {"none", "refused"} <=> work[c] \in {"none", "refused"}
      PROVE  Step
  BY <1>1 DEF WaitAnswer
<1>2. ASSUME pc[c] # "returned", pc'[c] # "returned", ready' = ready
      PROVE  Step
  BY <1>2 DEF WaitAnswer
<1>3. CASE Publish \/ HitEnter \/ TakeDown \/ Over
  BY <1>1, <1>3 DEF Publish, EndInsert, RegisterBusObject, Announce, PublishFails,
        PublishInternal, BeginInsert, SkipInterface, HitEnter, TakeDown, ExitOnError, StopBus, FreeObject,
        ShutdownAdapter, Over, vars, callVars, adapterVars
<1>4. ASSUME NEW d \in Call, d # c, Handle(d) \/ \E t \in Targets : Dispatch(d, t)
      PROVE  Step
  <2>1. pc'[c] = pc[c] /\ outcome'[c] = outcome[c] /\ work'[c] = work[c] /\ ready' = ready
    BY <1>4 DEF Handle, CallAdapter, CacheMiss, LookupCrash, BeginWait, AdapterRefuses,
         WaitSucceeds, WaitTimesOut, Return, Dispatch, callVars, adapterVars
  <2> QED BY <2>1 DEF WaitAnswer
<1>5. ASSUME NEW t \in Targets, Dispatch(c, t) PROVE Step
  BY <1>2, <1>5 DEF Dispatch, adapterVars
<1>6. CASE CallAdapter(c) \/ BeginWait(c) \/ LookupCrash(c)
  BY <1>2, <1>6 DEF CallAdapter, BeginWait, LookupCrash, callVars, adapterVars
<1>7. CASE CacheMiss(c) \/ AdapterRefuses(c)
  <2>1. WaitAnswer(c) = "none" /\ WaitAnswer(c)' = "none" /\ ready' = ready
    BY <1>7 DEF CacheMiss, AdapterRefuses, Return, WaitAnswer, adapterVars
  <2> QED BY <2>1
<1>8. ASSUME WaitAnswer(c) = "none", ready' = ready,
             \/ c \in ready /\ WaitAnswer(c)' = "true"
             \/ c \notin ready /\ WaitAnswer(c)' = "false"
      PROVE  Step
  BY <1>8 DEF Promise!Next, Promise!GiveUp, Promise!Succeed, Promise!Reply
<1>9. CASE WaitSucceeds(c)
  <2>1. pc[c] = "waiting" /\ c \in ready /\ ready' = ready /\ work' = work
    BY <1>9 DEF WaitSucceeds, adapterVars
  <2>2. pc'[c] = "returned" /\ outcome'[c] = "ok"
    BY <1>9 DEF WaitSucceeds, Return
  <2> QED BY <1>8, <2>1, <2>2 DEF WaitAnswer
<1>10. CASE WaitTimesOut(c)
  <2>1. pc[c] = "waiting" /\ c \notin ready /\ ready' = ready /\ work' = work
    BY <1>10 DEF WaitTimesOut, adapterVars
  <2>2. pc'[c] = "returned" /\ outcome'[c] # "ok"
    BY <1>10 DEF WaitTimesOut, Return
  <2> QED BY <1>8, <2>1, <2>2 DEF WaitAnswer
<1>11. ASSUME NEW d \in Call, Serve(d) PROVE Step
  <2>1. work[d] = "pending" /\ work' = [work EXCEPT ![d] = "served"]
    BY <1>11 DEF Serve
  <2>2. UNCHANGED <<pc, outcome, ready>>
    BY <1>11 DEF Serve, callVars
  <2> QED BY <1>1, <2>1, <2>2
<1>12. ASSUME NEW d \in Call, Complete(d) PROVE Step
  <2>1. WaitAnswer(c)' = WaitAnswer(c)
    BY <1>12 DEF Complete, WaitAnswer, callVars
  <2>2. ready' = ready \cup {d}
    BY <1>12 DEF Complete
  <2>3. CASE d = c
    BY <2>1, <2>2, <2>3 DEF Promise!Next, Promise!Finish
  <2>4. CASE d # c
    BY <2>1, <2>2, <2>4
  <2> QED BY <2>3, <2>4
<1>13. CASE UNCHANGED vars
  BY <1>1, <1>13 DEF vars, callVars, adapterVars
<1>14. ASSUME NEW d \in Call, Handle(d) PROVE Step
  BY <1>4, <1>6, <1>7, <1>9, <1>10, <1>14 DEF Handle
<1>15. ASSUME NEW d \in Call, NEW t \in Targets, Dispatch(d, t) PROVE Step
  BY <1>4, <1>5, <1>15
<1> QED BY <1>3, <1>11, <1>12, <1>13, <1>14, <1>15 DEF Next

\* The handlers keep to what Completion promises, so that any implementation
\* of it, like the one in IoRequest, can stand in for their requests.
THEOREM RequestsUsed == Spec => UsesCompletion
<1>1. Init => \A c \in Call : Promise(c)!Init
  BY DEF Init, Promise!Init, WaitAnswer
<1>2. IInv /\ [Next]_vars =>
        [\A c \in Call : [Promise(c)!Next]_<<c \in ready, WaitAnswer(c)>>]_vars
  BY CompletionStep
<1> QED BY <1>1, <1>2, IInvCorrect, PTL DEF Spec, UsesCompletion

=============================================================================
