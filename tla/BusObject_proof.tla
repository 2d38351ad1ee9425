--------------------------- MODULE BusObject_proof ---------------------------
(***************************************************************************)
(* Proofs about BusObject, for every set of devices and whatever children  *)
(* they have. Each theorem rests on one inductive invariant of BusObject:  *)
(* Init establishes it, every action preserves it, it implies the          *)
(* property.                                                               *)
(***************************************************************************)
EXTENDS BusObject, FiniteSetTheorems, TLAPS

\* There are finitely many BusObjects, and no more devices than BusObjects.
LEMMA Objects ==
  /\ IsFiniteSet(Object) /\ Cardinality(Object) \in Nat
  /\ Cardinality(Device) \in Nat /\ Cardinality(Device) < RefModulus
<1> DEFINE family == {{d} \X (1 .. Children[d] + 1) : d \in Device}
           family_of == [d \in Device |-> {d} \X (1 .. Children[d] + 1)]
           root == [d \in Device |-> <<d, 1>>]
<1>1. \A d \in Device : Children[d] \in Nat
  BY ChildrenAssumption
<1>2. family_of \in Surjection(Device, family)
  BY DEF Surjection
<1>3. IsFiniteSet(family)
  BY <1>2, DeviceAssumption, FS_Surjection
<1>4. \A T \in family : IsFiniteSet(T)
  <2> SUFFICES ASSUME NEW d \in Device PROVE IsFiniteSet({d} \X (1 .. Children[d] + 1))
    OBVIOUS
  <2>1. IsFiniteSet({d})
    BY FS_Singleton
  <2>2. IsFiniteSet(1 .. Children[d] + 1)
    BY <1>1, FS_Interval
  <2> QED BY <2>1, <2>2, FS_Product
<1>5. IsFiniteSet(Object)
  BY <1>3, <1>4, FS_UNION DEF Object
<1>6. root \in Injection(Device, Object)
  <2>1. ASSUME NEW d \in Device PROVE <<d, 1>> \in Object
    BY <1>1 DEF Object
  <2> QED BY <2>1 DEF Injection, IsInjective
<1>7. Cardinality(Device) <= Cardinality(Object)
  BY <1>5, <1>6, FS_Injection
<1> QED BY <1>5, <1>7, DeviceAssumption, RefAssumption, FS_CardinalityType

\* uint64_t arithmetic stays in range.
LEMMA RefRange ==
  /\ RefModulus \in Nat \ {0}
  /\ \A n \in Int : n % RefModulus \in 0 .. RefModulus - 1
<1>1. RefModulus \in Nat \ {0}
  BY Objects, RefAssumption
<1> QED BY <1>1

\* Main's counters stay in range.
LEMMA MainTypeStep == ASSUME TypeOK, [Next]_vars PROVE MainType'
<1> USE DEF TypeOK, MainType, mainVars, busVars, flagVars, rcVars, Up
<1>1. ASSUME NEW d \in Device, ConstructRoot(d) PROVE MainType'
  BY <1>1, DeviceAssumption DEF ConstructRoot
<1>2. CASE BuildConnect
  BY <1>2, ChildrenAssumption DEF BuildConnect
<1>3. CASE Publish
  BY <1>3 DEF Publish
<1>4. CASE BuildThrows
  BY <1>4 DEF BuildThrows
<1>5. CASE AllBuilt
  BY <1>5 DEF AllBuilt
<1>6. CASE HitEnter
  BY <1>6 DEF HitEnter
<1>7. ASSUME NEW d \in Device, DestroyNext(d) PROVE MainType'
  BY <1>7, ChildrenAssumption, DeviceAssumption DEF DestroyNext
<1>8. CASE DtorLock
  BY <1>8 DEF DtorLock, LastReference
<1>9. CASE DtorJoin
  BY <1>9 DEF DtorJoin
<1>10. CASE DtorUnregister
  BY <1>10 DEF DtorUnregister
<1>11. CASE DtorDrain
  BY <1>11 DEF DtorDrain
<1>12. CASE DtorTeardown
  BY <1>12 DEF DtorTeardown
<1>13. CASE DtorChild
  BY <1>13 DEF DtorChild
<1>14. CASE DtorFreeBus
  BY <1>14 DEF DtorFreeBus, Joinable
<1>15. CASE Finish
  BY <1>15 DEF Finish, Joinable
<1>16. ASSUME NEW d \in Device, LinkLost(d) PROVE MainType'
  BY <1>16 DEF LinkLost
<1>17. ASSUME NEW d \in Device, BusDisconnected(d) PROVE MainType'
  BY <1>17 DEF BusDisconnected
<1>18. ASSUME NEW d \in Device, BusDisconnectedAfterExit(d) PROVE MainType'
  BY <1>18 DEF BusDisconnectedAfterExit
<1>19. CASE RcArm
  BY <1>19 DEF RcArm
<1>20. CASE RcTimeout
  BY <1>20 DEF RcTimeout
<1>21. CASE RcReturn
  BY <1>21 DEF RcReturn, RcWoken
<1>22. CASE RcBeginSweep
  BY <1>22 DEF RcBeginSweep, RcWoken
<1>23. ASSUME NEW d \in Device, RcConnects(d) PROVE MainType'
  BY <1>23 DEF RcConnects, SweepEntry
<1>24. ASSUME NEW d \in Device, RcConnectFails(d) PROVE MainType'
  BY <1>24 DEF RcConnectFails, SweepEntry
<1>25. ASSUME NEW d \in Device, RcTouchFreed(d) PROVE MainType'
  BY <1>25 DEF RcTouchFreed, SweepEntry
<1>26. CASE RcEndSweep
  BY <1>26 DEF RcEndSweep
<1>27. CASE Ended \/ UNCHANGED vars
  BY <1>27 DEF Ended, vars
<1> QED
  BY <1>1, <1>2, <1>3, <1>4, <1>5, <1>6, <1>7, <1>8, <1>9, <1>10, <1>11, <1>12, <1>13,
     <1>14, <1>15, <1>16, <1>17, <1>18, <1>19, <1>20, <1>21, <1>22, <1>23, <1>24,
     <1>25, <1>26, <1>27
  DEF Next, Build, Destroy, Dispatcher, Reconnect, Sweep

\* So do the states of the buses.
LEMMA BusTypeStep == ASSUME TypeOK, [Next]_vars PROVE BusType'
<1> USE DEF TypeOK, MainType, BusType, mainVars, busVars, flagVars, rcVars, Up
<1>1. ASSUME NEW d \in Device, ConstructRoot(d) PROVE BusType'
  BY <1>1 DEF ConstructRoot
<1>2. CASE BuildConnect
  BY <1>2 DEF BuildConnect
<1>3. CASE Publish
  BY <1>3 DEF Publish
<1>4. CASE BuildThrows
  BY <1>4 DEF BuildThrows
<1>5. CASE AllBuilt
  BY <1>5 DEF AllBuilt
<1>6. CASE HitEnter
  BY <1>6 DEF HitEnter
<1>7. ASSUME NEW d \in Device, DestroyNext(d) PROVE BusType'
  BY <1>7 DEF DestroyNext
<1>8. CASE DtorLock
  BY <1>8 DEF DtorLock, LastReference
<1>9. CASE DtorJoin
  BY <1>9 DEF DtorJoin
<1>10. CASE DtorUnregister
  BY <1>10 DEF DtorUnregister
<1>11. CASE DtorDrain
  BY <1>11 DEF DtorDrain
<1>12. CASE DtorTeardown
  BY <1>12 DEF DtorTeardown
<1>13. CASE DtorChild
  BY <1>13 DEF DtorChild
<1>14. CASE DtorFreeBus
  BY <1>14 DEF DtorFreeBus, Joinable
<1>15. CASE Finish
  BY <1>15 DEF Finish, Joinable
<1>16. ASSUME NEW d \in Device, LinkLost(d) PROVE BusType'
  BY <1>16 DEF LinkLost
<1>17. ASSUME NEW d \in Device, BusDisconnected(d) PROVE BusType'
  BY <1>17 DEF BusDisconnected
<1>18. ASSUME NEW d \in Device, BusDisconnectedAfterExit(d) PROVE BusType'
  BY <1>18 DEF BusDisconnectedAfterExit
<1>19. CASE RcArm
  BY <1>19 DEF RcArm
<1>20. CASE RcTimeout
  BY <1>20 DEF RcTimeout
<1>21. CASE RcReturn
  BY <1>21 DEF RcReturn, RcWoken
<1>22. CASE RcBeginSweep
  BY <1>22 DEF RcBeginSweep, RcWoken
<1>23. ASSUME NEW d \in Device, RcConnects(d) PROVE BusType'
  BY <1>23 DEF RcConnects, SweepEntry
<1>24. ASSUME NEW d \in Device, RcConnectFails(d) PROVE BusType'
  BY <1>24 DEF RcConnectFails, SweepEntry
<1>25. ASSUME NEW d \in Device, RcTouchFreed(d) PROVE BusType'
  BY <1>25 DEF RcTouchFreed, SweepEntry
<1>26. CASE RcEndSweep
  BY <1>26 DEF RcEndSweep
<1>27. CASE Ended \/ UNCHANGED vars
  BY <1>27 DEF Ended, vars
<1> QED
  BY <1>1, <1>2, <1>3, <1>4, <1>5, <1>6, <1>7, <1>8, <1>9, <1>10, <1>11, <1>12, <1>13,
     <1>14, <1>15, <1>16, <1>17, <1>18, <1>19, <1>20, <1>21, <1>22, <1>23, <1>24,
     <1>25, <1>26, <1>27
  DEF Next, Build, Destroy, Dispatcher, Reconnect, Sweep

\* So do the mutex, the count and the flags.
LEMMA FlagTypeStep == ASSUME TypeOK, [Next]_vars PROVE FlagType'
<1> USE DEF TypeOK, FlagType, mainVars, busVars, flagVars, rcVars, Up
<1>1. ASSUME NEW d \in Device, ConstructRoot(d) PROVE FlagType'
  <2>1. reconnectRefcount + 1 \in Int
    BY RefRange
  <2>2. reconnectRefcount' \in 0 .. RefModulus - 1
    BY <1>1, <2>1, RefRange DEF ConstructRoot
  <2> QED BY <1>1, <2>2 DEF ConstructRoot
<1>2. CASE BuildConnect
  BY <1>2 DEF BuildConnect
<1>3. CASE Publish
  BY <1>3 DEF Publish
<1>4. CASE BuildThrows
  BY <1>4 DEF BuildThrows
<1>5. CASE AllBuilt
  BY <1>5 DEF AllBuilt
<1>6. CASE HitEnter
  BY <1>6 DEF HitEnter
<1>7. ASSUME NEW d \in Device, DestroyNext(d) PROVE FlagType'
  BY <1>7 DEF DestroyNext
<1>8. CASE DtorLock
  <2>1. reconnectRefcount - 1 \in Int
    BY RefRange
  <2>2. reconnectRefcount' \in 0 .. RefModulus - 1
    BY <1>8, <2>1, RefRange DEF DtorLock, LastReference
  <2> QED BY <1>8, <2>2 DEF DtorLock, LastReference
<1>9. CASE DtorJoin
  BY <1>9 DEF DtorJoin
<1>10. CASE DtorUnregister
  BY <1>10 DEF DtorUnregister
<1>11. CASE DtorDrain
  BY <1>11 DEF DtorDrain
<1>12. CASE DtorTeardown
  BY <1>12 DEF DtorTeardown
<1>13. CASE DtorChild
  BY <1>13 DEF DtorChild
<1>14. CASE DtorFreeBus
  BY <1>14 DEF DtorFreeBus, Joinable
<1>15. CASE Finish
  BY <1>15 DEF Finish, Joinable
<1>16. ASSUME NEW d \in Device, LinkLost(d) PROVE FlagType'
  BY <1>16 DEF LinkLost
<1>17. ASSUME NEW d \in Device, BusDisconnected(d) PROVE FlagType'
  BY <1>17 DEF BusDisconnected
<1>18. ASSUME NEW d \in Device, BusDisconnectedAfterExit(d) PROVE FlagType'
  BY <1>18 DEF BusDisconnectedAfterExit
<1>19. CASE RcArm
  BY <1>19 DEF RcArm
<1>20. CASE RcTimeout
  BY <1>20 DEF RcTimeout
<1>21. CASE RcReturn
  BY <1>21 DEF RcReturn, RcWoken
<1>22. CASE RcBeginSweep
  BY <1>22 DEF RcBeginSweep, RcWoken
<1>23. ASSUME NEW d \in Device, RcConnects(d) PROVE FlagType'
  BY <1>23 DEF RcConnects, SweepEntry
<1>24. ASSUME NEW d \in Device, RcConnectFails(d) PROVE FlagType'
  BY <1>24 DEF RcConnectFails, SweepEntry
<1>25. ASSUME NEW d \in Device, RcTouchFreed(d) PROVE FlagType'
  BY <1>25 DEF RcTouchFreed, SweepEntry
<1>26. CASE RcEndSweep
  BY <1>26 DEF RcEndSweep
<1>27. CASE Ended \/ UNCHANGED vars
  BY <1>27 DEF Ended, vars
<1> QED
  BY <1>1, <1>2, <1>3, <1>4, <1>5, <1>6, <1>7, <1>8, <1>9, <1>10, <1>11, <1>12, <1>13,
     <1>14, <1>15, <1>16, <1>17, <1>18, <1>19, <1>20, <1>21, <1>22, <1>23, <1>24,
     <1>25, <1>26, <1>27
  DEF Next, Build, Destroy, Dispatcher, Reconnect, Sweep

\* So do the list and the reconnect thread.
LEMMA ListTypeStep == ASSUME TypeOK, [Next]_vars PROVE ListType'
<1> USE DEF TypeOK, ListType, mainVars, busVars, flagVars, rcVars, Up
<1>1. ASSUME NEW d \in Device, ConstructRoot(d) PROVE ListType'
  BY <1>1 DEF ConstructRoot
<1>2. CASE BuildConnect
  BY <1>2 DEF BuildConnect
<1>3. CASE Publish
  BY <1>3 DEF Publish
<1>4. CASE BuildThrows
  BY <1>4 DEF BuildThrows
<1>5. CASE AllBuilt
  BY <1>5 DEF AllBuilt
<1>6. CASE HitEnter
  BY <1>6 DEF HitEnter
<1>7. ASSUME NEW d \in Device, DestroyNext(d) PROVE ListType'
  BY <1>7 DEF DestroyNext
<1>8. CASE DtorLock
  BY <1>8 DEF DtorLock, LastReference
<1>9. CASE DtorJoin
  BY <1>9 DEF DtorJoin
<1>10. CASE DtorUnregister
  BY <1>10 DEF DtorUnregister
<1>11. CASE DtorDrain
  BY <1>11 DEF DtorDrain
<1>12. CASE DtorTeardown
  BY <1>12 DEF DtorTeardown
<1>13. CASE DtorChild
  BY <1>13 DEF DtorChild
<1>14. CASE DtorFreeBus
  BY <1>14 DEF DtorFreeBus, Joinable
<1>15. CASE Finish
  BY <1>15 DEF Finish, Joinable
<1>16. ASSUME NEW d \in Device, LinkLost(d) PROVE ListType'
  BY <1>16 DEF LinkLost
<1>17. ASSUME NEW d \in Device, BusDisconnected(d) PROVE ListType'
  BY <1>17 DEF BusDisconnected
<1>18. ASSUME NEW d \in Device, BusDisconnectedAfterExit(d) PROVE ListType'
  BY <1>18 DEF BusDisconnectedAfterExit
<1>19. CASE RcArm
  BY <1>19 DEF RcArm
<1>20. CASE RcTimeout
  BY <1>20 DEF RcTimeout
<1>21. CASE RcReturn
  BY <1>21 DEF RcReturn, RcWoken
<1>22. CASE RcBeginSweep
  BY <1>22 DEF RcBeginSweep, RcWoken
<1>23. ASSUME NEW d \in Device, RcConnects(d) PROVE ListType'
  BY <1>23 DEF RcConnects, SweepEntry
<1>24. ASSUME NEW d \in Device, RcConnectFails(d) PROVE ListType'
  BY <1>24 DEF RcConnectFails, SweepEntry
<1>25. ASSUME NEW d \in Device, RcTouchFreed(d) PROVE ListType'
  BY <1>25 DEF RcTouchFreed, SweepEntry
<1>26. CASE RcEndSweep
  BY <1>26 DEF RcEndSweep
<1>27. CASE Ended \/ UNCHANGED vars
  BY <1>27 DEF Ended, vars
<1> QED
  BY <1>1, <1>2, <1>3, <1>4, <1>5, <1>6, <1>7, <1>8, <1>9, <1>10, <1>11, <1>12, <1>13,
     <1>14, <1>15, <1>16, <1>17, <1>18, <1>19, <1>20, <1>21, <1>22, <1>23, <1>24,
     <1>25, <1>26, <1>27
  DEF Next, Build, Destroy, Dispatcher, Reconnect, Sweep

\* Every variable keeps its type; in particular a sweep never has more entries
\* to go than reconnectList holds.
THEOREM TypeCorrect == Spec => []TypeOK
<1>1. Init => TypeOK
  <2> SUFFICES ASSUME Init PROVE TypeOK
    OBVIOUS
  <2>1. MainType /\ BusType
    BY DEF Init, MainType, BusType
  <2>2. FlagType
    <3>1. 0 \in 0 .. RefModulus - 1
      BY RefRange
    <3> QED BY <3>1 DEF Init, FlagType
  <2>3. ListType
    BY DEF Init, ListType
  <2> QED BY <2>1, <2>2, <2>3 DEF TypeOK
<1>2. TypeOK /\ [Next]_vars => TypeOK'
  BY MainTypeStep, BusTypeStep, FlagTypeStep, ListTypeStep DEF TypeOK
<1> QED BY <1>1, <1>2, PTL DEF Spec
-----------------------------------------------------------------------------
(* Links: where every bus stands.                                            *)

\* Connecting gives the new bus its one place.
LEMMA BuildConnectLink == ASSUME TypeOK, LinkInv, BuildConnect PROVE LinkInv'
<1> USE DEF TypeOK, MainType, BusType, ListType
<1>1. cur \in Device /\ pc = "connect" /\ pc' = "publish" /\ cur' = cur
  BY DEF BuildConnect
<1>2. \A d \in Device : d # cur => Places(d)' = Places(d)
  BY <1>1 DEF BuildConnect, Places
<1>3. Places(cur)' = 1
  BY <1>1 DEF BuildConnect, LinkInv, Places
<1> QED BY <1>1, <1>2, <1>3 DEF BuildConnect, LinkInv

\* Publishing moves no bus.
LEMMA PublishLink == ASSUME TypeOK, LinkInv, Publish PROVE LinkInv'
<1> USE DEF TypeOK, MainType, BusType, ListType
<1>1. \A d \in Device : Places(d)' = Places(d)
  BY DEF Publish, Places, busVars, rcVars
<1> QED BY <1>1, DeviceAssumption DEF Publish, LinkInv, busVars, rcVars

\* Freeing a bus moves no bus.
LEMMA DtorFreeBusLink == ASSUME TypeOK, LinkInv, DtorFreeBus PROVE LinkInv'
<1> USE DEF TypeOK, MainType, BusType, ListType
<1>1. \A d \in Device : Places(d)' = Places(d)
  BY DEF DtorFreeBus, Places, busVars, rcVars
<1> QED BY <1>1, DeviceAssumption DEF DtorFreeBus, LinkInv, busVars, rcVars

\* A dangling entry only ever takes places away.
LEMMA RcTouchFreedLink == ASSUME TypeOK, LinkInv, NEW d \in Device, RcTouchFreed(d) PROVE LinkInv'
<1> USE DEF TypeOK, MainType, BusType, ListType
<1>1. /\ bus[d] = "freed" /\ bus' = bus /\ listening' = listening
      /\ devices' = devices /\ pc' = pc /\ cur' = cur
  BY DEF RcTouchFreed, SweepEntry, busVars
<1>2. \A e \in Device :
        /\ Places(e) \in Nat /\ Places(e)' \in Nat /\ Places(e)' <= Places(e)
        /\ e # d => Places(e)' = Places(e)
  BY DEF RcTouchFreed, SweepEntry, Places, busVars
<1>3. \A e \in devices : e # d
  BY <1>1 DEF LinkInv
<1>4. pc \in {"connect", "publish"} => cur # d
  BY <1>1 DEF LinkInv
<1> HIDE DEF Places
<1> QED BY <1>1, <1>2, <1>3, <1>4 DEF LinkInv

\* Every action keeps every bus in at most one place.
LEMMA LinkStep == ASSUME TypeOK, LinkInv, [Next]_vars PROVE LinkInv'
<1> USE DEF LinkInv, Places, TypeOK, MainType, BusType, ListType, mainVars, busVars,
            flagVars, rcVars
<1>1. ASSUME NEW d \in Device, ConstructRoot(d) PROVE LinkInv'
  BY <1>1 DEF ConstructRoot
<1>2. CASE BuildConnect
  BY <1>2, BuildConnectLink
<1>3. CASE Publish
  BY <1>3, PublishLink
<1>4. CASE BuildThrows
  BY <1>4 DEF BuildThrows
<1>5. CASE AllBuilt
  BY <1>5 DEF AllBuilt
<1>6. CASE HitEnter
  BY <1>6 DEF HitEnter
<1>7. ASSUME NEW d \in Device, DestroyNext(d) PROVE LinkInv'
  BY <1>7 DEF DestroyNext
<1>8. CASE DtorLock
  BY <1>8 DEF DtorLock, LastReference
<1>9. CASE DtorJoin
  BY <1>9 DEF DtorJoin
<1>10. CASE DtorUnregister
  BY <1>10 DEF DtorUnregister
<1>11. CASE DtorDrain
  BY <1>11 DEF DtorDrain
<1>12. CASE DtorTeardown
  BY <1>12 DEF DtorTeardown
<1>13. CASE DtorChild
  BY <1>13 DEF DtorChild
<1>14. CASE DtorFreeBus
  BY <1>14, DtorFreeBusLink
<1>15. CASE Finish
  BY <1>15 DEF Finish, Joinable
<1>16. ASSUME NEW d \in Device, LinkLost(d) PROVE LinkInv'
  BY <1>16 DEF LinkLost
<1>17. ASSUME NEW d \in Device, BusDisconnected(d) PROVE LinkInv'
  BY <1>17 DEF BusDisconnected
<1>18. ASSUME NEW d \in Device, BusDisconnectedAfterExit(d) PROVE LinkInv'
  BY <1>18 DEF BusDisconnectedAfterExit
<1>19. CASE RcArm
  BY <1>19 DEF RcArm
<1>20. CASE RcTimeout
  BY <1>20 DEF RcTimeout
<1>21. CASE RcReturn
  BY <1>21 DEF RcReturn, RcWoken
<1>22. CASE RcBeginSweep
  BY <1>22 DEF RcBeginSweep, RcWoken
<1>23. ASSUME NEW d \in Device, RcConnects(d) PROVE LinkInv'
  BY <1>23 DEF RcConnects, SweepEntry
<1>24. ASSUME NEW d \in Device, RcConnectFails(d) PROVE LinkInv'
  BY <1>24 DEF RcConnectFails, SweepEntry
<1>25. ASSUME NEW d \in Device, RcTouchFreed(d) PROVE LinkInv'
  BY <1>25, RcTouchFreedLink
<1>26. CASE RcEndSweep
  BY <1>26 DEF RcEndSweep
<1>27. CASE Ended \/ UNCHANGED vars
  BY <1>27 DEF Ended, vars
<1> QED
  BY <1>1, <1>2, <1>3, <1>4, <1>5, <1>6, <1>7, <1>8, <1>9, <1>10, <1>11, <1>12, <1>13,
     <1>14, <1>15, <1>16, <1>17, <1>18, <1>19, <1>20, <1>21, <1>22, <1>23, <1>24,
     <1>25, <1>26, <1>27
  DEF Next, Build, Destroy, Dispatcher, Reconnect, Sweep

\* LinkInv is inductive.
LEMMA LinkAlways == Spec => []LinkInv
<1>1. Init => LinkInv
  <2> SUFFICES ASSUME Init PROVE LinkInv
    OBVIOUS
  <2>1. \A d \in Device : Places(d) = 0
    BY DEF Init, Places
  <2> QED BY <2>1, DeviceAssumption DEF Init, LinkInv
<1>2. TypeOK /\ LinkInv /\ [Next]_vars => LinkInv'
  BY LinkStep
<1> QED BY <1>1, <1>2, TypeCorrect, PTL DEF Spec

\* A published bus is connected, or reported lost, or queued once: no lost
\* disconnect, no double entry, for any number of devices and children.
THEOREM LinksAccounted == Spec => []LinkAccounted
<1>1. LinkInv => LinkAccounted
  BY DEF LinkInv, LinkAccounted
<1> QED BY <1>1, LinkAlways, PTL

-----------------------------------------------------------------------------
(* The mutex and the throttle.                                              *)

\* Every action keeps to the mutex.
LEMMA MutexStep == ASSUME TypeOK, MutexInv, [Next]_vars PROVE MutexInv'
<1> USE DEF MutexInv, TypeOK, MainType, ListType, FlagType, mainVars, busVars,
            flagVars, rcVars
<1>1. ASSUME NEW d \in Device, ConstructRoot(d) PROVE MutexInv'
  BY <1>1 DEF ConstructRoot
<1>2. CASE BuildConnect
  BY <1>2 DEF BuildConnect
<1>3. CASE Publish
  BY <1>3 DEF Publish
<1>4. CASE BuildThrows
  BY <1>4 DEF BuildThrows
<1>5. CASE AllBuilt
  BY <1>5 DEF AllBuilt
<1>6. CASE HitEnter
  BY <1>6 DEF HitEnter
<1>7. ASSUME NEW d \in Device, DestroyNext(d) PROVE MutexInv'
  BY <1>7 DEF DestroyNext
<1>8. CASE DtorLock
  BY <1>8 DEF DtorLock, LastReference
<1>9. CASE DtorJoin
  BY <1>9 DEF DtorJoin
<1>10. CASE DtorUnregister
  BY <1>10 DEF DtorUnregister
<1>11. CASE DtorDrain
  BY <1>11 DEF DtorDrain
<1>12. CASE DtorTeardown
  BY <1>12 DEF DtorTeardown
<1>13. CASE DtorChild
  BY <1>13 DEF DtorChild
<1>14. CASE DtorFreeBus
  BY <1>14 DEF DtorFreeBus, Joinable
<1>15. CASE Finish
  BY <1>15 DEF Finish, Joinable
<1>16. ASSUME NEW d \in Device, LinkLost(d) PROVE MutexInv'
  BY <1>16 DEF LinkLost
<1>17. ASSUME NEW d \in Device, BusDisconnected(d) PROVE MutexInv'
  BY <1>17 DEF BusDisconnected
<1>18. ASSUME NEW d \in Device, BusDisconnectedAfterExit(d) PROVE MutexInv'
  BY <1>18 DEF BusDisconnectedAfterExit
<1>19. CASE RcArm
  BY <1>19 DEF RcArm
<1>20. CASE RcTimeout
  BY <1>20 DEF RcTimeout
<1>21. CASE RcReturn
  BY <1>21 DEF RcReturn, RcWoken
<1>22. CASE RcBeginSweep
  BY <1>22 DEF RcBeginSweep, RcWoken
<1>23. ASSUME NEW d \in Device, RcConnects(d) PROVE MutexInv'
  BY <1>23 DEF RcConnects, SweepEntry
<1>24. ASSUME NEW d \in Device, RcConnectFails(d) PROVE MutexInv'
  BY <1>24 DEF RcConnectFails, SweepEntry
<1>25. ASSUME NEW d \in Device, RcTouchFreed(d) PROVE MutexInv'
  BY <1>25 DEF RcTouchFreed, SweepEntry
<1>26. CASE RcEndSweep
  BY <1>26 DEF RcEndSweep
<1>27. CASE Ended \/ UNCHANGED vars
  BY <1>27 DEF Ended, vars
<1> QED
  BY <1>1, <1>2, <1>3, <1>4, <1>5, <1>6, <1>7, <1>8, <1>9, <1>10, <1>11, <1>12, <1>13,
     <1>14, <1>15, <1>16, <1>17, <1>18, <1>19, <1>20, <1>21, <1>22, <1>23, <1>24,
     <1>25, <1>26, <1>27
  DEF Next, Build, Destroy, Dispatcher, Reconnect, Sweep

\* MutexInv is inductive.
LEMMA MutexAlways == Spec => []MutexInv
<1>1. Init => MutexInv
  BY DEF Init, MutexInv
<1>2. TypeOK /\ MutexInv /\ [Next]_vars => MutexInv'
  BY MutexStep
<1> QED BY <1>1, <1>2, TypeCorrect, PTL DEF Spec

\* No sweep runs while a destructor unregisters, stops and disconnects.
THEOREM TeardownExcludesSweep == Spec => []TeardownExclusive
<1>1. MutexInv => TeardownExclusive
  BY DEF MutexInv, TeardownExclusive
<1> QED BY <1>1, MutexAlways, PTL

\* What nobody may change under the holder of reconnectMutex.
Guarded ==
  /\ reconnectMutex = "reconnect" =>
       /\ UNCHANGED <<reconnectRefcount, reconnectShutdown>>
       /\ \A d \in Device : reconnectList'[d] <= reconnectList[d]
  /\ reconnectMutex = "main" => UNCHANGED <<flagVars, reconnectList>>

LEMMA GuardedStep == ASSUME TypeOK, MutexInv, [Next]_vars PROVE Guarded
<1> USE DEF MutexInv, TypeOK, MainType, BusType, FlagType, ListType,
            mainVars, busVars, flagVars, rcVars
<1>1. ASSUME NEW d \in Device, ConstructRoot(d) PROVE Guarded
  BY <1>1 DEF ConstructRoot, Guarded
<1>2. CASE BuildConnect
  BY <1>2 DEF BuildConnect, Guarded
<1>3. CASE Publish
  BY <1>3 DEF Publish, Guarded
<1>4. CASE BuildThrows
  BY <1>4 DEF BuildThrows, Guarded
<1>5. CASE AllBuilt
  BY <1>5 DEF AllBuilt, Guarded
<1>6. CASE HitEnter
  BY <1>6 DEF HitEnter, Guarded
<1>7. ASSUME NEW d \in Device, DestroyNext(d) PROVE Guarded
  BY <1>7 DEF DestroyNext, Guarded
<1>8. CASE DtorLock
  BY <1>8 DEF DtorLock, LastReference, Guarded
<1>9. CASE DtorJoin
  BY <1>9 DEF DtorJoin, Guarded
<1>10. CASE DtorUnregister
  BY <1>10 DEF DtorUnregister, Guarded
<1>11. CASE DtorDrain
  BY <1>11 DEF DtorDrain, Guarded
<1>12. CASE DtorTeardown
  BY <1>12 DEF DtorTeardown, Guarded
<1>13. CASE DtorChild
  BY <1>13 DEF DtorChild, Guarded
<1>14. CASE DtorFreeBus
  BY <1>14 DEF DtorFreeBus, Joinable, Guarded
<1>15. CASE Finish
  BY <1>15 DEF Finish, Joinable, Guarded
<1>16. ASSUME NEW d \in Device, LinkLost(d) PROVE Guarded
  BY <1>16 DEF LinkLost, Guarded
<1>17. ASSUME NEW d \in Device, BusDisconnected(d) PROVE Guarded
  BY <1>17 DEF BusDisconnected, Guarded
<1>18. ASSUME NEW d \in Device, BusDisconnectedAfterExit(d) PROVE Guarded
  BY <1>18 DEF BusDisconnectedAfterExit, Guarded
<1>19. CASE RcArm
  BY <1>19 DEF RcArm, Guarded
<1>20. CASE RcTimeout
  BY <1>20 DEF RcTimeout, Guarded
<1>21. CASE RcReturn
  BY <1>21 DEF RcReturn, RcWoken, Guarded
<1>22. CASE RcBeginSweep
  BY <1>22 DEF RcBeginSweep, RcWoken, Guarded
<1>23. ASSUME NEW d \in Device, RcConnects(d) PROVE Guarded
  BY <1>23 DEF RcConnects, SweepEntry, Guarded
<1>24. ASSUME NEW d \in Device, RcConnectFails(d) PROVE Guarded
  BY <1>24 DEF RcConnectFails, SweepEntry, Guarded
<1>25. ASSUME NEW d \in Device, RcTouchFreed(d) PROVE Guarded
  BY <1>25 DEF RcTouchFreed, SweepEntry, Guarded
<1>26. CASE RcEndSweep
  BY <1>26 DEF RcEndSweep, Guarded
<1>27. CASE Ended \/ UNCHANGED vars
  BY <1>27 DEF Ended, vars, Guarded
<1> QED
  BY <1>1, <1>2, <1>3, <1>4, <1>5, <1>6, <1>7, <1>8, <1>9, <1>10, <1>11, <1>12, <1>13,
     <1>14, <1>15, <1>16, <1>17, <1>18, <1>19, <1>20, <1>21, <1>22, <1>23, <1>24,
     <1>25, <1>26, <1>27
  DEF Next, Build, Destroy, Dispatcher, Reconnect, Sweep

\* Nothing is pushed into reconnectList while a sweep runs over it, and neither
\* the list nor the flags change while a destructor has the mutex, whatever
\* links are lost and whatever the other threads do meanwhile.
THEOREM MutexProtects == Spec => [][Guarded]_vars
<1>1. TypeOK /\ MutexInv /\ [Next]_vars => [Guarded]_vars
  BY GuardedStep
<1> QED BY <1>1, TypeCorrect, MutexAlways, PTL DEF Spec

\* Every action keeps the throttle.
LEMMA ThrottleStep == ASSUME TypeOK, LinkInv, MutexInv, ThrottleInv, [Next]_vars PROVE ThrottleInv'
<1> USE DEF ThrottleInv, TypeOK, ListType, mainVars, busVars, flagVars, rcVars
<1>1. ASSUME NEW d \in Device, ConstructRoot(d) PROVE ThrottleInv'
  BY <1>1 DEF ConstructRoot
<1>2. CASE BuildConnect
  BY <1>2 DEF BuildConnect
<1>3. CASE Publish
  BY <1>3 DEF Publish
<1>4. CASE BuildThrows
  BY <1>4 DEF BuildThrows
<1>5. CASE AllBuilt
  BY <1>5 DEF AllBuilt
<1>6. CASE HitEnter
  BY <1>6 DEF HitEnter
<1>7. ASSUME NEW d \in Device, DestroyNext(d) PROVE ThrottleInv'
  BY <1>7 DEF DestroyNext
<1>8. CASE DtorLock
  BY <1>8 DEF DtorLock, LastReference
<1>9. CASE DtorJoin
  BY <1>9 DEF DtorJoin
<1>10. CASE DtorUnregister
  BY <1>10 DEF DtorUnregister
<1>11. CASE DtorDrain
  BY <1>11 DEF DtorDrain
<1>12. CASE DtorTeardown
  BY <1>12 DEF DtorTeardown
<1>13. CASE DtorChild
  BY <1>13 DEF DtorChild
<1>14. CASE DtorFreeBus
  BY <1>14 DEF DtorFreeBus, Joinable
<1>15. CASE Finish
  BY <1>15 DEF Finish, Joinable
<1>16. ASSUME NEW d \in Device, LinkLost(d) PROVE ThrottleInv'
  BY <1>16 DEF LinkLost
<1>17. ASSUME NEW d \in Device, BusDisconnected(d) PROVE ThrottleInv'
  BY <1>17 DEF BusDisconnected
<1>18. ASSUME NEW d \in Device, BusDisconnectedAfterExit(d) PROVE ThrottleInv'
  BY <1>18 DEF BusDisconnectedAfterExit
<1>19. CASE RcArm
  BY <1>19 DEF RcArm
<1>20. CASE RcTimeout
  BY <1>20 DEF RcTimeout
<1>21. CASE RcReturn
  BY <1>21 DEF RcReturn, RcWoken
<1>22. CASE RcBeginSweep
  BY <1>22 DEF RcBeginSweep, RcWoken, WorkPending
<1>23. ASSUME NEW d \in Device, RcConnects(d) PROVE ThrottleInv'
  BY <1>23 DEF RcConnects, SweepEntry, LinkInv, Places
<1>24. ASSUME NEW d \in Device, RcConnectFails(d) PROVE ThrottleInv'
  BY <1>24 DEF RcConnectFails, SweepEntry, LinkInv, Places
<1>25. ASSUME NEW d \in Device, RcTouchFreed(d) PROVE ThrottleInv'
  BY <1>25 DEF RcTouchFreed, SweepEntry
<1>26. CASE RcEndSweep
  BY <1>26 DEF RcEndSweep
<1>27. CASE Ended \/ UNCHANGED vars
  BY <1>27 DEF Ended, vars
<1> QED
  BY <1>1, <1>2, <1>3, <1>4, <1>5, <1>6, <1>7, <1>8, <1>9, <1>10, <1>11, <1>12, <1>13,
     <1>14, <1>15, <1>16, <1>17, <1>18, <1>19, <1>20, <1>21, <1>22, <1>23, <1>24,
     <1>25, <1>26, <1>27
  DEF Next, Build, Destroy, Dispatcher, Reconnect, Sweep

\* ThrottleInv is inductive, given the other two.
LEMMA ThrottleAlways == Spec => []ThrottleInv
<1>1. Init => ThrottleInv
  BY DEF Init, ThrottleInv
<1>2. TypeOK /\ LinkInv /\ MutexInv /\ ThrottleInv /\ [Next]_vars => ThrottleInv'
  BY ThrottleStep
<1> QED BY <1>1, <1>2, TypeCorrect, LinkAlways, MutexAlways, PTL DEF Spec

\* A failed Connect waits for the deadline, on every behaviour.
THEOREM ConnectsThrottled == Spec => Throttled
<1> DEFINE Step == \A d \in Device : todo'[d] < todo[d] => d \notin cooling
<1>1. TypeOK /\ ThrottleInv /\ [Next]_vars => [Step]_vars
  <2> SUFFICES ASSUME TypeOK, ThrottleInv, NEW d \in Device,
                      todo'[d] < todo[d], todo'[d] \in Nat
               PROVE  d \notin cooling
    BY ListTypeStep DEF ListType
  <2> QED BY DEF TypeOK, ListType, ThrottleInv
<1> QED BY <1>1, TypeCorrect, ThrottleAlways, PTL DEF Spec, Throttled

-----------------------------------------------------------------------------
(* BusObject implements PersistentBus.                                      *)

\* A bus is closed before it is stopped.
LEMMA ClosedStep == ASSUME TypeOK, LinkInv, ClosedInv, [Next]_vars PROVE ClosedInv'
<1> USE DEF ClosedInv, TypeOK, MainType, BusType, ListType, mainVars, busVars,
            flagVars, rcVars
<1>1. ASSUME NEW d \in Device, ConstructRoot(d) PROVE ClosedInv'
  BY <1>1, DeviceAssumption DEF ConstructRoot
<1>2. CASE BuildConnect
  BY <1>2 DEF BuildConnect
<1>3. CASE Publish
  BY <1>3 DEF Publish
<1>4. CASE BuildThrows
  BY <1>4 DEF BuildThrows
<1>5. CASE AllBuilt
  BY <1>5 DEF AllBuilt
<1>6. CASE HitEnter
  BY <1>6 DEF HitEnter
<1>7. ASSUME NEW d \in Device, DestroyNext(d) PROVE ClosedInv'
  BY <1>7 DEF DestroyNext
<1>8. CASE DtorLock
  BY <1>8 DEF DtorLock, LastReference
<1>9. CASE DtorJoin
  BY <1>9 DEF DtorJoin
<1>10. CASE DtorUnregister
  BY <1>10 DEF DtorUnregister
<1>11. CASE DtorDrain
  BY <1>11 DEF DtorDrain
<1>12. CASE DtorTeardown
  BY <1>12 DEF DtorTeardown
<1>13. CASE DtorChild
  BY <1>13 DEF DtorChild
<1>14. CASE DtorFreeBus
  BY <1>14 DEF DtorFreeBus, Joinable
<1>15. CASE Finish
  BY <1>15 DEF Finish, Joinable
<1>16. ASSUME NEW d \in Device, LinkLost(d) PROVE ClosedInv'
  BY <1>16 DEF LinkLost
<1>17. ASSUME NEW d \in Device, BusDisconnected(d) PROVE ClosedInv'
  BY <1>17 DEF BusDisconnected
<1>18. ASSUME NEW d \in Device, BusDisconnectedAfterExit(d) PROVE ClosedInv'
  BY <1>18 DEF BusDisconnectedAfterExit
<1>19. CASE RcArm
  BY <1>19 DEF RcArm
<1>20. CASE RcTimeout
  BY <1>20 DEF RcTimeout
<1>21. CASE RcReturn
  BY <1>21 DEF RcReturn, RcWoken
<1>22. CASE RcBeginSweep
  BY <1>22 DEF RcBeginSweep, RcWoken
<1>23. ASSUME NEW d \in Device, RcConnects(d) PROVE ClosedInv'
  BY <1>23 DEF RcConnects, SweepEntry
<1>24. ASSUME NEW d \in Device, RcConnectFails(d) PROVE ClosedInv'
  BY <1>24 DEF RcConnectFails, SweepEntry
<1>25. ASSUME NEW d \in Device, RcTouchFreed(d) PROVE ClosedInv'
  BY <1>25 DEF RcTouchFreed, SweepEntry
<1>26. CASE RcEndSweep
  BY <1>26 DEF RcEndSweep
<1>27. CASE Ended \/ UNCHANGED vars
  BY <1>27 DEF Ended, vars
<1> QED
  BY <1>1, <1>2, <1>3, <1>4, <1>5, <1>6, <1>7, <1>8, <1>9, <1>10, <1>11, <1>12, <1>13,
     <1>14, <1>15, <1>16, <1>17, <1>18, <1>19, <1>20, <1>21, <1>22, <1>23, <1>24,
     <1>25, <1>26, <1>27
  DEF Next, Build, Destroy, Dispatcher, Reconnect, Sweep

\* ClosedInv is inductive.
LEMMA ClosedAlways == Spec => []ClosedInv
<1>1. Init => ClosedInv
  BY DEF Init, ClosedInv
<1>2. TypeOK /\ LinkInv /\ ClosedInv /\ [Next]_vars => ClosedInv'
  BY ClosedStep
<1> QED BY <1>1, <1>2, TypeCorrect, LinkAlways, PTL DEF Spec

\* The mapped variable of PersistentBus.
Links == [d \in Device |-> Link(d)]

\* One bus moves.
LEMMA LinkMove ==
  ASSUME NEW d \in Device, NEW x, Link(d)' = x,
         \A e \in Device \ {d} : Link(e)' = Link(e)
  PROVE  Links' = [Links EXCEPT ![d] = x]
BY DEF Links

\* No bus moves.
LEMMA LinkStutter ==
  ASSUME \A d \in Device : Link(d)' = Link(d)
  PROVE  Links' = Links
BY DEF Links

\* Every action is an action of PersistentBus or leaves its variable alone.
LEMMA RefineStep ==
  ASSUME TypeOK, LinkInv, ClosedInv, [Next]_vars
  PROVE  [Persistent!Next]_Links
<1> USE DEF TypeOK, MainType, BusType, ListType, mainVars, busVars, flagVars, rcVars
<1>s. ASSUME \A d \in Device : Link(d)' = Link(d) PROVE [Persistent!Next]_Links
  BY <1>s, LinkStutter
<1>m. ASSUME NEW d \in Device, NEW x, Link(d)' = x,
             \A e \in Device \ {d} : Link(e)' = Link(e),
             \/ x = "up" /\ Link(d) \in {"new", "queued"}
             \/ x = "lost" /\ Link(d) = "up"
             \/ x = "queued" /\ Link(d) = "lost"
             \/ x = "closed" /\ Link(d) \in {"new", "up", "lost", "queued"}
      PROVE [Persistent!Next]_Links
  <2>1. Links' = [Links EXCEPT ![d] = x] /\ Links[d] = Link(d)
    BY <1>m, LinkMove DEF Links
  <2>2. Persistent!Open(d) \/ Persistent!Lose(d) \/ Persistent!Report(d)
        \/ Persistent!Recover(d) \/ Persistent!Close(d)
    BY <1>m, <2>1 DEF Links, Persistent!Open, Persistent!Lose, Persistent!Report,
                      Persistent!Recover, Persistent!Close, Persistent!Moves
  <2> QED BY <2>2 DEF Persistent!Next
<1> USE DEF Link
<1>1. ASSUME NEW d \in Device, ConstructRoot(d) PROVE [Persistent!Next]_Links
  <2>1. \A e \in Device : Link(e)' = Link(e)
    BY <1>1 DEF ConstructRoot, LinkInv, Places
  <2> QED BY <2>1, <1>s
<1>2. CASE BuildConnect
  <2>1. PICK c \in Device : c = cur
    BY <1>2 DEF BuildConnect
  <2>2. Link(c) = "new" /\ Link(c)' = "up"
    BY <1>2, <2>1 DEF BuildConnect, LinkInv, Places
  <2>3. \A e \in Device \ {c} : Link(e)' = Link(e)
    BY <1>2, <2>1 DEF BuildConnect
  <2> HIDE DEF Link
  <2> QED BY <2>2, <2>3, <1>m
<1>3. ASSUME UNCHANGED <<busVars, reconnectList>> PROVE [Persistent!Next]_Links
  <2>1. \A e \in Device : Link(e)' = Link(e)
    BY <1>3
  <2> QED BY <2>1, <1>s
<1>4. CASE DtorUnregister
  <2>1. CASE isChild \/ bus[cur] = "absent" \/ cur \notin listening
    <3>1. \A e \in Device : Link(e)' = Link(e)
      BY <1>4, <2>1 DEF DtorUnregister
    <3> QED BY <3>1, <1>s
  <2>2. CASE ~isChild /\ bus[cur] # "absent" /\ cur \in listening
    <3>1. PICK c \in Device : c = cur
      BY <1>4 DEF DtorUnregister
    <3>2. Link(c) \in {"new", "up", "lost", "queued"} /\ Link(c)' = "closed"
      BY <1>4, <2>2, <3>1 DEF DtorUnregister
    <3>3. \A e \in Device \ {c} : Link(e)' = Link(e)
      BY <1>4, <3>1 DEF DtorUnregister
    <3> HIDE DEF Link
    <3> QED BY <3>2, <3>3, <1>m
  <2> QED BY <2>1, <2>2
<1>5. CASE DtorTeardown
  <2>1. \A e \in Device : Link(e)' = Link(e)
    BY <1>5 DEF DtorTeardown, LinkInv, ClosedInv
  <2> QED BY <2>1, <1>s
<1>6. CASE DtorFreeBus
  <2>1. \A e \in Device : Link(e)' = Link(e)
    BY <1>6 DEF DtorFreeBus, ClosedInv
  <2> QED BY <2>1, <1>s
<1>7. ASSUME NEW d \in Device, LinkLost(d) PROVE [Persistent!Next]_Links
  <2>1. CASE d \in listening
    <3>1. Link(d) = "up" /\ Link(d)' = "lost"
      BY <1>7, <2>1 DEF LinkLost, LinkInv, Places
    <3>2. \A e \in Device \ {d} : Link(e)' = Link(e)
      BY <1>7 DEF LinkLost
    <3> QED BY <3>1, <3>2, <1>m
  <2>2. CASE d \notin listening
    <3>1. \A e \in Device : Link(e)' = Link(e)
      BY <1>7, <2>2 DEF LinkLost
    <3> QED BY <3>1, <1>s
  <2> QED BY <2>1, <2>2
<1>8. ASSUME NEW d \in Device, BusDisconnected(d) PROVE [Persistent!Next]_Links
  <2>1. CASE d \in listening
    <3>1. Link(d) = "lost" /\ Link(d)' = "queued"
      BY <1>8, <2>1 DEF BusDisconnected, LinkInv, Places
    <3>2. \A e \in Device \ {d} : Link(e)' = Link(e)
      BY <1>8 DEF BusDisconnected
    <3> QED BY <3>1, <3>2, <1>m
  <2>2. CASE d \notin listening
    <3>1. \A e \in Device : Link(e)' = Link(e)
      BY <1>8, <2>2 DEF BusDisconnected
    <3> QED BY <3>1, <1>s
  <2> QED BY <2>1, <2>2
<1>9. ASSUME NEW d \in Device, RcConnects(d) PROVE [Persistent!Next]_Links
  <2>1. CASE d \in listening
    <3>1. Link(d) = "queued" /\ Link(d)' = "up"
      BY <1>9, <2>1 DEF RcConnects, SweepEntry, LinkInv, Places
    <3>2. \A e \in Device \ {d} : Link(e)' = Link(e)
      BY <1>9 DEF RcConnects
    <3> QED BY <3>1, <3>2, <1>m
  <2>2. CASE d \notin listening
    <3>1. \A e \in Device : Link(e)' = Link(e)
      BY <1>9, <2>2 DEF RcConnects
    <3> QED BY <3>1, <1>s
  <2> QED BY <2>1, <2>2
<1>10. ASSUME NEW d \in Device, RcTouchFreed(d) PROVE [Persistent!Next]_Links
  <2>1. \A e \in Device : Link(e)' = Link(e)
    BY <1>10 DEF RcTouchFreed, SweepEntry, ClosedInv
  <2> QED BY <2>1, <1>s
<1> HIDE DEF Link
<1> QED
  BY <1>1, <1>2, <1>3, <1>4, <1>5, <1>6, <1>7, <1>8, <1>9, <1>10
  DEF Next, Build, Destroy, Dispatcher, Reconnect, Sweep, Publish, BuildThrows,
      AllBuilt, HitEnter, DestroyNext, DtorLock, DtorJoin, DtorDrain, DtorChild,
      Finish, BusDisconnectedAfterExit, RcArm, RcTimeout, RcReturn,
      RcBeginSweep, RcConnectFails, RcEndSweep, Ended, vars

\* The threads, the list and the mutex implement a bus that is reconnected
\* after every loss until it is closed.
THEOREM Refinement == Spec => ImplementsPersistentBus
<1>1. Init => Persistent!Init
  BY DEF Init, Persistent!Init, Link
<1>2. TypeOK /\ LinkInv /\ ClosedInv /\ [Next]_vars => [Persistent!Next]_Links
  BY RefineStep
<1> QED
  BY <1>1, <1>2, TypeCorrect, LinkAlways, ClosedAlways, PTL
  DEF Spec, ImplementsPersistentBus, Persistent!Spec, Links

-----------------------------------------------------------------------------
(* The reference count, until a BusObject with children is torn down.       *)

\* The count does not wrap.
LEMMA SmallMod == \A n \in 0 .. RefModulus - 1 : n % RefModulus = n
  BY RefRange

\* There are never as many live roots as the count can hold.
LEMMA LiveFinite ==
  /\ IsFiniteSet(Live) /\ IsFiniteSet(Live')
  /\ Cardinality(Live) \in Nat /\ Cardinality(Live') \in Nat
  /\ Cardinality(Live) < RefModulus
  /\ Cardinality(Live') < RefModulus
<1>1. Live \subseteq Device /\ Live' \subseteq Device
  BY DEF Live
<1> QED BY <1>1, DeviceAssumption, RefAssumption, Objects, FS_Subset, FS_CardinalityType

LEMMA LiveCounts == Cardinality(Live') \in 0 .. RefModulus - 1
  BY LiveFinite, RefRange

\* Every action keeps the count exact and the thread with its live roots.
LEMMA CountStep ==
  ASSUME TypeOK, LinkInv, ClosedInv, CountInv, [Next]_vars
  PROVE  CountInv'
<1> USE DEF CountInv, CountExact, LinkInv, ClosedInv, TypeOK, MainType, BusType, FlagType,
            ListType, mainVars, busVars, flagVars, rcVars
<1>1. ASSUME NEW d \in Device, ConstructRoot(d) PROVE CountInv'
  <2>1. d \notin Live /\ Live' = Live \cup {d}
    BY <1>1, DeviceAssumption DEF ConstructRoot, Live, Dropped
  <2>2. Cardinality(Live') = Cardinality(Live) + 1
    BY <2>1, LiveFinite, FS_AddElement
  <2>3. CountExact' => CountExact
    BY <1>1 DEF ConstructRoot
  <2>4. CountExact' => reconnectRefcount' = Cardinality(Live')
    <3>1. CountExact' => reconnectRefcount' = Cardinality(Live') % RefModulus
      BY <1>1, <2>2, <2>3, LiveFinite DEF ConstructRoot
    <3> QED BY <3>1, LiveCounts, SmallMod
  <2>5. ~(kids' > 0) /\ pc' = "connect"
    BY <1>1 DEF ConstructRoot
  <2>6. CountExact' => Serving'
    BY <1>1, <2>3 DEF ConstructRoot, Serving
  <2> QED BY <2>4, <2>5, <2>6
<1>2. CASE BuildConnect
  <2>1. Live' = Live
    BY <1>2 DEF BuildConnect, Live, Dropped
  <2> QED BY <1>2, <2>1 DEF BuildConnect, Serving
<1>3. CASE Publish
  <2>1. Live' = Live
    BY <1>3, DeviceAssumption DEF Publish, Live, Dropped
  <2> QED BY <1>3, <2>1, DeviceAssumption DEF Publish, Serving
<1>4. CASE BuildThrows
  <2>1. Live' = Live
    BY <1>4 DEF BuildThrows, Live, Dropped
  <2> QED BY <1>4, <2>1 DEF BuildThrows, Serving
<1>5. CASE AllBuilt
  <2>1. Live' = Live
    BY <1>5 DEF AllBuilt, Live, Dropped
  <2> QED BY <1>5, <2>1 DEF AllBuilt, Serving
<1>6. CASE HitEnter
  <2>1. Live' = Live
    BY <1>6 DEF HitEnter, Live, Dropped
  <2> QED BY <1>6, <2>1 DEF HitEnter, Serving
<1>7. ASSUME NEW d \in Device, DestroyNext(d) PROVE CountInv'
  <2>1. Live' = Live
    BY <1>7, DeviceAssumption DEF DestroyNext, Live, Dropped
  <2> QED BY <1>7, <2>1, DeviceAssumption DEF DestroyNext, Serving
<1>8. CASE DtorLock
  <2>1. ASSUME CountExact'
        PROVE  reconnectRefcount' = Cardinality(Live') /\ (Live' # {} => Serving')
    <3>1. CountExact /\ reconnectRefcount = Cardinality(Live) /\ ~isChild
          /\ bus[cur] = "live"
      BY <1>8, <2>1 DEF DtorLock
    <3>2. cur \in Live /\ Live' = Live \ {cur}
      BY <1>8, <3>1 DEF DtorLock, LastReference, Live, Dropped
    <3>3. Cardinality(Live') = Cardinality(Live) - 1
      BY <3>2, LiveFinite, FS_RemoveElement
    <3>4. reconnectRefcount' = Cardinality(Live') % RefModulus
      <4>1. reconnectRefcount - 1 = Cardinality(Live')
        BY <3>1, <3>3, LiveFinite
      <4> QED BY <1>8, <4>1 DEF DtorLock, LastReference
    <3>5. reconnectRefcount' = Cardinality(Live')
      BY <3>4, LiveCounts, SmallMod
    <3>6. Live' # {} => reconnectRefcount' # 0
      BY <3>5, LiveFinite, FS_EmptySet
    <3> QED BY <1>8, <3>1, <3>2, <3>5, <3>6 DEF DtorLock, LastReference, Serving
  <2> QED BY <1>8, <2>1 DEF DtorLock, LastReference
<1>9. CASE DtorJoin
  <2>1. Live' = Live
    BY <1>9 DEF DtorJoin, Live, Dropped
  <2> QED BY <1>9, <2>1 DEF DtorJoin, Serving
<1>10. CASE DtorUnregister
  <2>1. Live' = Live
    BY <1>10 DEF DtorUnregister, Live, Dropped
  <2> QED BY <1>10, <2>1 DEF DtorUnregister, Serving
<1>11. CASE DtorDrain
  <2>1. Live' = Live
    BY <1>11 DEF DtorDrain, Live, Dropped
  <2> QED BY <1>11, <2>1 DEF DtorDrain, Serving
<1>12. CASE DtorTeardown
  <2>1. Live' = Live
    BY <1>12 DEF DtorTeardown, Live, Dropped
  <2> QED BY <1>12, <2>1 DEF DtorTeardown, Serving
<1>13. CASE DtorChild
  <2>1. Live' = Live
    BY <1>13 DEF DtorChild, Live, Dropped
  <2> QED BY <1>13, <2>1 DEF DtorChild, Serving
<1>14. CASE DtorFreeBus
  <2>1. Live' = Live
    BY <1>14, DeviceAssumption DEF DtorFreeBus, Live, Dropped
  <2> QED BY <1>14, <2>1, DeviceAssumption DEF DtorFreeBus, Joinable, Serving
<1>15. CASE Finish
  <2>1. Live' = Live
    BY <1>15 DEF Finish, Live, Dropped
  <2> QED BY <1>15, <2>1 DEF Finish, Joinable, Serving
<1>16. ASSUME NEW d \in Device, LinkLost(d) PROVE CountInv'
  <2>1. Live' = Live
    BY <1>16 DEF LinkLost, Live, Dropped
  <2> QED BY <1>16, <2>1 DEF LinkLost, Serving
<1>17. ASSUME NEW d \in Device, BusDisconnected(d) PROVE CountInv'
  <2>1. Live' = Live
    BY <1>17 DEF BusDisconnected, Live, Dropped
  <2> QED BY <1>17, <2>1 DEF BusDisconnected, Serving
<1>18. ASSUME NEW d \in Device, BusDisconnectedAfterExit(d) PROVE CountInv'
  <2>1. Live' = Live
    BY <1>18 DEF BusDisconnectedAfterExit, Live, Dropped
  <2> QED BY <1>18, <2>1 DEF BusDisconnectedAfterExit, Serving
<1>19. CASE RcArm
  <2>1. Live' = Live
    BY <1>19 DEF RcArm, Live, Dropped
  <2> QED BY <1>19, <2>1 DEF RcArm, Serving
<1>20. CASE RcTimeout
  <2>1. Live' = Live
    BY <1>20 DEF RcTimeout, Live, Dropped
  <2> QED BY <1>20, <2>1 DEF RcTimeout, Serving
<1>21. CASE RcReturn
  <2>1. Live' = Live
    BY <1>21 DEF RcReturn, Live, Dropped
  <2> QED BY <1>21, <2>1 DEF RcReturn, RcWoken, Serving
<1>22. CASE RcBeginSweep
  <2>1. Live' = Live
    BY <1>22 DEF RcBeginSweep, Live, Dropped
  <2> QED BY <1>22, <2>1 DEF RcBeginSweep, RcWoken, Serving
<1>23. ASSUME NEW d \in Device, RcConnects(d) PROVE CountInv'
  <2>1. Live' = Live
    BY <1>23 DEF RcConnects, Live, Dropped
  <2> QED BY <1>23, <2>1 DEF RcConnects, SweepEntry, Serving
<1>24. ASSUME NEW d \in Device, RcConnectFails(d) PROVE CountInv'
  <2>1. Live' = Live
    BY <1>24 DEF RcConnectFails, Live, Dropped
  <2> QED BY <1>24, <2>1 DEF RcConnectFails, SweepEntry, Serving
<1>25. ASSUME NEW d \in Device, RcTouchFreed(d) PROVE CountInv'
  <2>1. Live' = Live
    BY <1>25 DEF RcTouchFreed, Live, Dropped
  <2> QED BY <1>25, <2>1 DEF RcTouchFreed, SweepEntry, Serving
<1>26. CASE RcEndSweep
  <2>1. Live' = Live
    BY <1>26 DEF RcEndSweep, Live, Dropped
  <2> QED BY <1>26, <2>1 DEF RcEndSweep, Serving
<1>27. CASE Ended \/ UNCHANGED vars
  <2>1. Live' = Live
    BY <1>27 DEF Ended, vars, Live, Dropped
  <2> QED BY <2>1, <1>27 DEF Ended, vars, Serving
<1> QED
  BY <1>1, <1>2, <1>3, <1>4, <1>5, <1>6, <1>7, <1>8, <1>9, <1>10, <1>11, <1>12, <1>13,
     <1>14, <1>15, <1>16, <1>17, <1>18, <1>19, <1>20, <1>21, <1>22, <1>23, <1>24,
     <1>25, <1>26, <1>27
  DEF Next, Build, Destroy, Dispatcher, Reconnect, Sweep

\* Until a BusObject with children is torn down, the reconnect thread runs for
\* as long as any root BusObject lives. (Afterwards it need not: the
\* destructors of children give back references they never took.)
THEOREM AliveServed == Spec => []ServedWhileLive
<1>1. Init => CountInv
  <2> SUFFICES ASSUME Init PROVE CountInv
    OBVIOUS
  <2>1. Live = {}
    BY DEF Init, Live
  <2> QED BY <2>1, FS_EmptySet DEF Init, CountInv
<1>2. TypeOK /\ LinkInv /\ ClosedInv /\ CountInv /\ [Next]_vars => CountInv'
  BY CountStep
<1>3. CountInv => ServedWhileLive
  BY DEF CountInv, ServedWhileLive
<1> QED
  BY <1>1, <1>2, <1>3, TypeCorrect, LinkAlways, ClosedAlways, PTL DEF Spec

-----------------------------------------------------------------------------
(* The end of the thread, whatever children the devices have.              *)

LEMMA RefStep ==
  ASSUME TypeOK, LinkInv, ClosedInv, RefInv, [Next]_vars
  PROVE  RefInv'
<1> USE DEF RefInv, Joinable, LinkInv, ClosedInv, TypeOK, MainType, BusType, FlagType, ListType,
            mainVars, busVars, flagVars, rcVars
<1>1. ASSUME NEW d \in Device, ConstructRoot(d) PROVE RefInv'
  <2>1. d \notin Live /\ Live' = Live \cup {d}
    BY <1>1, DeviceAssumption DEF ConstructRoot, Live, Dropped
  <2>2. Cardinality(Live') = Cardinality(Live) + 1
    BY <2>1, LiveFinite, FS_AddElement
  <2>3. reconnectRefcount' = (reconnectRefcount + 1) % RefModulus /\ pc = "idle" /\ pc' = "connect"
    BY <1>1 DEF ConstructRoot
  <2>4. rc = "none" => reconnectRefcount' \in 1 .. Cardinality(Live')
    <3>1. rc = "none" => reconnectRefcount' = 1
      <4>1. 1 \in 0 .. RefModulus - 1
        BY <2>2, LiveFinite, RefRange
      <4> QED BY <2>3, <4>1, SmallMod
    <3> QED BY <2>2, <3>1, LiveFinite
  <2>5. Joinable => reconnectRefcount' \in 1 .. Cardinality(Live')
    <3>1. Joinable => reconnectRefcount + 1 \in 1 .. Cardinality(Live')
      BY <2>2, <2>3, LiveFinite
    <3>2. Joinable => reconnectRefcount + 1 \in 0 .. RefModulus - 1
      BY <3>1, LiveFinite, RefRange
    <3> QED BY <2>3, <3>1, <3>2, SmallMod
  <2>6. rc' # "none" /\ (rc = "joined" => rc' = "joined")
    BY <1>1 DEF ConstructRoot
  <2>7. Joinable' /\ pc' # "join" => reconnectRefcount' \in 1 .. Cardinality(Live')
    BY <2>4, <2>5, <2>6
  <2>8. \A e \in Device : bus'[e] = "live" => e \in devices' \/ e = cur'
    BY <1>1, DeviceAssumption DEF ConstructRoot
  <2> QED BY <1>1, <2>6, <2>7, <2>8 DEF ConstructRoot
<1>2. CASE BuildConnect
  <2>1. Live' = Live
    BY <1>2 DEF BuildConnect, Live, Dropped
  <2> QED BY <1>2, <2>1 DEF BuildConnect
<1>3. CASE Publish
  <2>1. Live' = Live
    BY <1>3, DeviceAssumption DEF Publish, Live, Dropped
  <2> QED BY <1>3, <2>1, DeviceAssumption DEF Publish
<1>4. CASE BuildThrows
  <2>1. Live' = Live
    BY <1>4 DEF BuildThrows, Live, Dropped
  <2> QED BY <1>4, <2>1 DEF BuildThrows
<1>5. CASE AllBuilt
  <2>1. Live' = Live
    BY <1>5 DEF AllBuilt, Live, Dropped
  <2> QED BY <1>5, <2>1 DEF AllBuilt
<1>6. CASE HitEnter
  <2>1. Live' = Live
    BY <1>6 DEF HitEnter, Live, Dropped
  <2> QED BY <1>6, <2>1 DEF HitEnter
<1>7. ASSUME NEW d \in Device, DestroyNext(d) PROVE RefInv'
  <2>1. Live' = Live
    BY <1>7, DeviceAssumption DEF DestroyNext, Live, Dropped
  <2> QED BY <1>7, <2>1, DeviceAssumption DEF DestroyNext
<1>8. CASE DtorLock
  <2>1. /\ isChild => Live' = Live
        /\ ~isChild => Cardinality(Live') = Cardinality(Live) - 1
    <3>1. CASE isChild
      <4>1. bus[cur] = "stopped"
        BY <1>8, <3>1 DEF DtorLock
      <4> QED BY <1>8, <3>1, <4>1 DEF DtorLock, LastReference, Live, Dropped
    <3>2. CASE ~isChild
      <4>1. bus[cur] = "live" /\ cur \in Device
        BY <1>8, <3>2, DeviceAssumption DEF DtorLock
      <4>2. cur \in Live /\ Live' = Live \ {cur}
        BY <1>8, <4>1 DEF DtorLock, LastReference, Live, Dropped
      <4> QED BY <3>2, <4>2, LiveFinite, FS_RemoveElement
    <3> QED BY <3>1, <3>2
  <2>2. rc' = rc /\ rc # "none"
    BY <1>8, DeviceAssumption DEF DtorLock
  <2>3. reconnectRefcount' = (reconnectRefcount - 1) % RefModulus
    BY <1>8 DEF DtorLock
  <2>4. ASSUME Joinable, reconnectRefcount' # 0
        PROVE  reconnectRefcount' \in 1 .. Cardinality(Live')
    <3>1. reconnectRefcount \in 1 .. Cardinality(Live)
      BY <1>8, <2>4 DEF DtorLock
    <3>2. reconnectRefcount - 1 \in 0 .. RefModulus - 1
      BY <3>1, LiveFinite, RefRange
    <3>3. reconnectRefcount' = reconnectRefcount - 1
      BY <2>3, <3>2, SmallMod
    <3>4. reconnectRefcount' <= Cardinality(Live')
      BY <2>1, <3>1, <3>3, LiveFinite
    <3> QED BY <2>4, <3>1, <3>3, <3>4, LiveFinite
  <2>5. Joinable' /\ pc' # "join" => reconnectRefcount' \in 1 .. Cardinality(Live')
    BY <1>8, <2>2, <2>4 DEF DtorLock, LastReference
  <2> QED BY <1>8, <2>2, <2>5 DEF DtorLock, LastReference
<1>9. CASE DtorJoin
  <2>1. Live' = Live
    BY <1>9 DEF DtorJoin, Live, Dropped
  <2> QED BY <1>9, <2>1 DEF DtorJoin
<1>10. CASE DtorUnregister
  <2>1. Live' = Live
    BY <1>10 DEF DtorUnregister, Live, Dropped
  <2> QED BY <1>10, <2>1 DEF DtorUnregister
<1>11. CASE DtorDrain
  <2>1. Live' = Live
    BY <1>11 DEF DtorDrain, Live, Dropped
  <2> QED BY <1>11, <2>1 DEF DtorDrain
<1>12. CASE DtorTeardown
  <2>1. Live' = Live
    BY <1>12 DEF DtorTeardown, Live, Dropped
  <2> QED BY <1>12, <2>1 DEF DtorTeardown
<1>13. CASE DtorChild
  <2>1. Live' = Live
    BY <1>13 DEF DtorChild, Live, Dropped
  <2> QED BY <1>13, <2>1 DEF DtorChild
<1>14. CASE DtorFreeBus
  <2>1. Live' = Live
    BY <1>14, DeviceAssumption DEF DtorFreeBus, Live, Dropped
  <2> QED BY <1>14, <2>1, DeviceAssumption DEF DtorFreeBus
<1>15. CASE Finish
  <2>1. Live' = Live
    BY <1>15 DEF Finish, Live, Dropped
  <2> QED BY <1>15, <2>1 DEF Finish
<1>16. ASSUME NEW d \in Device, LinkLost(d) PROVE RefInv'
  <2>1. Live' = Live
    BY <1>16 DEF LinkLost, Live, Dropped
  <2> QED BY <1>16, <2>1 DEF LinkLost
<1>17. ASSUME NEW d \in Device, BusDisconnected(d) PROVE RefInv'
  <2>1. Live' = Live
    BY <1>17 DEF BusDisconnected, Live, Dropped
  <2> QED BY <1>17, <2>1 DEF BusDisconnected
<1>18. ASSUME NEW d \in Device, BusDisconnectedAfterExit(d) PROVE RefInv'
  <2>1. Live' = Live
    BY <1>18 DEF BusDisconnectedAfterExit, Live, Dropped
  <2> QED BY <1>18, <2>1 DEF BusDisconnectedAfterExit
<1>19. CASE RcArm
  <2>1. Live' = Live
    BY <1>19 DEF RcArm, Live, Dropped
  <2> QED BY <1>19, <2>1 DEF RcArm
<1>20. CASE RcTimeout
  <2>1. Live' = Live
    BY <1>20 DEF RcTimeout, Live, Dropped
  <2> QED BY <1>20, <2>1 DEF RcTimeout
<1>21. CASE RcReturn
  <2>1. Live' = Live
    BY <1>21 DEF RcReturn, RcWoken, Live, Dropped
  <2> QED BY <1>21, <2>1 DEF RcReturn, RcWoken
<1>22. CASE RcBeginSweep
  <2>1. Live' = Live
    BY <1>22 DEF RcBeginSweep, RcWoken, Live, Dropped
  <2> QED BY <1>22, <2>1 DEF RcBeginSweep, RcWoken
<1>23. ASSUME NEW d \in Device, RcConnects(d) PROVE RefInv'
  <2>1. Live' = Live
    BY <1>23 DEF RcConnects, SweepEntry, Live, Dropped
  <2> QED BY <1>23, <2>1 DEF RcConnects, SweepEntry
<1>24. ASSUME NEW d \in Device, RcConnectFails(d) PROVE RefInv'
  <2>1. Live' = Live
    BY <1>24 DEF RcConnectFails, SweepEntry, Live, Dropped
  <2> QED BY <1>24, <2>1 DEF RcConnectFails, SweepEntry
<1>25. ASSUME NEW d \in Device, RcTouchFreed(d) PROVE RefInv'
  <2>1. Live' = Live
    BY <1>25 DEF RcTouchFreed, SweepEntry, Live, Dropped
  <2> QED BY <1>25, <2>1 DEF RcTouchFreed, SweepEntry
<1>26. CASE RcEndSweep
  <2>1. Live' = Live
    BY <1>26 DEF RcEndSweep, Live, Dropped
  <2> QED BY <1>26, <2>1 DEF RcEndSweep
<1>27. CASE Ended \/ UNCHANGED vars
  <2>1. Live' = Live
    BY <1>27 DEF Ended, vars, Live, Dropped
  <2> QED BY <1>27, <2>1 DEF Ended, vars
<1> QED
  BY <1>1, <1>2, <1>3, <1>4, <1>5, <1>6, <1>7, <1>8, <1>9, <1>10, <1>11, <1>12, <1>13,
     <1>14, <1>15, <1>16, <1>17, <1>18, <1>19, <1>20, <1>21, <1>22, <1>23, <1>24,
     <1>25, <1>26, <1>27
  DEF Next, Build, Destroy, Dispatcher, Reconnect, Sweep

LEMMA RefAlways == Spec => []RefInv
<1>1. Init => RefInv
  BY DeviceAssumption DEF Init, RefInv, Joinable
<1>2. TypeOK /\ LinkInv /\ ClosedInv /\ RefInv /\ [Next]_vars => RefInv'
  BY RefStep
<1> QED
  BY <1>1, <1>2, TypeCorrect, LinkAlways, ClosedAlways, PTL DEF Spec

\* A bridge that is stopped by hitting enter joins its thread, whatever the
\* destructors of children did to the count: std::terminate can only come out
\* of the exit(1) after a failed build.
THEOREM ThreadJoinedAtStop == Spec => JoinedAtStop
<1>1. TypeOK /\ LinkInv /\ RefInv /\ [Next]_vars =>
        [phase' = "terminated" => phase = "unwinding"]_vars
  <2> SUFFICES ASSUME TypeOK, LinkInv, RefInv, Next, phase' = "terminated", phase # "unwinding",
                      phase # "terminated"
               PROVE  FALSE
    <3>1. Next /\ phase = "terminated" => UNCHANGED vars
      BY DEF Next, Ended, Up, Build, Destroy, Dispatcher, Reconnect, Sweep, BuildConnect, Publish,
             BuildThrows, AllBuilt, ConstructRoot, HitEnter, DtorLock, DtorJoin, DtorUnregister,
             DtorDrain, DtorTeardown, DtorChild, DtorFreeBus, Finish, DestroyNext, LinkLost,
             BusDisconnected, BusDisconnectedAfterExit, RcArm, RcTimeout, RcReturn, RcWoken,
             RcBeginSweep, RcEndSweep, RcConnects, RcConnectFails, RcTouchFreed, SweepEntry
    <3> QED BY <3>1
  <2>1. Finish /\ Joinable
    BY DEF Next, Ended, Up, mainVars, vars, Build, Destroy, Dispatcher, Reconnect, Sweep,
           BuildConnect, Publish, BuildThrows, AllBuilt, ConstructRoot, HitEnter, DtorLock, DtorJoin,
           DtorUnregister, DtorDrain, DtorTeardown, DtorChild, DtorFreeBus, Finish, DestroyNext,
           LinkLost, BusDisconnected, BusDisconnectedAfterExit, RcArm, RcTimeout, RcReturn, RcWoken,
           RcBeginSweep, RcEndSweep, RcConnects, RcConnectFails, RcTouchFreed, SweepEntry
  <2>2. Live = {}
    <3>1. cur = NoDevice /\ devices = {}
      BY <2>1 DEF Finish, TypeOK, MainType
    <3> QED BY <3>1, DeviceAssumption DEF RefInv, Live
  <2>3. reconnectRefcount \in 1 .. Cardinality(Live)
    BY <2>1 DEF Finish, RefInv
  <2> QED BY <2>2, <2>3, FS_EmptySet
<1> QED
  BY <1>1, TypeCorrect, LinkAlways, RefAlways, PTL DEF Spec, JoinedAtStop

-----------------------------------------------------------------------------
(* What main waits for, whatever the devices and their children.           *)

LEMMA WaitStep == ASSUME TypeOK, LinkInv, ClosedInv, WaitInv, [Next]_vars PROVE WaitInv'
<1> USE DEF WaitInv, LinkInv, ClosedInv, TypeOK, MainType, BusType, FlagType, ListType,
            mainVars, busVars, flagVars, rcVars
<1>1. ASSUME NEW d \in Device, ConstructRoot(d) PROVE WaitInv'
  BY <1>1 DEF ConstructRoot
<1>2. CASE BuildConnect
  BY <1>2 DEF BuildConnect
<1>3. CASE Publish
  BY <1>3 DEF Publish
<1>4. CASE BuildThrows
  BY <1>4 DEF BuildThrows
<1>5. CASE AllBuilt
  BY <1>5 DEF AllBuilt
<1>6. CASE HitEnter
  BY <1>6 DEF HitEnter
<1>7. ASSUME NEW d \in Device, DestroyNext(d) PROVE WaitInv'
  BY <1>7 DEF DestroyNext
<1>8. CASE DtorLock
  BY <1>8 DEF DtorLock, LastReference
<1>9. CASE DtorJoin
  BY <1>9 DEF DtorJoin
<1>10. CASE DtorUnregister
  BY <1>10 DEF DtorUnregister
<1>11. CASE DtorDrain
  BY <1>11 DEF DtorDrain
<1>12. CASE DtorTeardown
  BY <1>12 DEF DtorTeardown
<1>13. CASE DtorChild
  BY <1>13 DEF DtorChild
<1>14. CASE DtorFreeBus
  BY <1>14 DEF DtorFreeBus, Joinable
<1>15. CASE Finish
  BY <1>15 DEF Finish, Joinable
<1>16. ASSUME NEW d \in Device, LinkLost(d) PROVE WaitInv'
  BY <1>16 DEF LinkLost
<1>17. ASSUME NEW d \in Device, BusDisconnected(d) PROVE WaitInv'
  BY <1>17 DEF BusDisconnected
<1>18. ASSUME NEW d \in Device, BusDisconnectedAfterExit(d) PROVE WaitInv'
  BY <1>18 DEF BusDisconnectedAfterExit
<1>19. CASE RcArm
  BY <1>19 DEF RcArm
<1>20. CASE RcTimeout
  BY <1>20 DEF RcTimeout
<1>21. CASE RcReturn
  BY <1>21 DEF RcReturn, RcWoken
<1>22. CASE RcBeginSweep
  BY <1>22 DEF RcBeginSweep, RcWoken
<1>23. ASSUME NEW d \in Device, RcConnects(d) PROVE WaitInv'
  BY <1>23 DEF RcConnects, SweepEntry
<1>24. ASSUME NEW d \in Device, RcConnectFails(d) PROVE WaitInv'
  BY <1>24 DEF RcConnectFails, SweepEntry
<1>25. ASSUME NEW d \in Device, RcTouchFreed(d) PROVE WaitInv'
  <2>1. /\ bus[d] = "freed" /\ phase' \in {phase, "crashed"}
        /\ UNCHANGED <<pc, bus, connected, reconnectShutdown>>
    BY <1>25 DEF RcTouchFreed, SweepEntry
  <2> QED BY <2>1
<1>26. CASE RcEndSweep
  BY <1>26 DEF RcEndSweep
<1>27. CASE Ended \/ UNCHANGED vars
  BY <1>27 DEF Ended, vars
<1> QED
  BY <1>1, <1>2, <1>3, <1>4, <1>5, <1>6, <1>7, <1>8, <1>9, <1>10, <1>11, <1>12, <1>13,
     <1>14, <1>15, <1>16, <1>17, <1>18, <1>19, <1>20, <1>21, <1>22, <1>23, <1>24,
     <1>25, <1>26, <1>27
  DEF Next, Build, Destroy, Dispatcher, Reconnect, Sweep

LEMMA WaitAlways == Spec => []WaitInv
<1>1. Init => WaitInv
  BY DEF Init, WaitInv
<1>2. TypeOK /\ LinkInv /\ ClosedInv /\ WaitInv /\ [Next]_vars => WaitInv'
  BY WaitStep
<1> QED
  BY <1>1, <1>2, TypeCorrect, LinkAlways, ClosedAlways, PTL DEF Spec

\* The count of a thread without references wraps round.
LEMMA WrapAround == (0 - 1) % RefModulus = RefModulus - 1
<1>1. RefModulus \in Nat \ {0}
  BY RefRange
<1> QED BY <1>1

\* There are never more objects left than there are objects.
LEMMA LeftFinite ==
  /\ Left \subseteq Object /\ IsFiniteSet(Left) /\ IsFiniteSet(Left')
  /\ Cardinality(Left) \in Nat /\ Cardinality(Left') \in Nat
  /\ Cardinality(Left) <= Cardinality(Object)
<1>1. Left \subseteq Object /\ Left' \subseteq Object
  BY DEF Left
<1> QED BY <1>1, Objects, FS_Subset, FS_CardinalityType

\* Every destructor takes one reference and one object away.
LEMMA JoinStep ==
  ASSUME TypeOK, LinkInv, ClosedInv, RefInv, WaitInv, JoinInv, [Next]_vars
  PROVE  JoinInv'
<1> USE DEF JoinInv, Joinable, WaitInv, RefInv, LinkInv, ClosedInv, TypeOK, MainType, BusType,
            FlagType, ListType, mainVars, busVars, flagVars, rcVars
<1>1. ASSUME NEW d \in Device, ConstructRoot(d) PROVE JoinInv'
  <2>1. Children[d] \in Nat /\ kids' = 0 /\ cur' = d /\ pc' = "connect"
    BY <1>1, ChildrenAssumption DEF ConstructRoot
  <2>2. rc' # "joined"
    BY <1>1 DEF ConstructRoot
  <2> QED BY <2>1, <2>2
<1>2. CASE BuildConnect
  BY <1>2, ChildrenAssumption, DeviceAssumption DEF BuildConnect
<1>3. CASE Publish
  BY <1>3, ChildrenAssumption, DeviceAssumption DEF Publish
<1>4. CASE BuildThrows
  BY <1>4, ChildrenAssumption, DeviceAssumption DEF BuildThrows
<1>5. CASE AllBuilt
  BY <1>5, ChildrenAssumption, DeviceAssumption DEF AllBuilt
<1>6. CASE HitEnter
  BY <1>6, ChildrenAssumption, DeviceAssumption DEF HitEnter
<1>7. ASSUME NEW d \in Device, DestroyNext(d) PROVE JoinInv'
  <2>1. Left' \subseteq Left
    BY <1>7, ChildrenAssumption, DeviceAssumption DEF DestroyNext, Left, Object
  <2>2. Cardinality(Left') <= Cardinality(Left)
    BY <2>1, LeftFinite, FS_Subset
  <2> QED BY <1>7, <2>2, LeftFinite, ChildrenAssumption, DeviceAssumption DEF DestroyNext
<1>8. CASE DtorLock
  <2>1. <<cur, kids + 1>> \in Left /\ Left' = Left \ {<<cur, kids + 1>>}
    BY <1>8, ChildrenAssumption, DeviceAssumption DEF DtorLock, LastReference, Left, Object
  <2>2. /\ Cardinality(Left') = Cardinality(Left) - 1
        /\ Cardinality(Left) \in 1 .. Cardinality(Object)
    BY <2>1, LeftFinite, FS_RemoveElement, Objects
  <2>3. rc # "none" /\ rc' = rc
    BY <1>8, DeviceAssumption DEF DtorLock
  <2>4. reconnectRefcount' = (reconnectRefcount - 1) % RefModulus
    BY <1>8 DEF DtorLock
  <2>5. ASSUME rc = "joined"
        PROVE  reconnectRefcount' > Cardinality(Left') /\ reconnectRefcount' # 0
    <3>1. CASE reconnectRefcount = 0
      BY <2>2, <2>4, <3>1, WrapAround, Objects, RefAssumption
    <3>2. CASE reconnectRefcount > Cardinality(Left)
      <4>1. reconnectRefcount - 1 \in 0 .. RefModulus - 1
        <5>1. reconnectRefcount \in 0 .. RefModulus - 1 /\ RefModulus \in Nat
          BY RefAssumption
        <5> HIDE DEF JoinInv, WaitInv, RefInv, LinkInv, ClosedInv, TypeOK
        <5> QED BY <2>2, <3>2, <5>1, Objects
      <4>2. reconnectRefcount' = reconnectRefcount - 1
        BY <2>4, <4>1, SmallMod
      <4> QED BY <2>2, <3>2, <4>2, Objects
    <3> QED BY <2>5, <3>1, <3>2
  <2> HIDE DEF JoinInv
  <2>6. pc' = "join" => Joinable' /\ reconnectRefcount' = 0
    BY <1>8, <2>3, <2>5 DEF DtorLock, LastReference
  <2>7. UNCHANGED <<phase, cur, kids>> /\ pc' \notin {"idle", "connect"}
    BY <1>8 DEF DtorLock, LastReference
  <2> QED BY <2>3, <2>5, <2>6, <2>7 DEF JoinInv
<1>9. CASE DtorJoin
  <2>1. Left' \subseteq Left
    BY <1>9, ChildrenAssumption, DeviceAssumption DEF DtorJoin, Left, Object
  <2>2. Cardinality(Left') <= Cardinality(Left)
    BY <2>1, LeftFinite, FS_Subset
  <2> QED BY <1>9, <2>2, LeftFinite, ChildrenAssumption, DeviceAssumption DEF DtorJoin
<1>10. CASE DtorUnregister
  <2>1. Left' \subseteq Left
    BY <1>10, ChildrenAssumption, DeviceAssumption DEF DtorUnregister, Left, Object
  <2>2. Cardinality(Left') <= Cardinality(Left)
    BY <2>1, LeftFinite, FS_Subset
  <2> QED BY <1>10, <2>2, LeftFinite, ChildrenAssumption, DeviceAssumption DEF DtorUnregister
<1>11. CASE DtorDrain
  <2>1. Left' \subseteq Left
    BY <1>11, ChildrenAssumption, DeviceAssumption DEF DtorDrain, Left, Object
  <2>2. Cardinality(Left') <= Cardinality(Left)
    BY <2>1, LeftFinite, FS_Subset
  <2> QED BY <1>11, <2>2, LeftFinite, ChildrenAssumption, DeviceAssumption DEF DtorDrain
<1>12. CASE DtorTeardown
  <2>1. Left' \subseteq Left
    BY <1>12, ChildrenAssumption, DeviceAssumption DEF DtorTeardown, Left, Object
  <2>2. Cardinality(Left') <= Cardinality(Left)
    BY <2>1, LeftFinite, FS_Subset
  <2> QED BY <1>12, <2>2, LeftFinite, ChildrenAssumption, DeviceAssumption DEF DtorTeardown
<1>13. CASE DtorChild
  <2>1. Left' \subseteq Left
    BY <1>13, ChildrenAssumption, DeviceAssumption DEF DtorChild, Left, Object
  <2>2. Cardinality(Left') <= Cardinality(Left)
    BY <2>1, LeftFinite, FS_Subset
  <2> QED BY <1>13, <2>2, LeftFinite, ChildrenAssumption, DeviceAssumption DEF DtorChild
<1>14. CASE DtorFreeBus
  <2>1. Left' \subseteq Left
    BY <1>14, ChildrenAssumption, DeviceAssumption DEF DtorFreeBus, Left, Object
  <2>2. Cardinality(Left') <= Cardinality(Left)
    BY <2>1, LeftFinite, FS_Subset
  <2> QED BY <1>14, <2>2, LeftFinite, ChildrenAssumption, DeviceAssumption DEF DtorFreeBus
<1>15. CASE Finish
  <2>1. Left' \subseteq Left
    BY <1>15, ChildrenAssumption, DeviceAssumption DEF Finish, Left, Object
  <2>2. Cardinality(Left') <= Cardinality(Left)
    BY <2>1, LeftFinite, FS_Subset
  <2> QED BY <1>15, <2>2, LeftFinite, ChildrenAssumption, DeviceAssumption DEF Finish
<1>16. ASSUME NEW d \in Device, LinkLost(d) PROVE JoinInv'
  <2>1. Left' \subseteq Left
    BY <1>16, ChildrenAssumption, DeviceAssumption DEF LinkLost, Left, Object
  <2>2. Cardinality(Left') <= Cardinality(Left)
    BY <2>1, LeftFinite, FS_Subset
  <2> QED BY <1>16, <2>2, LeftFinite, ChildrenAssumption, DeviceAssumption DEF LinkLost
<1>17. ASSUME NEW d \in Device, BusDisconnected(d) PROVE JoinInv'
  <2>1. Left' \subseteq Left
    BY <1>17, ChildrenAssumption, DeviceAssumption DEF BusDisconnected, Left, Object
  <2>2. Cardinality(Left') <= Cardinality(Left)
    BY <2>1, LeftFinite, FS_Subset
  <2> QED BY <1>17, <2>2, LeftFinite, ChildrenAssumption, DeviceAssumption DEF BusDisconnected
<1>18. ASSUME NEW d \in Device, BusDisconnectedAfterExit(d) PROVE JoinInv'
  <2>1. Left' \subseteq Left
    BY <1>18, ChildrenAssumption, DeviceAssumption DEF BusDisconnectedAfterExit, Left, Object
  <2>2. Cardinality(Left') <= Cardinality(Left)
    BY <2>1, LeftFinite, FS_Subset
  <2> QED BY <1>18, <2>2, LeftFinite, ChildrenAssumption, DeviceAssumption DEF BusDisconnectedAfterExit
<1>19. CASE RcArm
  <2>1. Left' \subseteq Left
    BY <1>19, ChildrenAssumption, DeviceAssumption DEF RcArm, Left, Object
  <2>2. Cardinality(Left') <= Cardinality(Left)
    BY <2>1, LeftFinite, FS_Subset
  <2> QED BY <1>19, <2>2, LeftFinite, ChildrenAssumption, DeviceAssumption DEF RcArm
<1>20. CASE RcTimeout
  <2>1. Left' \subseteq Left
    BY <1>20, ChildrenAssumption, DeviceAssumption DEF RcTimeout, Left, Object
  <2>2. Cardinality(Left') <= Cardinality(Left)
    BY <2>1, LeftFinite, FS_Subset
  <2> QED BY <1>20, <2>2, LeftFinite, ChildrenAssumption, DeviceAssumption DEF RcTimeout
<1>21. CASE RcReturn
  <2>1. Left' \subseteq Left
    BY <1>21, ChildrenAssumption, DeviceAssumption DEF RcReturn, RcWoken, Left, Object
  <2>2. Cardinality(Left') <= Cardinality(Left)
    BY <2>1, LeftFinite, FS_Subset
  <2> QED BY <1>21, <2>2, LeftFinite, ChildrenAssumption, DeviceAssumption DEF RcReturn, RcWoken
<1>22. CASE RcBeginSweep
  <2>1. Left' \subseteq Left
    BY <1>22, ChildrenAssumption, DeviceAssumption DEF RcBeginSweep, RcWoken, Left, Object
  <2>2. Cardinality(Left') <= Cardinality(Left)
    BY <2>1, LeftFinite, FS_Subset
  <2> QED BY <1>22, <2>2, LeftFinite, ChildrenAssumption, DeviceAssumption DEF RcBeginSweep, RcWoken
<1>23. ASSUME NEW d \in Device, RcConnects(d) PROVE JoinInv'
  <2>1. Left' \subseteq Left
    BY <1>23, ChildrenAssumption, DeviceAssumption DEF RcConnects, SweepEntry, Left, Object
  <2>2. Cardinality(Left') <= Cardinality(Left)
    BY <2>1, LeftFinite, FS_Subset
  <2> QED BY <1>23, <2>2, LeftFinite, ChildrenAssumption, DeviceAssumption DEF RcConnects, SweepEntry
<1>24. ASSUME NEW d \in Device, RcConnectFails(d) PROVE JoinInv'
  <2>1. Left' \subseteq Left
    BY <1>24, ChildrenAssumption, DeviceAssumption DEF RcConnectFails, SweepEntry, Left, Object
  <2>2. Cardinality(Left') <= Cardinality(Left)
    BY <2>1, LeftFinite, FS_Subset
  <2> QED BY <1>24, <2>2, LeftFinite, ChildrenAssumption, DeviceAssumption DEF RcConnectFails, SweepEntry
<1>25. ASSUME NEW d \in Device, RcTouchFreed(d) PROVE JoinInv'
  <2>1. Left' \subseteq Left
    BY <1>25, ChildrenAssumption, DeviceAssumption DEF RcTouchFreed, SweepEntry, Left, Object
  <2>2. Cardinality(Left') <= Cardinality(Left)
    BY <2>1, LeftFinite, FS_Subset
  <2> QED BY <1>25, <2>2, LeftFinite, ChildrenAssumption, DeviceAssumption DEF RcTouchFreed, SweepEntry
<1>26. CASE RcEndSweep
  <2>1. Left' \subseteq Left
    BY <1>26, ChildrenAssumption, DeviceAssumption DEF RcEndSweep, Left, Object
  <2>2. Cardinality(Left') <= Cardinality(Left)
    BY <2>1, LeftFinite, FS_Subset
  <2> QED BY <1>26, <2>2, LeftFinite, ChildrenAssumption, DeviceAssumption DEF RcEndSweep
<1>27. CASE Ended \/ UNCHANGED vars
  <2>1. Left' = Left
    BY <1>27 DEF Ended, vars, Left
  <2> QED BY <1>27, <2>1 DEF Ended, vars
<1> QED
  BY <1>1, <1>2, <1>3, <1>4, <1>5, <1>6, <1>7, <1>8, <1>9, <1>10, <1>11, <1>12, <1>13,
     <1>14, <1>15, <1>16, <1>17, <1>18, <1>19, <1>20, <1>21, <1>22, <1>23, <1>24,
     <1>25, <1>26, <1>27
  DEF Next, Build, Destroy, Dispatcher, Reconnect, Sweep

LEMMA JoinAlways == Spec => []JoinInv
<1>1. Init => JoinInv
  BY DEF Init, JoinInv
<1>2. TypeOK /\ LinkInv /\ ClosedInv /\ RefInv /\ WaitInv /\ JoinInv /\ [Next]_vars => JoinInv'
  BY JoinStep
<1> QED
  BY <1>1, <1>2, TypeCorrect, LinkAlways, ClosedAlways, RefAlways, WaitAlways, PTL DEF Spec

\* join() is never called on a thread that was joined already, although the
\* destructors of children go on to decrement the count below zero.
THEOREM ThreadJoinedOnce == Spec => [](pc = "join" => Joinable)
<1>1. JoinInv => (pc = "join" => Joinable)
  BY DEF JoinInv
<1> QED BY <1>1, JoinAlways, PTL

\* Until it is told to stop, or a build fails, the process does not crash: the
\* reconnect thread and the dispatchers only ever use what is still there.
THEOREM CrashOnlyAtEnd ==
  Spec => [][phase' = "crashed" => phase \in {"stopping", "exiting"}]_vars
<1>1. TypeOK /\ WaitInv /\ [Next]_vars =>
        [phase' = "crashed" => phase \in {"stopping", "exiting"}]_vars
  <2> SUFFICES ASSUME TypeOK, WaitInv, Next, phase' = "crashed", ~UNCHANGED vars
               PROVE  phase \in {"stopping", "exiting"}
    OBVIOUS
  <2>1. \/ \E d \in Device : BusDisconnectedAfterExit(d)
        \/ \E d \in Device : RcTouchFreed(d)
        \/ phase = "crashed"
    BY DEF Next, Ended, mainVars, vars, Build, Destroy, Dispatcher, Reconnect, Sweep,
           BuildConnect, Publish, BuildThrows, AllBuilt, ConstructRoot, HitEnter, DtorLock, DtorJoin,
           DtorUnregister, DtorDrain, DtorTeardown, DtorChild, DtorFreeBus, Finish, DestroyNext,
           LinkLost, BusDisconnected, RcArm, RcTimeout, RcReturn, RcWoken,
           RcBeginSweep, RcEndSweep, RcConnects, RcConnectFails
  <2>2. phase # "crashed"
    BY DEF Next, Ended, Up, Build, Destroy, Dispatcher, Reconnect, Sweep, BuildConnect, Publish,
           BuildThrows, AllBuilt, ConstructRoot, HitEnter, DtorLock, DtorJoin, DtorUnregister,
           DtorDrain, DtorTeardown, DtorChild, DtorFreeBus, Finish, DestroyNext, LinkLost,
           BusDisconnected, BusDisconnectedAfterExit, RcArm, RcTimeout, RcReturn, RcWoken,
           RcBeginSweep, RcEndSweep, RcConnects, RcConnectFails, RcTouchFreed, SweepEntry
  <2>3. CASE \E d \in Device : BusDisconnectedAfterExit(d)
    BY <2>3 DEF BusDisconnectedAfterExit
  <2>4. CASE \E d \in Device : RcTouchFreed(d)
    BY <2>4 DEF RcTouchFreed, SweepEntry, Up, WaitInv
  <2> QED BY <2>1, <2>2, <2>3, <2>4
<1> QED
  BY <1>1, TypeCorrect, WaitAlways, PTL DEF Spec

\* Main, or the thread or callback it waits for, can always go on, unless a
\* destructor that kept the mutex drains a callback that waits for the mutex:
\* with any number of devices and children there is no other deadlock.
THEOREM NoOtherDeadlock == Spec => []OnlyDeadlock
<1>1. TypeOK /\ LinkInv /\ MutexInv /\ WaitInv /\ JoinInv => OnlyDeadlock
  <2> SUFFICES ASSUME TypeOK, LinkInv, MutexInv, WaitInv, JoinInv, Up
               PROVE  MainRuns \/ AwaitedRuns \/ Blocked
    BY DEF OnlyDeadlock
  <2> USE DEF TypeOK, MainType, BusType, FlagType, ListType
  <2>1. rc = "sweep" => ReconnectRuns
    <3>1. \A d \in Device : bus[d] \in {"live", "freed"} \/ d \notin connected
      BY DEF LinkInv, Places, WaitInv
    <3> QED BY <3>1 DEF ReconnectRuns
  <2>2. CASE pc \in {"connect", "publish", "unregister", "teardown", "members"}
    BY <2>2 DEF MainRuns, WaitInv
  <2>3. CASE pc \in {"idle", "lock"}
    <3>1. reconnectMutex # "main"
      BY <2>3 DEF MutexInv
    <3>2. CASE reconnectMutex = "free"
      BY <2>3, <3>2 DEF MainRuns, WaitInv, Up
    <3>3. CASE reconnectMutex = "reconnect"
      BY <2>1, <2>3, <3>3 DEF AwaitedRuns, MutexInv
    <3> QED BY <3>1, <3>2, <3>3
  <2>4. CASE pc = "join"
    <3>1. rc \in {"arm", "wait", "expired", "sweep", "returned"} /\ reconnectShutdown
      BY <2>4 DEF JoinInv, Joinable, WaitInv
    <3>2. rc = "expired" => reconnectMutex = "free"
      BY <2>4 DEF MutexInv
    <3>3. rc # "returned" => ReconnectRuns
      BY <2>1, <3>1, <3>2 DEF ReconnectRuns
    <3> QED BY <2>4, <3>1, <3>3 DEF MainRuns, AwaitedRuns
  <2>5. CASE pc = "drain"
    <3>1. reconnectMutex \in {"free", "main"}
      BY <2>5 DEF MutexInv
    <3> QED BY <2>5, <3>1 DEF MainRuns, AwaitedRuns, Blocked
  <2> QED BY <2>2, <2>3, <2>4, <2>5
<1> QED
  BY <1>1, TypeCorrect, LinkAlways, MutexAlways, WaitAlways, JoinAlways, PTL

-----------------------------------------------------------------------------
(* A bridge with a single device, as the power strip of the mock adapter:   *)
(* its root drops the last reference, whatever children it has.            *)

SingleDevice == \A d, e \in Device : d = e

LEMMA SingleStep ==
  ASSUME SingleDevice, TypeOK, LinkInv, ClosedInv, RefInv, JoinInv, SingleInv, [Next]_vars
  PROVE  SingleInv'
<1> USE DEF SingleDevice, SingleInv, EndsInOrder, RefInv, JoinInv, LinkInv, ClosedInv, TypeOK, MainType,
            BusType, FlagType, ListType, mainVars, busVars, flagVars, rcVars
<1>1. ASSUME NEW d \in Device, ConstructRoot(d) PROVE SingleInv'
  BY <1>1, DeviceAssumption DEF ConstructRoot
<1>2. CASE BuildConnect
  BY <1>2 DEF BuildConnect
<1>3. CASE Publish
  BY <1>3 DEF Publish
<1>4. CASE BuildThrows
  BY <1>4 DEF BuildThrows
<1>5. CASE AllBuilt
  BY <1>5 DEF AllBuilt
<1>6. CASE HitEnter
  BY <1>6 DEF HitEnter
<1>7. ASSUME NEW d \in Device, DestroyNext(d) PROVE SingleInv'
  BY <1>7 DEF DestroyNext
<1>8. CASE DtorLock
  <2>1. CASE rc = "joined"
    BY <1>8, <2>1 DEF DtorLock
  <2>2. CASE rc # "joined"
    <3>1. cur \in Device /\ ~isChild /\ bus[cur] = "live"
      BY <1>8, <2>2, DeviceAssumption DEF DtorLock
    <3>2. Joinable
      BY <2>2, <3>1 DEF Joinable
    <3>3. Live = {cur}
      BY <1>8, <3>1 DEF DtorLock, Live, Dropped
    <3>4. reconnectRefcount = 1
      <4>1. Cardinality(Live) = 1
        BY <3>3, FS_Singleton
      <4>2. reconnectRefcount \in 1 .. Cardinality(Live)
        BY <1>8, <3>2 DEF DtorLock
      <4> QED BY <4>1, <4>2
    <3>5. reconnectRefcount' = 0
      <4>1. 0 \in 0 .. RefModulus - 1
        BY RefRange
      <4>2. reconnectRefcount' = (1 - 1) % RefModulus
        BY <1>8, <3>4 DEF DtorLock
      <4> QED BY <4>1, <4>2, SmallMod
    <3>6. pc' = "join"
      BY <1>8, <3>2, <3>5 DEF DtorLock, LastReference, Joinable
    <3> QED BY <1>8, <3>6 DEF DtorLock, LastReference
  <2> QED BY <2>1, <2>2
<1>9. CASE DtorJoin
  BY <1>9 DEF DtorJoin
<1>10. CASE DtorUnregister
  BY <1>10 DEF DtorUnregister
<1>11. CASE DtorDrain
  BY <1>11 DEF DtorDrain
<1>12. CASE DtorTeardown
  BY <1>12 DEF DtorTeardown
<1>13. CASE DtorChild
  BY <1>13 DEF DtorChild
<1>14. CASE DtorFreeBus
  BY <1>14, DeviceAssumption DEF DtorFreeBus, Joinable
<1>15. CASE Finish
  <2>1. ~Joinable
    <3>1. Live = {}
      BY <1>15, DeviceAssumption DEF Finish, Live
    <3> QED BY <1>15, <3>1, FS_EmptySet DEF Finish
  <2> QED BY <1>15, <2>1 DEF Finish
<1>16. ASSUME NEW d \in Device, LinkLost(d) PROVE SingleInv'
  BY <1>16 DEF LinkLost
<1>17. ASSUME NEW d \in Device, BusDisconnected(d) PROVE SingleInv'
  BY <1>17 DEF BusDisconnected
<1>18. ASSUME NEW d \in Device, BusDisconnectedAfterExit(d) PROVE SingleInv'
  BY <1>18 DEF BusDisconnectedAfterExit
<1>19. CASE RcArm
  BY <1>19 DEF RcArm
<1>20. CASE RcTimeout
  BY <1>20 DEF RcTimeout
<1>21. CASE RcReturn
  BY <1>21 DEF RcReturn, RcWoken
<1>22. CASE RcBeginSweep
  BY <1>22 DEF RcBeginSweep, RcWoken
<1>23. ASSUME NEW d \in Device, RcConnects(d) PROVE SingleInv'
  BY <1>23 DEF RcConnects, SweepEntry
<1>24. ASSUME NEW d \in Device, RcConnectFails(d) PROVE SingleInv'
  BY <1>24 DEF RcConnectFails, SweepEntry
<1>25. ASSUME NEW d \in Device, RcTouchFreed(d) PROVE SingleInv'
  BY <1>25 DEF RcTouchFreed, SweepEntry
<1>26. CASE RcEndSweep
  BY <1>26 DEF RcEndSweep
<1>27. CASE Ended \/ UNCHANGED vars
  BY <1>27 DEF Ended, vars
<1> QED
  BY <1>1, <1>2, <1>3, <1>4, <1>5, <1>6, <1>7, <1>8, <1>9, <1>10, <1>11, <1>12, <1>13,
     <1>14, <1>15, <1>16, <1>17, <1>18, <1>19, <1>20, <1>21, <1>22, <1>23, <1>24,
     <1>25, <1>26, <1>27
  DEF Next, Build, Destroy, Dispatcher, Reconnect, Sweep

LEMMA SingleAlways == ASSUME SingleDevice PROVE Spec => []SingleInv
<1>1. Init => SingleInv
  BY DEF Init, SingleInv, EndsInOrder
<1>2. TypeOK /\ LinkInv /\ ClosedInv /\ RefInv /\ JoinInv /\ SingleInv /\ [Next]_vars
        => SingleInv'
  BY SingleStep
<1> QED
  BY <1>1, <1>2, TypeCorrect, LinkAlways, ClosedAlways, RefAlways, JoinAlways, PTL DEF Spec

\* With one device, of any number of children, the reconnect thread never uses
\* a BusAttachment that was destroyed. (With two it may: the first to go leaves
\* its entry in reconnectList, and the thread lives on for the second.)
THEOREM SingleBusOutlivesThread == ASSUME SingleDevice PROVE Spec => []NoUseAfterFree
<1>1. TypeOK /\ SingleInv => NoUseAfterFree
  BY DEF TypeOK, BusType, SingleInv, NoUseAfterFree
<1> QED BY <1>1, TypeCorrect, SingleAlways, PTL

\* Nor does the process abort then, whether it is stopped or a build fails.
THEOREM SingleEndsInOrder == ASSUME SingleDevice PROVE Spec => []EndsInOrder
<1>1. SingleInv => EndsInOrder
  BY DEF SingleInv
<1> QED BY <1>1, SingleAlways, PTL

\* Nor does it ever block: its root has released the mutex to join the thread,
\* and only children, which have no listener to drain, keep it.
THEOREM SingleNeverBlocks == ASSUME SingleDevice PROVE Spec => []~Blocked
<1>1. SingleInv => ~Blocked
  BY DEF SingleInv, Blocked
<1> QED BY <1>1, SingleAlways, PTL
=============================================================================
