---------------------------- MODULE Bridge_proof -----------------------------
(***************************************************************************)
(* Proofs about Bridge, for every set of devices and of adapters. The      *)
(* inductive invariant has a part for each partner of main: the adapter    *)
(* and the BusObjects (ObjectsInv), AllJoyn (AllJoynInv), the router and   *)
(* the dispatcher it calls (RouterInv), the adapter's answers (FailureInv) *)
(* and the name of the bus (NameInv). What the encoders make of a name is  *)
(* at the end.                                                             *)
(***************************************************************************)
EXTENDS Bridge, FiniteSetTheorems, WellFoundedInduction, TLAPS

\* Every step keeps the types.
LEMMA TypeStep ==
  TypeOK /\ [Next]_vars => TypeOK'
<1> SUFFICES ASSUME TypeOK, [Next]_vars PROVE TypeOK'
  OBVIOUS
<1> USE DEF TypeOK, adapterVars, busVars, alljoynVars,
           Starting, Stopping, Ended, Operation
<1>1. CASE LoadAdapter
  BY <1>1 DEF LoadAdapter, Go
<1>2. CASE NothingToLoad
  BY <1>2 DEF NothingToLoad
<1>3. CASE InitializeAllJoyn
  BY <1>3 DEF InitializeAllJoyn, Go, Throws, Throw
<1>4. CASE LoadConfig
  BY <1>4 DEF LoadConfig, Go, Throws, Throw
<1>5. CASE InitializeAdapter
  BY <1>5 DEF InitializeAdapter, Go, Throws, Throw, Ask
<1>6. CASE AdapterInitialized
  BY <1>6 DEF AdapterInitialized, Go, Throws, Throw
<1>7. CASE AdapterIsSlow
  BY <1>7 DEF AdapterIsSlow, Go
<1>8. CASE NamelessAdapter
  BY <1>8 DEF NamelessAdapter, Throw
<1>9. CASE StartBus
  BY <1>9 DEF StartBus, Go
<1>10. CASE ConnectBus
  BY <1>10 DEF ConnectBus, Go
<1>11. CASE RequestName
  BY <1>11 DEF RequestName, Go, Obtain, Throws, Throw
<1>12. CASE BindSessionPort
  BY <1>12 DEF BindSessionPort, Go, Obtain, Throws, Throw
<1>13. CASE AdvertiseName
  BY <1>13 DEF AdvertiseName, Go, Obtain, Throws, Throw
<1>14. CASE EnumDevices
  BY <1>14 DEF EnumDevices, Go, Throws, Throw, Ask
<1>15. CASE Enumerated
  BY <1>15 DEF Enumerated, Go
<1>16. CASE EnumTimesOut
  BY <1>16 DEF EnumTimesOut, Throw
<1>17. ASSUME NEW d \in Device, CreateDevice(d) PROVE TypeOK'
  <2>1. step = "create"
    BY <1>17 DEF CreateDevice
  <2>2. CASE Throws("create")
    BY <2>2 DEF Throws, Throw
  <2>3. CASE /\ m_bridgeBusObjects' = m_bridgeBusObjects \cup {d}
             /\ UNCHANGED <<step, failed, alljoynVars, busVars, adapterVars, gaveUp>>
    BY <2>1, <2>3
  <2> QED BY <1>17, <2>2, <2>3 DEF CreateDevice
<1>18. CASE Initialized
  BY <1>18 DEF Initialized, Go
<1>19. CASE HitEnter
  BY <1>19 DEF HitEnter, Go
<1>20. ASSUME NEW d \in Device, DestroyObject(d) PROVE TypeOK'
  BY <1>20 DEF DestroyObject
<1>21. CASE ShutdownAdapter
  BY <1>21 DEF ShutdownAdapter, Go
<1>22. CASE AdapterIsDown
  BY <1>22 DEF AdapterIsDown, Go
<1>23. CASE ShutdownManager
  BY <1>23 DEF ShutdownManager, Go
<1>24. CASE CancelAdvertiseName
  BY <1>24 DEF CancelAdvertiseName, Go, GiveBack
<1>25. CASE UnbindSessionPort
  BY <1>25 DEF UnbindSessionPort, Go, GiveBack
<1>26. CASE ReleaseName
  BY <1>26 DEF ReleaseName, Go, GiveBack
<1>27. CASE DisconnectBus
  BY <1>27 DEF DisconnectBus, Go
<1>28. CASE JoinBus
  BY <1>28 DEF JoinBus, Go
<1>29. CASE ShutdownAllJoyn
  BY <1>29 DEF ShutdownAllJoyn, Go
<1>30. CASE SessionJoined
  BY <1>30 DEF SessionJoined, Alive
<1>31. CASE SetSessionListener
  BY <1>31 DEF SetSessionListener, Alive
<1>32. CASE SetLinkTimeout
  BY <1>32 DEF SetLinkTimeout, Alive
<1>33. CASE AdapterStoresDevices
  BY <1>33 DEF AdapterStoresDevices, Alive
<1>34. ASSUME NEW o \in Operation, AdapterCompletes(o) PROVE TypeOK'
  BY <1>34 DEF AdapterCompletes, Alive
<1>35. CASE LinkLost
  <2>1. /\ connected' = FALSE /\ held' = {}
        /\ UNCHANGED <<step, failed, alljoyn, m_alljoynInitialized, m_bus, joining>>
        /\ UNCHANGED <<m_bridgeBusObjects, m_adapter, devices, request, initFailed, gaveUp>>
    BY <1>35 DEF LinkLost
  <2>2. connected' \in BOOLEAN /\ held' \subseteq {"name", "port", "advertisement"}
    BY <2>1
  <2>3. /\ step' \in Starting \cup {"running"} \cup Stopping \cup Ended
        /\ failed' \in BOOLEAN /\ alljoyn' \in BOOLEAN
        /\ m_alljoynInitialized' \in BOOLEAN
    BY <2>1
  <2> QED BY <2>1, <2>2, <2>3
<1>36. CASE UNCHANGED vars
  BY <1>36 DEF vars
<1> QED
  BY <1>1, <1>2, <1>3, <1>4, <1>5, <1>6, <1>7, <1>8, <1>9, <1>10, <1>11,
     <1>12, <1>13, <1>14, <1>15, <1>16, <1>17, <1>18, <1>19, <1>20, <1>21, <1>22,
     <1>23, <1>24, <1>25, <1>26, <1>27, <1>28, <1>29, <1>30, <1>31, <1>32, <1>33,
     <1>34, <1>35, <1>36
  DEF Next, Start, Stop, Callback, Over

\* The state of the bridge stays in range.
THEOREM TypeCorrect == Spec => []TypeOK
<1>1. Init => TypeOK
  BY DEF Init, TypeOK, Starting, Operation
<1> QED BY <1>1, TypeStep, PTL DEF Spec

\* Objects come after the adapter's Initialize and go before its Shutdown.
LEMMA ObjectsStep ==
  TypeOK /\ ObjectsInv /\ [Next]_vars => ObjectsInv'
<1> SUFFICES ASSUME TypeOK, ObjectsInv, [Next]_vars PROVE ObjectsInv'
  OBVIOUS
<1> USE DEF TypeOK, ObjectsInv, AfterInitialize, adapterVars, busVars, alljoynVars,
           Starting, Stopping, Ended, Operation
<1>1. CASE LoadAdapter
  BY <1>1 DEF LoadAdapter, Go
<1>2. CASE NothingToLoad
  BY <1>2 DEF NothingToLoad
<1>3. CASE InitializeAllJoyn
  BY <1>3 DEF InitializeAllJoyn, Go, Throws, Throw
<1>4. CASE LoadConfig
  BY <1>4 DEF LoadConfig, Go, Throws, Throw
<1>5. CASE InitializeAdapter
  BY <1>5 DEF InitializeAdapter, Go, Throws, Throw, Ask
<1>6. CASE AdapterInitialized
  BY <1>6 DEF AdapterInitialized, Go, Throws, Throw
<1>7. CASE AdapterIsSlow
  BY <1>7 DEF AdapterIsSlow, Go
<1>8. CASE NamelessAdapter
  BY <1>8 DEF NamelessAdapter, Throw
<1>9. CASE StartBus
  BY <1>9 DEF StartBus, Go
<1>10. CASE ConnectBus
  BY <1>10 DEF ConnectBus, Go
<1>11. CASE RequestName
  BY <1>11 DEF RequestName, Go, Obtain, Throws, Throw
<1>12. CASE BindSessionPort
  BY <1>12 DEF BindSessionPort, Go, Obtain, Throws, Throw
<1>13. CASE AdvertiseName
  BY <1>13 DEF AdvertiseName, Go, Obtain, Throws, Throw
<1>14. CASE EnumDevices
  BY <1>14 DEF EnumDevices, Go, Throws, Throw, Ask
<1>15. CASE Enumerated
  BY <1>15 DEF Enumerated, Go
<1>16. CASE EnumTimesOut
  BY <1>16 DEF EnumTimesOut, Throw
<1>17. ASSUME NEW d \in Device, CreateDevice(d) PROVE ObjectsInv'
  <2>1. step = "create"
    BY <1>17 DEF CreateDevice
  <2>2. CASE Throws("create")
    BY <2>2 DEF Throws, Throw
  <2>3. CASE /\ m_bridgeBusObjects' = m_bridgeBusObjects \cup {d}
             /\ UNCHANGED <<step, failed, alljoynVars, busVars, adapterVars, gaveUp>>
    BY <2>1, <2>3
  <2> QED BY <1>17, <2>2, <2>3 DEF CreateDevice
<1>18. CASE Initialized
  BY <1>18 DEF Initialized, Go
<1>19. CASE HitEnter
  BY <1>19 DEF HitEnter, Go
<1>20. ASSUME NEW d \in Device, DestroyObject(d) PROVE ObjectsInv'
  BY <1>20 DEF DestroyObject
<1>21. CASE ShutdownAdapter
  BY <1>21 DEF ShutdownAdapter, Go
<1>22. CASE AdapterIsDown
  BY <1>22 DEF AdapterIsDown, Go
<1>23. CASE ShutdownManager
  BY <1>23 DEF ShutdownManager, Go
<1>24. CASE CancelAdvertiseName
  BY <1>24 DEF CancelAdvertiseName, Go, GiveBack
<1>25. CASE UnbindSessionPort
  BY <1>25 DEF UnbindSessionPort, Go, GiveBack
<1>26. CASE ReleaseName
  BY <1>26 DEF ReleaseName, Go, GiveBack
<1>27. CASE DisconnectBus
  BY <1>27 DEF DisconnectBus, Go
<1>28. CASE JoinBus
  BY <1>28 DEF JoinBus, Go
<1>29. CASE ShutdownAllJoyn
  BY <1>29 DEF ShutdownAllJoyn, Go
<1>30. CASE SessionJoined
  BY <1>30 DEF SessionJoined, Alive
<1>31. CASE SetSessionListener
  BY <1>31 DEF SetSessionListener, Alive
<1>32. CASE SetLinkTimeout
  BY <1>32 DEF SetLinkTimeout, Alive
<1>33. CASE AdapterStoresDevices
  BY <1>33 DEF AdapterStoresDevices, Alive
<1>34. ASSUME NEW o \in Operation, AdapterCompletes(o) PROVE ObjectsInv'
  BY <1>34 DEF AdapterCompletes, Alive
<1>35. CASE LinkLost
  BY <1>35 DEF LinkLost, Alive
<1>36. CASE UNCHANGED vars
  BY <1>36 DEF vars
<1> QED
  BY <1>1, <1>2, <1>3, <1>4, <1>5, <1>6, <1>7, <1>8, <1>9, <1>10, <1>11,
     <1>12, <1>13, <1>14, <1>15, <1>16, <1>17, <1>18, <1>19, <1>20, <1>21, <1>22,
     <1>23, <1>24, <1>25, <1>26, <1>27, <1>28, <1>29, <1>30, <1>31, <1>32, <1>33,
     <1>34, <1>35, <1>36
  DEF Next, Start, Stop, Callback, Over

\* main knows whether AllJoyn is initialised.
LEMMA AllJoynStep ==
  TypeOK /\ AllJoynInv /\ [Next]_vars => AllJoynInv'
<1> SUFFICES ASSUME TypeOK, AllJoynInv, [Next]_vars PROVE AllJoynInv'
  OBVIOUS
<1> USE DEF TypeOK, AllJoynInv, adapterVars, busVars, alljoynVars,
           Starting, Stopping, Ended, Operation
<1>1. CASE LoadAdapter
  BY <1>1 DEF LoadAdapter, Go
<1>2. CASE NothingToLoad
  BY <1>2 DEF NothingToLoad
<1>3. CASE InitializeAllJoyn
  BY <1>3 DEF InitializeAllJoyn, Go, Throws, Throw
<1>4. CASE LoadConfig
  BY <1>4 DEF LoadConfig, Go, Throws, Throw
<1>5. CASE InitializeAdapter
  BY <1>5 DEF InitializeAdapter, Go, Throws, Throw, Ask
<1>6. CASE AdapterInitialized
  BY <1>6 DEF AdapterInitialized, Go, Throws, Throw
<1>7. CASE AdapterIsSlow
  BY <1>7 DEF AdapterIsSlow, Go
<1>8. CASE NamelessAdapter
  BY <1>8 DEF NamelessAdapter, Throw
<1>9. CASE StartBus
  BY <1>9 DEF StartBus, Go
<1>10. CASE ConnectBus
  BY <1>10 DEF ConnectBus, Go
<1>11. CASE RequestName
  BY <1>11 DEF RequestName, Go, Obtain, Throws, Throw
<1>12. CASE BindSessionPort
  BY <1>12 DEF BindSessionPort, Go, Obtain, Throws, Throw
<1>13. CASE AdvertiseName
  BY <1>13 DEF AdvertiseName, Go, Obtain, Throws, Throw
<1>14. CASE EnumDevices
  BY <1>14 DEF EnumDevices, Go, Throws, Throw, Ask
<1>15. CASE Enumerated
  BY <1>15 DEF Enumerated, Go
<1>16. CASE EnumTimesOut
  BY <1>16 DEF EnumTimesOut, Throw
<1>17. ASSUME NEW d \in Device, CreateDevice(d) PROVE AllJoynInv'
  <2>1. step = "create"
    BY <1>17 DEF CreateDevice
  <2>2. CASE Throws("create")
    BY <2>2 DEF Throws, Throw
  <2>3. CASE /\ m_bridgeBusObjects' = m_bridgeBusObjects \cup {d}
             /\ UNCHANGED <<step, failed, alljoynVars, busVars, adapterVars, gaveUp>>
    BY <2>1, <2>3
  <2> QED BY <1>17, <2>2, <2>3 DEF CreateDevice
<1>18. CASE Initialized
  BY <1>18 DEF Initialized, Go
<1>19. CASE HitEnter
  BY <1>19 DEF HitEnter, Go
<1>20. ASSUME NEW d \in Device, DestroyObject(d) PROVE AllJoynInv'
  BY <1>20 DEF DestroyObject
<1>21. CASE ShutdownAdapter
  BY <1>21 DEF ShutdownAdapter, Go
<1>22. CASE AdapterIsDown
  BY <1>22 DEF AdapterIsDown, Go
<1>23. CASE ShutdownManager
  BY <1>23 DEF ShutdownManager, Go
<1>24. CASE CancelAdvertiseName
  BY <1>24 DEF CancelAdvertiseName, Go, GiveBack
<1>25. CASE UnbindSessionPort
  BY <1>25 DEF UnbindSessionPort, Go, GiveBack
<1>26. CASE ReleaseName
  BY <1>26 DEF ReleaseName, Go, GiveBack
<1>27. CASE DisconnectBus
  BY <1>27 DEF DisconnectBus, Go
<1>28. CASE JoinBus
  BY <1>28 DEF JoinBus, Go
<1>29. CASE ShutdownAllJoyn
  BY <1>29 DEF ShutdownAllJoyn, Go
<1>30. CASE SessionJoined
  BY <1>30 DEF SessionJoined, Alive
<1>31. CASE SetSessionListener
  BY <1>31 DEF SetSessionListener, Alive
<1>32. CASE SetLinkTimeout
  BY <1>32 DEF SetLinkTimeout, Alive
<1>33. CASE AdapterStoresDevices
  BY <1>33 DEF AdapterStoresDevices, Alive
<1>34. ASSUME NEW o \in Operation, AdapterCompletes(o) PROVE AllJoynInv'
  BY <1>34 DEF AdapterCompletes, Alive
<1>35. CASE LinkLost
  BY <1>35 DEF LinkLost, Alive
<1>36. CASE UNCHANGED vars
  BY <1>36 DEF vars
<1> QED
  BY <1>1, <1>2, <1>3, <1>4, <1>5, <1>6, <1>7, <1>8, <1>9, <1>10, <1>11,
     <1>12, <1>13, <1>14, <1>15, <1>16, <1>17, <1>18, <1>19, <1>20, <1>21, <1>22,
     <1>23, <1>24, <1>25, <1>26, <1>27, <1>28, <1>29, <1>30, <1>31, <1>32, <1>33,
     <1>34, <1>35, <1>36
  DEF Next, Start, Stop, Callback, Over

\* The router's holdings and the callback follow the steps of the ConfigManager.
LEMMA RouterStep ==
  TypeOK /\ RouterInv /\ [Next]_vars => RouterInv'
<1> SUFFICES ASSUME TypeOK, RouterInv, [Next]_vars PROVE RouterInv'
  OBVIOUS
<1> USE DEF TypeOK, RouterInv, adapterVars, busVars, alljoynVars,
           Starting, Stopping, Ended, Operation
<1>1. CASE LoadAdapter
  BY <1>1 DEF LoadAdapter, Go
<1>2. CASE NothingToLoad
  BY <1>2 DEF NothingToLoad
<1>3. CASE InitializeAllJoyn
  BY <1>3 DEF InitializeAllJoyn, Go, Throws, Throw
<1>4. CASE LoadConfig
  BY <1>4 DEF LoadConfig, Go, Throws, Throw
<1>5. CASE InitializeAdapter
  BY <1>5 DEF InitializeAdapter, Go, Throws, Throw, Ask
<1>6. CASE AdapterInitialized
  BY <1>6 DEF AdapterInitialized, Go, Throws, Throw
<1>7. CASE AdapterIsSlow
  BY <1>7 DEF AdapterIsSlow, Go
<1>8. CASE NamelessAdapter
  BY <1>8 DEF NamelessAdapter, Throw
<1>9. CASE StartBus
  BY <1>9 DEF StartBus, Go
<1>10. CASE ConnectBus
  BY <1>10 DEF ConnectBus, Go
<1>11. CASE RequestName
  BY <1>11 DEF RequestName, Go, Obtain, Throws, Throw
<1>12. CASE BindSessionPort
  BY <1>12 DEF BindSessionPort, Go, Obtain, Throws, Throw
<1>13. CASE AdvertiseName
  BY <1>13 DEF AdvertiseName, Go, Obtain, Throws, Throw
<1>14. CASE EnumDevices
  BY <1>14 DEF EnumDevices, Go, Throws, Throw, Ask
<1>15. CASE Enumerated
  BY <1>15 DEF Enumerated, Go
<1>16. CASE EnumTimesOut
  BY <1>16 DEF EnumTimesOut, Throw
<1>17. ASSUME NEW d \in Device, CreateDevice(d) PROVE RouterInv'
  <2>1. step = "create"
    BY <1>17 DEF CreateDevice
  <2>2. CASE Throws("create")
    BY <2>2 DEF Throws, Throw
  <2>3. CASE /\ m_bridgeBusObjects' = m_bridgeBusObjects \cup {d}
             /\ UNCHANGED <<step, failed, alljoynVars, busVars, adapterVars, gaveUp>>
    BY <2>1, <2>3
  <2> QED BY <1>17, <2>2, <2>3 DEF CreateDevice
<1>18. CASE Initialized
  BY <1>18 DEF Initialized, Go
<1>19. CASE HitEnter
  BY <1>19 DEF HitEnter, Go
<1>20. ASSUME NEW d \in Device, DestroyObject(d) PROVE RouterInv'
  BY <1>20 DEF DestroyObject
<1>21. CASE ShutdownAdapter
  BY <1>21 DEF ShutdownAdapter, Go
<1>22. CASE AdapterIsDown
  BY <1>22 DEF AdapterIsDown, Go
<1>23. CASE ShutdownManager
  BY <1>23 DEF ShutdownManager, Go
<1>24. CASE CancelAdvertiseName
  BY <1>24 DEF CancelAdvertiseName, Go, GiveBack
<1>25. CASE UnbindSessionPort
  BY <1>25 DEF UnbindSessionPort, Go, GiveBack
<1>26. CASE ReleaseName
  BY <1>26 DEF ReleaseName, Go, GiveBack
<1>27. CASE DisconnectBus
  BY <1>27 DEF DisconnectBus, Go
<1>28. CASE JoinBus
  BY <1>28 DEF JoinBus, Go
<1>29. CASE ShutdownAllJoyn
  BY <1>29 DEF ShutdownAllJoyn, Go
<1>30. CASE SessionJoined
  BY <1>30 DEF SessionJoined, Alive
<1>31. CASE SetSessionListener
  BY <1>31 DEF SetSessionListener, Alive
<1>32. CASE SetLinkTimeout
  BY <1>32 DEF SetLinkTimeout, Alive
<1>33. CASE AdapterStoresDevices
  BY <1>33 DEF AdapterStoresDevices, Alive
<1>34. ASSUME NEW o \in Operation, AdapterCompletes(o) PROVE RouterInv'
  BY <1>34 DEF AdapterCompletes, Alive
<1>35. CASE LinkLost
  BY <1>35 DEF LinkLost, Alive
<1>36. CASE UNCHANGED vars
  BY <1>36 DEF vars
<1> QED
  BY <1>1, <1>2, <1>3, <1>4, <1>5, <1>6, <1>7, <1>8, <1>9, <1>10, <1>11,
     <1>12, <1>13, <1>14, <1>15, <1>16, <1>17, <1>18, <1>19, <1>20, <1>21, <1>22,
     <1>23, <1>24, <1>25, <1>26, <1>27, <1>28, <1>29, <1>30, <1>31, <1>32, <1>33,
     <1>34, <1>35, <1>36
  DEF Next, Start, Stop, Callback, Over

\* A failure of Initialize is either seen or late, a late EnumDevices too late.
LEMMA FailureStep ==
  TypeOK /\ FailureInv /\ [Next]_vars => FailureInv'
<1> SUFFICES ASSUME TypeOK, FailureInv, [Next]_vars PROVE FailureInv'
  OBVIOUS
<1> USE DEF TypeOK, FailureInv, AfterInitialize, adapterVars, busVars, alljoynVars,
           Starting, Stopping, Ended, Operation
<1>1. CASE LoadAdapter
  BY <1>1 DEF LoadAdapter, Go
<1>2. CASE NothingToLoad
  BY <1>2 DEF NothingToLoad
<1>3. CASE InitializeAllJoyn
  BY <1>3 DEF InitializeAllJoyn, Go, Throws, Throw
<1>4. CASE LoadConfig
  BY <1>4 DEF LoadConfig, Go, Throws, Throw
<1>5. CASE InitializeAdapter
  BY <1>5 DEF InitializeAdapter, Go, Throws, Throw, Ask
<1>6. CASE AdapterInitialized
  BY <1>6 DEF AdapterInitialized, Go, Throws, Throw
<1>7. CASE AdapterIsSlow
  BY <1>7 DEF AdapterIsSlow, Go
<1>8. CASE NamelessAdapter
  BY <1>8 DEF NamelessAdapter, Throw
<1>9. CASE StartBus
  BY <1>9 DEF StartBus, Go
<1>10. CASE ConnectBus
  BY <1>10 DEF ConnectBus, Go
<1>11. CASE RequestName
  BY <1>11 DEF RequestName, Go, Obtain, Throws, Throw
<1>12. CASE BindSessionPort
  BY <1>12 DEF BindSessionPort, Go, Obtain, Throws, Throw
<1>13. CASE AdvertiseName
  BY <1>13 DEF AdvertiseName, Go, Obtain, Throws, Throw
<1>14. CASE EnumDevices
  BY <1>14 DEF EnumDevices, Go, Throws, Throw, Ask
<1>15. CASE Enumerated
  BY <1>15 DEF Enumerated, Go
<1>16. CASE EnumTimesOut
  BY <1>16 DEF EnumTimesOut, Throw
<1>17. ASSUME NEW d \in Device, CreateDevice(d) PROVE FailureInv'
  <2>1. step = "create"
    BY <1>17 DEF CreateDevice
  <2>2. CASE Throws("create")
    BY <2>2 DEF Throws, Throw
  <2>3. CASE /\ m_bridgeBusObjects' = m_bridgeBusObjects \cup {d}
             /\ UNCHANGED <<step, failed, alljoynVars, busVars, adapterVars, gaveUp>>
    BY <2>1, <2>3
  <2> QED BY <1>17, <2>2, <2>3 DEF CreateDevice
<1>18. CASE Initialized
  BY <1>18 DEF Initialized, Go
<1>19. CASE HitEnter
  BY <1>19 DEF HitEnter, Go
<1>20. ASSUME NEW d \in Device, DestroyObject(d) PROVE FailureInv'
  BY <1>20 DEF DestroyObject
<1>21. CASE ShutdownAdapter
  BY <1>21 DEF ShutdownAdapter, Go
<1>22. CASE AdapterIsDown
  BY <1>22 DEF AdapterIsDown, Go
<1>23. CASE ShutdownManager
  BY <1>23 DEF ShutdownManager, Go
<1>24. CASE CancelAdvertiseName
  BY <1>24 DEF CancelAdvertiseName, Go, GiveBack
<1>25. CASE UnbindSessionPort
  BY <1>25 DEF UnbindSessionPort, Go, GiveBack
<1>26. CASE ReleaseName
  BY <1>26 DEF ReleaseName, Go, GiveBack
<1>27. CASE DisconnectBus
  BY <1>27 DEF DisconnectBus, Go
<1>28. CASE JoinBus
  BY <1>28 DEF JoinBus, Go
<1>29. CASE ShutdownAllJoyn
  BY <1>29 DEF ShutdownAllJoyn, Go
<1>30. CASE SessionJoined
  BY <1>30 DEF SessionJoined, Alive
<1>31. CASE SetSessionListener
  BY <1>31 DEF SetSessionListener, Alive
<1>32. CASE SetLinkTimeout
  BY <1>32 DEF SetLinkTimeout, Alive
<1>33. CASE AdapterStoresDevices
  BY <1>33 DEF AdapterStoresDevices, Alive
<1>34. ASSUME NEW o \in Operation, AdapterCompletes(o) PROVE FailureInv'
  BY <1>34 DEF AdapterCompletes, Alive
<1>35. CASE LinkLost
  BY <1>35 DEF LinkLost, Alive
<1>36. CASE UNCHANGED vars
  BY <1>36 DEF vars
<1> QED
  BY <1>1, <1>2, <1>3, <1>4, <1>5, <1>6, <1>7, <1>8, <1>9, <1>10, <1>11,
     <1>12, <1>13, <1>14, <1>15, <1>16, <1>17, <1>18, <1>19, <1>20, <1>21, <1>22,
     <1>23, <1>24, <1>25, <1>26, <1>27, <1>28, <1>29, <1>30, <1>31, <1>32, <1>33,
     <1>34, <1>35, <1>36
  DEF Next, Start, Stop, Callback, Over

\* A bus is made while AllJoyn is up, and AllJoyn goes down after the last bus.
LEMMA InsideStep ==
  TypeOK /\ ObjectsInv /\ AllJoynInv /\ BusesInsideAllJoyn /\ [Next]_vars => BusesInsideAllJoyn'
<1> SUFFICES ASSUME TypeOK, ObjectsInv, AllJoynInv, BusesInsideAllJoyn, [Next]_vars PROVE BusesInsideAllJoyn'
  OBVIOUS
<1> USE DEF TypeOK, ObjectsInv, AllJoynInv, BusesInsideAllJoyn, adapterVars, busVars, alljoynVars,
           Starting, Stopping, Ended, Operation
<1>1. CASE LoadAdapter
  BY <1>1 DEF LoadAdapter, Go
<1>2. CASE NothingToLoad
  BY <1>2 DEF NothingToLoad
<1>3. CASE InitializeAllJoyn
  BY <1>3 DEF InitializeAllJoyn, Go, Throws, Throw
<1>4. CASE LoadConfig
  BY <1>4 DEF LoadConfig, Go, Throws, Throw
<1>5. CASE InitializeAdapter
  BY <1>5 DEF InitializeAdapter, Go, Throws, Throw, Ask
<1>6. CASE AdapterInitialized
  BY <1>6 DEF AdapterInitialized, Go, Throws, Throw
<1>7. CASE AdapterIsSlow
  BY <1>7 DEF AdapterIsSlow, Go
<1>8. CASE NamelessAdapter
  BY <1>8 DEF NamelessAdapter, Throw
<1>9. CASE StartBus
  BY <1>9 DEF StartBus, Go
<1>10. CASE ConnectBus
  BY <1>10 DEF ConnectBus, Go
<1>11. CASE RequestName
  BY <1>11 DEF RequestName, Go, Obtain, Throws, Throw
<1>12. CASE BindSessionPort
  BY <1>12 DEF BindSessionPort, Go, Obtain, Throws, Throw
<1>13. CASE AdvertiseName
  BY <1>13 DEF AdvertiseName, Go, Obtain, Throws, Throw
<1>14. CASE EnumDevices
  BY <1>14 DEF EnumDevices, Go, Throws, Throw, Ask
<1>15. CASE Enumerated
  BY <1>15 DEF Enumerated, Go
<1>16. CASE EnumTimesOut
  BY <1>16 DEF EnumTimesOut, Throw
<1>17. ASSUME NEW d \in Device, CreateDevice(d) PROVE BusesInsideAllJoyn'
  <2>1. step = "create"
    BY <1>17 DEF CreateDevice
  <2>2. CASE Throws("create")
    BY <2>2 DEF Throws, Throw
  <2>3. CASE /\ m_bridgeBusObjects' = m_bridgeBusObjects \cup {d}
             /\ UNCHANGED <<step, failed, alljoynVars, busVars, adapterVars, gaveUp>>
    BY <2>1, <2>3
  <2> QED BY <1>17, <2>2, <2>3 DEF CreateDevice
<1>18. CASE Initialized
  BY <1>18 DEF Initialized, Go
<1>19. CASE HitEnter
  BY <1>19 DEF HitEnter, Go
<1>20. ASSUME NEW d \in Device, DestroyObject(d) PROVE BusesInsideAllJoyn'
  BY <1>20 DEF DestroyObject
<1>21. CASE ShutdownAdapter
  BY <1>21 DEF ShutdownAdapter, Go
<1>22. CASE AdapterIsDown
  BY <1>22 DEF AdapterIsDown, Go
<1>23. CASE ShutdownManager
  BY <1>23 DEF ShutdownManager, Go
<1>24. CASE CancelAdvertiseName
  BY <1>24 DEF CancelAdvertiseName, Go, GiveBack
<1>25. CASE UnbindSessionPort
  BY <1>25 DEF UnbindSessionPort, Go, GiveBack
<1>26. CASE ReleaseName
  BY <1>26 DEF ReleaseName, Go, GiveBack
<1>27. CASE DisconnectBus
  BY <1>27 DEF DisconnectBus, Go
<1>28. CASE JoinBus
  BY <1>28 DEF JoinBus, Go
<1>29. CASE ShutdownAllJoyn
  BY <1>29 DEF ShutdownAllJoyn, Go
<1>30. CASE SessionJoined
  BY <1>30 DEF SessionJoined, Alive
<1>31. CASE SetSessionListener
  BY <1>31 DEF SetSessionListener, Alive
<1>32. CASE SetLinkTimeout
  BY <1>32 DEF SetLinkTimeout, Alive
<1>33. CASE AdapterStoresDevices
  BY <1>33 DEF AdapterStoresDevices, Alive
<1>34. ASSUME NEW o \in Operation, AdapterCompletes(o) PROVE BusesInsideAllJoyn'
  BY <1>34 DEF AdapterCompletes, Alive
<1>35. CASE LinkLost
  BY <1>35 DEF LinkLost, Alive
<1>36. CASE UNCHANGED vars
  BY <1>36 DEF vars
<1> QED
  BY <1>1, <1>2, <1>3, <1>4, <1>5, <1>6, <1>7, <1>8, <1>9, <1>10, <1>11,
     <1>12, <1>13, <1>14, <1>15, <1>16, <1>17, <1>18, <1>19, <1>20, <1>21, <1>22,
     <1>23, <1>24, <1>25, <1>26, <1>27, <1>28, <1>29, <1>30, <1>31, <1>32, <1>33,
     <1>34, <1>35, <1>36
  DEF Next, Start, Stop, Callback, Over

\* Advertising is the last thing obtained and the first given back.
LEMMA JoinableStep ==
  TypeOK /\ RouterInv /\ AdvertisedIsJoinable /\ [Next]_vars => AdvertisedIsJoinable'
<1> SUFFICES ASSUME TypeOK, RouterInv, AdvertisedIsJoinable, [Next]_vars PROVE AdvertisedIsJoinable'
  OBVIOUS
<1> USE DEF TypeOK, RouterInv, AdvertisedIsJoinable, adapterVars, busVars, alljoynVars,
           Starting, Stopping, Ended, Operation
<1>1. CASE LoadAdapter
  BY <1>1 DEF LoadAdapter, Go
<1>2. CASE NothingToLoad
  BY <1>2 DEF NothingToLoad
<1>3. CASE InitializeAllJoyn
  BY <1>3 DEF InitializeAllJoyn, Go, Throws, Throw
<1>4. CASE LoadConfig
  BY <1>4 DEF LoadConfig, Go, Throws, Throw
<1>5. CASE InitializeAdapter
  BY <1>5 DEF InitializeAdapter, Go, Throws, Throw, Ask
<1>6. CASE AdapterInitialized
  BY <1>6 DEF AdapterInitialized, Go, Throws, Throw
<1>7. CASE AdapterIsSlow
  BY <1>7 DEF AdapterIsSlow, Go
<1>8. CASE NamelessAdapter
  BY <1>8 DEF NamelessAdapter, Throw
<1>9. CASE StartBus
  BY <1>9 DEF StartBus, Go
<1>10. CASE ConnectBus
  BY <1>10 DEF ConnectBus, Go
<1>11. CASE RequestName
  BY <1>11 DEF RequestName, Go, Obtain, Throws, Throw
<1>12. CASE BindSessionPort
  BY <1>12 DEF BindSessionPort, Go, Obtain, Throws, Throw
<1>13. CASE AdvertiseName
  BY <1>13 DEF AdvertiseName, Go, Obtain, Throws, Throw
<1>14. CASE EnumDevices
  BY <1>14 DEF EnumDevices, Go, Throws, Throw, Ask
<1>15. CASE Enumerated
  BY <1>15 DEF Enumerated, Go
<1>16. CASE EnumTimesOut
  BY <1>16 DEF EnumTimesOut, Throw
<1>17. ASSUME NEW d \in Device, CreateDevice(d) PROVE AdvertisedIsJoinable'
  <2>1. step = "create"
    BY <1>17 DEF CreateDevice
  <2>2. CASE Throws("create")
    BY <2>2 DEF Throws, Throw
  <2>3. CASE /\ m_bridgeBusObjects' = m_bridgeBusObjects \cup {d}
             /\ UNCHANGED <<step, failed, alljoynVars, busVars, adapterVars, gaveUp>>
    BY <2>1, <2>3
  <2> QED BY <1>17, <2>2, <2>3 DEF CreateDevice
<1>18. CASE Initialized
  BY <1>18 DEF Initialized, Go
<1>19. CASE HitEnter
  BY <1>19 DEF HitEnter, Go
<1>20. ASSUME NEW d \in Device, DestroyObject(d) PROVE AdvertisedIsJoinable'
  BY <1>20 DEF DestroyObject
<1>21. CASE ShutdownAdapter
  BY <1>21 DEF ShutdownAdapter, Go
<1>22. CASE AdapterIsDown
  BY <1>22 DEF AdapterIsDown, Go
<1>23. CASE ShutdownManager
  BY <1>23 DEF ShutdownManager, Go
<1>24. CASE CancelAdvertiseName
  BY <1>24 DEF CancelAdvertiseName, Go, GiveBack
<1>25. CASE UnbindSessionPort
  BY <1>25 DEF UnbindSessionPort, Go, GiveBack
<1>26. CASE ReleaseName
  BY <1>26 DEF ReleaseName, Go, GiveBack
<1>27. CASE DisconnectBus
  BY <1>27 DEF DisconnectBus, Go
<1>28. CASE JoinBus
  BY <1>28 DEF JoinBus, Go
<1>29. CASE ShutdownAllJoyn
  BY <1>29 DEF ShutdownAllJoyn, Go
<1>30. CASE SessionJoined
  BY <1>30 DEF SessionJoined, Alive
<1>31. CASE SetSessionListener
  BY <1>31 DEF SetSessionListener, Alive
<1>32. CASE SetLinkTimeout
  BY <1>32 DEF SetLinkTimeout, Alive
<1>33. CASE AdapterStoresDevices
  BY <1>33 DEF AdapterStoresDevices, Alive
<1>34. ASSUME NEW o \in Operation, AdapterCompletes(o) PROVE AdvertisedIsJoinable'
  BY <1>34 DEF AdapterCompletes, Alive
<1>35. CASE LinkLost
  BY <1>35 DEF LinkLost, Alive
<1>36. CASE UNCHANGED vars
  BY <1>36 DEF vars
<1> QED
  BY <1>1, <1>2, <1>3, <1>4, <1>5, <1>6, <1>7, <1>8, <1>9, <1>10, <1>11,
     <1>12, <1>13, <1>14, <1>15, <1>16, <1>17, <1>18, <1>19, <1>20, <1>21, <1>22,
     <1>23, <1>24, <1>25, <1>26, <1>27, <1>28, <1>29, <1>30, <1>31, <1>32, <1>33,
     <1>34, <1>35, <1>36
  DEF Next, Start, Stop, Callback, Over

\* A bus keeps its name, and the adapter the name is built from.
LEMMA NameStep ==
  ObjectsInv /\ AllJoynInv /\ NameInv /\ [Next]_vars => NameInv'
<1> SUFFICES ASSUME ObjectsInv, AllJoynInv, NameInv, [Next]_vars PROVE NameInv'
  OBVIOUS
<1> DEFINE Kept == m_adapter' = m_adapter /\ m_serviceName' = m_serviceName /\ (m_bus' => m_bus)
<1> USE DEF adapterVars, busVars, Go, Throws, Throw
<1>1. Kept => NameInv'
  BY DEF NameInv
<1>2. CASE LoadAdapter
  <2>1. ~m_bus /\ m_bus' = m_bus
    BY <1>2 DEF LoadAdapter, AllJoynInv
  <2> QED BY <2>1 DEF NameInv
<1>3. CASE NamelessAdapter
  <2>1. m_bus' = m_bus /\ ~CanBuildServiceName(m_adapter)
    BY <1>3 DEF NamelessAdapter
  <2> QED BY <2>1 DEF NameInv
<1>4. CASE StartBus
  <2>1. /\ CanBuildServiceName(m_adapter) /\ m_adapter' = m_adapter
        /\ m_serviceName' = BuildServiceName(m_adapter)
    BY <1>4 DEF StartBus
  <2>2. m_adapter # nullptr
    BY <1>4 DEF StartBus, ObjectsInv, AfterInitialize
  <2> QED BY <2>1, <2>2 DEF NameInv
<1>5. CASE NothingToLoad \/ InitializeAllJoyn \/ LoadConfig \/ InitializeAdapter
             \/ AdapterInitialized \/ AdapterIsSlow
  BY <1>1, <1>5 DEF NothingToLoad, InitializeAllJoyn, LoadConfig, InitializeAdapter,
     AdapterInitialized, AdapterIsSlow
<1>6. CASE ConnectBus \/ RequestName \/ BindSessionPort \/ AdvertiseName
  BY <1>1, <1>6 DEF ConnectBus, RequestName, BindSessionPort, AdvertiseName, Obtain
<1>7. CASE EnumDevices \/ Enumerated \/ EnumTimesOut \/ Initialized \/ HitEnter
  BY <1>1, <1>7 DEF EnumDevices, Enumerated, EnumTimesOut, Initialized, HitEnter
<1>8. ASSUME NEW d \in Device, CreateDevice(d) \/ DestroyObject(d) PROVE NameInv'
  BY <1>1, <1>8 DEF CreateDevice, DestroyObject
<1>9. CASE ShutdownAdapter \/ AdapterIsDown \/ ShutdownManager \/ CancelAdvertiseName
             \/ UnbindSessionPort \/ ReleaseName \/ DisconnectBus \/ JoinBus
             \/ ShutdownAllJoyn
  BY <1>1, <1>9 DEF ShutdownAdapter, AdapterIsDown, ShutdownManager,
     CancelAdvertiseName, UnbindSessionPort, ReleaseName, DisconnectBus, JoinBus,
     ShutdownAllJoyn, GiveBack
<1>10. CASE SessionJoined \/ SetSessionListener \/ SetLinkTimeout
              \/ AdapterStoresDevices \/ LinkLost
  BY <1>1, <1>10 DEF SessionJoined, SetSessionListener, SetLinkTimeout,
     AdapterStoresDevices, LinkLost
<1>11. ASSUME NEW o \in Operation, AdapterCompletes(o) PROVE NameInv'
  BY <1>1, <1>11 DEF AdapterCompletes
<1>12. CASE UNCHANGED vars
  BY <1>1, <1>12 DEF vars
<1> QED
  BY <1>2, <1>3, <1>4, <1>5, <1>6, <1>7, <1>8, <1>9, <1>10, <1>11, <1>12
  DEF Next, Start, Stop, Callback, Over

IInv == TypeOK /\ ObjectsInv /\ AllJoynInv /\ RouterInv /\ FailureInv
          /\ BusesInsideAllJoyn /\ AdvertisedIsJoinable /\ NameInv

LEMMA IInvCorrect == Spec => []IInv
<1>1. Init => IInv
  BY DEF Init, IInv, TypeOK, ObjectsInv, AllJoynInv, RouterInv, FailureInv,
     BusesInsideAllJoyn, AdvertisedIsJoinable, NameInv, AfterInitialize, Starting,
     Stopping, Operation
<1>2. IInv /\ [Next]_vars => IInv'
  BY TypeStep, ObjectsStep, AllJoynStep, RouterStep, FailureStep, InsideStep,
     JoinableStep, NameStep DEF IInv
<1> QED BY <1>1, <1>2, PTL DEF Spec

\* A bridge that can be discovered has its name and its session port.
THEOREM AdvertisedJoinable == Spec => []AdvertisedIsJoinable
<1>1. IInv => AdvertisedIsJoinable
  BY DEF IInv
<1> QED BY <1>1, IInvCorrect, PTL

\* BusObjects live between the adapter's Initialize and its Shutdown, no
\* BusAttachment exists outside AllJoynInit and AllJoynShutdown, and
\* SessionJoined has its BusAttachment, however far Initialize came.
THEOREM LifetimesNested == Spec => []Nested
<1>1. IInv => Nested
  BY DEF IInv, ObjectsInv, RouterInv, ObjectsNeedAdapter, CallbackHasBus, Nested
<1> QED BY <1>1, IInvCorrect, PTL

\* A running bridge missed only a failure that came after its two seconds, and
\* a late EnumDevices crashes only a bridge that has failed.
THEOREM LateAnswersHarmless == Spec => []LateAnswers
<1>1. IInv => LateAnswers
  BY DEF IInv, FailureInv, LateAnswers, AfterInitialize
<1> QED BY <1>1, IInvCorrect, PTL

\* An orderly exit leaves nothing behind in the router, the adapter or AllJoyn.
THEOREM CleanExit == Spec => []ExitsClean
<1>1. IInv => ExitsClean
  BY DEF IInv, TypeOK, ObjectsInv, AllJoynInv, RouterInv, ExitsClean, Starting, Stopping
<1> QED BY <1>1, IInvCorrect, PTL

-----------------------------------------------------------------------------
(* The names. The encoders are loops over strings, so that what they give  *)
(* is proved by induction, over sets of numbers.                           *)

\* What the bodies of the encoders' loops are, and the texts one goes through.
Bodies == [Seq(Encoded) \X Char -> Seq(Encoded)]
Loop(t, put, s) ==
  t[0] = <<>> /\ \A i \in 1 .. Len(s) : t[i] = put[<<t[i - 1], s[i]>>]

\* A set of numbers that is not empty has a least one: of the intervals that
\* lead to its members one is the smallest.
LEMMA LeastNumber ==
  ASSUME NEW S \in SUBSET Nat, S # {}
  PROVE  \E x \in S : \A y \in S : x <= y
<1> DEFINE T == {0 .. y : y \in S}
<1>1. T \subseteq FiniteSubsetsOf(Nat)
  <2> SUFFICES ASSUME NEW y \in S PROVE 0 .. y \in FiniteSubsetsOf(Nat)
    OBVIOUS
  <2>1. IsFiniteSet(0 .. y)
    BY FS_Interval
  <2>2. 0 .. y \in SUBSET Nat
    OBVIOUS
  <2> QED BY <2>1, <2>2 DEF FiniteSubsetsOf
<1>2. IsWellFoundedOn(StrictSubsetOrdering(Nat), FiniteSubsetsOf(Nat))
  BY FS_StrictSubsetOrderingWellFounded
<1>3. T # {}
  OBVIOUS
<1>4. PICK I \in T : \A J \in T : ~(<<J, I>> \in StrictSubsetOrdering(Nat))
  BY <1>1, <1>2, <1>3, WFMin
<1>5. PICK x \in S : I = 0 .. x
  BY <1>4
<1>6. SUFFICES ASSUME NEW y \in S, y < x PROVE FALSE
  OBVIOUS
<1>7. 0 .. y \in T
  OBVIOUS
<1>8. 0 .. y \subseteq 0 .. x /\ 0 .. y # 0 .. x /\ 0 .. x \subseteq Nat
  <2>1. x \in 0 .. x /\ x \notin 0 .. y
    BY <1>6
  <2>2. 0 .. y \subseteq 0 .. x /\ 0 .. x \subseteq Nat
    BY <1>6
  <2> QED BY <2>1, <2>2
<1>9. <<0 .. y, 0 .. x>> \in StrictSubsetOrdering(Nat)
  BY <1>8 DEF StrictSubsetOrdering
<1> QED BY <1>4, <1>5, <1>7, <1>9

\* Induction, for a set of numbers.
LEMMA SetInduction ==
  ASSUME NEW K \in SUBSET Nat, 0 \in K, \A n \in K : n + 1 \in K
  PROVE  K = Nat
<1> SUFFICES ASSUME Nat \ K # {} PROVE FALSE
  OBVIOUS
<1>1. PICK x \in Nat \ K : \A y \in Nat \ K : x <= y
  BY LeastNumber
<1>2. x # 0 /\ x - 1 \in Nat
  BY <1>1
<1>3. x - 1 \in K
  BY <1>1, <1>2
<1> QED BY <1>1, <1>2, <1>3

\* A set of places in a sequence has a first and a last one.
LEMMA FirstAndLast ==
  ASSUME NEW n \in Nat, NEW S \in SUBSET (1 .. n), S # {}
  PROVE  /\ Min(S) \in S /\ \A y \in S : Min(S) <= y
         /\ Max(S) \in S /\ \A y \in S : y <= Max(S)
<1>1. PICK x \in S : \A y \in S : x <= y
  BY LeastNumber
<1> DEFINE T == {n - y : y \in S}
<1>2. T \in SUBSET Nat /\ T # {}
  OBVIOUS
<1>3. PICK z \in T : \A y \in T : z <= y
  BY <1>2, LeastNumber
<1>4. PICK w \in S : z = n - w
  BY <1>3
<1>5. \A y \in S : y <= w
  BY <1>3, <1>4
<1>6. Min(S) \in S /\ \A y \in S : Min(S) <= y
  BY <1>1 DEF Min
<1>7. Max(S) \in S /\ \A y \in S : y <= Max(S)
  BY <1>5 DEF Max
<1> QED BY <1>6, <1>7

\* The loop of an encoder has a text after every character.
LEMMA LoopExists ==
  ASSUME NEW put \in Bodies, NEW s \in Seq(Char)
  PROVE  \E t \in [0 .. Len(s) -> Seq(Encoded)] : Loop(t, put, s)
<1> DEFINE Is(t, n) == t[0] = <<>> /\ \A i \in 1 .. n : t[i] = put[<<t[i - 1], s[i]>>]
           K == {n \in Nat : n <= Len(s) => \E t \in [0 .. n -> Seq(Encoded)] : Is(t, n)}
<1>1. 0 \in K
  <2>1. <<>> \in Seq(Encoded)
    OBVIOUS
  <2>2. [i \in 0 .. 0 |-> <<>>] \in [0 .. 0 -> Seq(Encoded)] /\ Is([i \in 0 .. 0 |-> <<>>], 0)
    BY <2>1
  <2> QED BY <2>2
<1>2. ASSUME NEW n \in K, n + 1 <= Len(s) PROVE n + 1 \in K
  <2>1. PICK t \in [0 .. n -> Seq(Encoded)] : Is(t, n)
    BY <1>2
  <2>2. put[<<t[n], s[n + 1]>>] \in Seq(Encoded)
    <3>1. s[n + 1] \in Char /\ t[n] \in Seq(Encoded)
      BY <1>2
    <3> QED BY <3>1 DEF Bodies
  <2> DEFINE u == [i \in 0 .. n + 1 |-> IF i <= n THEN t[i] ELSE put[<<t[n], s[n + 1]>>]]
  <2>3. u \in [0 .. n + 1 -> Seq(Encoded)]
    BY <2>2
  <2>4. Is(u, n + 1)
    <3>1. u[0] = <<>>
      BY <2>1
    <3>2. ASSUME NEW i \in 1 .. n + 1 PROVE u[i] = put[<<u[i - 1], s[i]>>]
      <4>1. i - 1 \in 0 .. n /\ i \in 0 .. n + 1
        BY <3>2
      <4>2. u[i - 1] = t[i - 1]
        BY <4>1
      <4>3. CASE i <= n
        <5>1. u[i] = t[i] /\ i \in 1 .. n
          BY <4>1, <4>3
        <5>2. t[i] = put[<<t[i - 1], s[i]>>]
          BY <2>1, <5>1
        <5> QED BY <4>2, <5>1, <5>2
      <4>4. CASE i = n + 1
        <5>1. u[n + 1] = put[<<t[n], s[n + 1]>>] /\ i - 1 = n
          BY <4>4
        <5>2. u[n] = t[n]
          OBVIOUS
        <5> QED BY <4>4, <5>1, <5>2
      <4> QED BY <4>3, <4>4
    <3> QED BY <3>1, <3>2
  <2> HIDE DEF Is, u
  <2>5. \E v \in [0 .. n + 1 -> Seq(Encoded)] : Is(v, n + 1)
    BY <2>3, <2>4
  <2> QED BY <2>5
<1>3. \A n \in K : n + 1 \in K
  <2> SUFFICES ASSUME NEW n \in K PROVE n + 1 \in K
    OBVIOUS
  <2>1. CASE n + 1 <= Len(s)
    BY <1>2, <2>1
  <2>2. CASE ~(n + 1 <= Len(s))
    BY <2>2
  <2> QED BY <2>1, <2>2
<1>4. K = Nat
  BY <1>1, <1>3, SetInduction
<1>5. Len(s) \in K
  <2> HIDE DEF K
  <2> QED BY <1>4
<1>6. PICK t \in [0 .. Len(s) -> Seq(Encoded)] : Is(t, Len(s))
  BY <1>5
<1> QED BY <1>6 DEF Loop

\* ForEach gives the last of these texts.
LEMMA LoopResult ==
  ASSUME NEW put \in Bodies, NEW s \in Seq(Char)
  PROVE  \E t \in [0 .. Len(s) -> Seq(Encoded)] : Loop(t, put, s) /\ ForEach(s, put) = t[Len(s)]
<1> DEFINE Def(g) == g = [i \in 0 .. Len(s) |-> IF i = 0 THEN <<>> ELSE put[<<g[i - 1], s[i]>>]]
           t == CHOOSE g : Def(g)
<1>1. \E g : Def(g)
  <2>1. PICK u \in [0 .. Len(s) -> Seq(Encoded)] : Loop(u, put, s)
    BY LoopExists
  <2>2. ASSUME NEW i \in 0 .. Len(s)
        PROVE  u[i] = IF i = 0 THEN <<>> ELSE put[<<u[i - 1], s[i]>>]
    BY <2>1 DEF Loop
  <2> QED BY <2>2
<1>2. Def(t)
  BY <1>1
<1>3. Loop(t, put, s)
  <2> HIDE DEF t
  <2>1. t[0] = <<>>
    BY <1>2
  <2>2. ASSUME NEW i \in 1 .. Len(s) PROVE t[i] = put[<<t[i - 1], s[i]>>]
    <3>1. i \in 0 .. Len(s) /\ i # 0
      OBVIOUS
    <3> QED BY <1>2, <3>1
  <2> HIDE DEF Def
  <2> QED BY <2>1, <2>2 DEF Loop
<1>4. ForEach(s, put) = t[Len(s)]
  BY DEF ForEach
<1>5. t \in [0 .. Len(s) -> Seq(Encoded)]
  <2> HIDE DEF t
  <2> DEFINE K == {n \in Nat : n <= Len(s) => t[n] \in Seq(Encoded)}
  <2>1. 0 \in K
    <3>1. <<>> \in Seq(Encoded)
      OBVIOUS
    <3> QED BY <1>3, <3>1 DEF Loop
  <2>2. ASSUME NEW n \in K PROVE n + 1 \in K
    <3> SUFFICES ASSUME n + 1 <= Len(s) PROVE t[n + 1] \in Seq(Encoded)
      OBVIOUS
    <3>1. t[n] \in Seq(Encoded) /\ s[n + 1] \in Char
      OBVIOUS
    <3>2. t[n + 1] = put[<<t[n], s[n + 1]>>]
      BY <1>3 DEF Loop
    <3> QED BY <3>1, <3>2 DEF Bodies
  <2>3. K = Nat
    <3>1. K \in SUBSET Nat
      OBVIOUS
    <3> HIDE DEF K
    <3> QED BY <2>1, <2>2, <3>1, SetInduction
  <2>4. \A i \in 0 .. Len(s) : t[i] \in Seq(Encoded)
    BY <2>3
  <2> QED BY <1>2, <2>4
<1> QED BY <1>3, <1>4, <1>5

\* A text that begins with no digit, has none behind a dot and no two dots in
\* a row. Every digit in it has something else in front of it.
Neat(t) ==
  /\ \A k \in DOMAIN t : t[k] = Digit => k > 1 /\ t[k - 1] # Dot
  /\ \A k \in DOMAIN t : k > 1 /\ t[k] = Dot => t[k - 1] # Dot

\* What the text t tells of the n characters of s it is made from.
Tells(t, s, n) ==
  /\ (\E j \in 1 .. n : s[j] \in {Letter, Dot}) => t # <<>>
  /\ t # <<>> /\ t[Len(t)] = Dot =>
       \E j \in 1 .. n : s[j] = Dot /\ \A k \in j + 1 .. n : s[k] \notin {Letter, Digit}

\* The bodies of the loops make texts of texts.
LEMMA PutTypes ==
  ASSUME NEW t \in Seq(Encoded), NEW ch \in Char
  PROVE  PutRoot(t, ch) \in Seq(Encoded) /\ PutName(t, ch) \in Seq(Encoded)
<1>1. {Letter, Dot, Digit} \subseteq Encoded /\ <<Underscore, Digit>> \in Seq(Encoded)
  BY DEF Encoded
<1>2. /\ Append(t, Letter) \in Seq(Encoded) /\ Append(t, Dot) \in Seq(Encoded)
      /\ Append(t, Digit) \in Seq(Encoded) /\ t \o <<Underscore, Digit>> \in Seq(Encoded)
  BY <1>1
<1> QED BY <1>1, <1>2 DEF PutRoot, PutName, Letter, Digit, Dot, Other

\* One character keeps the text neat if the prefix is sound.
LEMMA PutNeat ==
  ASSUME NEW s \in Seq(Char), SoundPrefix(s), NEW n \in Nat, n + 1 <= Len(s),
         NEW t \in Seq(Encoded), Neat(t), Tells(t, s, n)
  PROVE  Neat(PutRoot(t, s[n + 1])) /\ Tells(PutRoot(t, s[n + 1]), s, n + 1)
<1> DEFINE ch == s[n + 1]
<1>0. n + 1 \in DOMAIN s /\ ch \in Char
  OBVIOUS
<1>1. CASE ch = Letter
  <2>1. PutRoot(t, ch) = Append(t, Letter)
    BY <1>1 DEF PutRoot, Letter, Digit, Dot, Other
  <2>2. Neat(Append(t, Letter))
    BY DEF Neat, Letter, Digit, Dot
  <2>3. Tells(Append(t, Letter), s, n + 1)
    <3> DEFINE u == Append(t, Letter)
    <3>1. u # <<>> /\ u[Len(u)] = Letter
      OBVIOUS
    <3>2. u[Len(u)] # Dot
      BY <3>1 DEF Letter, Dot
    <3> QED BY <3>1, <3>2 DEF Tells
  <2> QED BY <2>1, <2>2, <2>3
<1>2. CASE ch = Dot
  <2>1. PutRoot(t, ch) = Append(t, Dot)
    BY <1>2 DEF PutRoot, Letter, Digit, Dot, Other
  <2>2. t # <<>> => t[Len(t)] # Dot
    <3> SUFFICES ASSUME t # <<>>, t[Len(t)] = Dot PROVE FALSE
      OBVIOUS
    <3>1. PICK j \in 1 .. n : s[j] = Dot /\ \A k \in j + 1 .. n : s[k] \notin {Letter, Digit}
      BY DEF Tells
    <3>2. PICK k \in j .. n + 1 : s[k] \in {Letter, Digit}
      BY <1>0, <1>2, <3>1 DEF SoundPrefix
    <3> QED BY <1>2, <3>1, <3>2 DEF Letter, Digit, Dot
  <2>3. Neat(Append(t, Dot))
    <3>1. CASE t = <<>>
      BY <3>1 DEF Neat, Digit, Dot
    <3>2. CASE t # <<>>
      BY <2>2, <3>2 DEF Neat, Digit, Dot
    <3> QED BY <3>1, <3>2
  <2>4. Tells(Append(t, Dot), s, n + 1)
    BY <1>2 DEF Tells
  <2> QED BY <2>1, <2>3, <2>4
<1>3. CASE ch = Digit
  <2>1. t # <<>>
    <3>1. PICK j \in 1 .. n : s[j] \in {Letter, Dot}
      BY <1>0, <1>3 DEF SoundPrefix
    <3> QED BY <3>1 DEF Tells
  <2>2. CASE t[Len(t)] = Dot
    <3>1. PutRoot(t, ch) = t \o <<Underscore, Digit>>
      BY <1>3, <2>1, <2>2 DEF PutRoot, Letter, Digit, Dot, Other
    <3>2. Neat(t \o <<Underscore, Digit>>)
      <4> DEFINE u == t \o <<Underscore, Digit>>
      <4>1. /\ Len(u) = Len(t) + 2 /\ u[Len(t) + 1] = Underscore /\ u[Len(t) + 2] = Digit
            /\ \A k \in 1 .. Len(t) : u[k] = t[k]
        OBVIOUS
      <4>2. DOMAIN u = 1 .. Len(t) \cup {Len(t) + 1, Len(t) + 2} /\ DOMAIN t = 1 .. Len(t)
        BY <4>1
      <4>3. Underscore # Dot /\ Underscore # Digit /\ Digit # Dot
        BY DEF Underscore, Digit, Dot
      <4> HIDE DEF u
      <4>4. ASSUME NEW k \in DOMAIN u, u[k] = Digit PROVE k > 1 /\ u[k - 1] # Dot
        BY <4>1, <4>2, <4>3, <4>4 DEF Neat
      <4>5. ASSUME NEW k \in DOMAIN u, k > 1, u[k] = Dot PROVE u[k - 1] # Dot
        BY <4>1, <4>2, <4>3, <4>5 DEF Neat
      <4> QED BY <4>4, <4>5 DEF Neat, u
    <3>3. Tells(t \o <<Underscore, Digit>>, s, n + 1)
      BY DEF Tells, Underscore, Digit, Dot
    <3> QED BY <3>1, <3>2, <3>3
  <2>3. CASE t[Len(t)] # Dot
    <3>1. PutRoot(t, ch) = Append(t, Digit)
      BY <1>3, <2>1, <2>3 DEF PutRoot, Letter, Digit, Dot, Other
    <3>2. Neat(Append(t, Digit))
      BY <2>1, <2>3 DEF Neat, Digit, Dot
    <3>3. Tells(Append(t, Digit), s, n + 1)
      BY DEF Tells, Digit, Dot
    <3> QED BY <3>1, <3>2, <3>3
  <2> QED BY <2>2, <2>3
<1>4. CASE ch = Other
  <2>1. PutRoot(t, ch) = t
    BY <1>4 DEF PutRoot, Letter, Digit, Dot, Other
  <2>2. Tells(t, s, n + 1)
    BY <1>4 DEF Tells, Letter, Digit, Dot, Other
  <2> QED BY <2>1, <2>2
<1> QED BY <1>0, <1>1, <1>2, <1>3, <1>4 DEF Char

\* The text of a sound prefix is neat before its dots are trimmed.
LEMMA RootNeat ==
  ASSUME NEW s \in Seq(Char), SoundPrefix(s)
  PROVE  \E t \in Seq(Encoded) : Neat(t) /\ EncodeStringForRootServiceName(s) = TrimChar(t, Dot)
<1> DEFINE put == [p \in Seq(Encoded) \X Char |-> PutRoot(p[1], p[2])]
<1>1. put \in Bodies
  BY PutTypes DEF Bodies
<1>2. PICK t \in [0 .. Len(s) -> Seq(Encoded)] : Loop(t, put, s) /\ ForEach(s, put) = t[Len(s)]
  <2> HIDE DEF put
  <2> QED BY <1>1, LoopResult
<1> DEFINE K == {n \in Nat : n <= Len(s) => Neat(t[n]) /\ Tells(t[n], s, n)}
<1>3. 0 \in K
  <2>1. t[0] = <<>>
    BY <1>2 DEF Loop
  <2>2. Neat(<<>>) /\ Tells(<<>>, s, 0)
    BY DEF Neat, Tells
  <2> QED BY <2>1, <2>2
<1>4. ASSUME NEW n \in K PROVE n + 1 \in K
  <2> SUFFICES ASSUME n + 1 <= Len(s) PROVE Neat(t[n + 1]) /\ Tells(t[n + 1], s, n + 1)
    OBVIOUS
  <2>1. t[n] \in Seq(Encoded) /\ s[n + 1] \in Char /\ n + 1 \in 1 .. Len(s)
    OBVIOUS
  <2>2. t[n + 1] = put[<<t[n], s[n + 1]>>]
    <3>1. (n + 1) - 1 = n
      OBVIOUS
    <3> HIDE DEF put
    <3>2. t[n + 1] = put[<<t[(n + 1) - 1], s[n + 1]>>]
      BY <1>2, <2>1 DEF Loop
    <3> QED BY <3>1, <3>2
  <2>3. t[n + 1] = PutRoot(t[n], s[n + 1])
    BY <2>1, <2>2
  <2> QED BY <2>1, <2>3, PutNeat
<1>5. K = Nat
  <2>1. K \in SUBSET Nat
    OBVIOUS
  <2> HIDE DEF K
  <2> QED BY <1>3, <1>4, <2>1, SetInduction
<1>6. Neat(t[Len(s)]) /\ t[Len(s)] \in Seq(Encoded)
  BY <1>5
<1>7. EncodeStringForRootServiceName(s) = TrimChar(t[Len(s)], Dot)
  BY <1>2 DEF EncodeStringForRootServiceName
<1> QED BY <1>6, <1>7

\* What is left of a name are letters.
LEMMA NameIsLetters ==
  ASSUME NEW s \in Seq(Char)
  PROVE  EncodeStringForServiceName(s) \in Seq({Letter})
<1> DEFINE put == [p \in Seq(Encoded) \X Char |-> PutName(p[1], p[2])]
<1>1. put \in Bodies
  BY PutTypes DEF Bodies
<1>2. PICK t \in [0 .. Len(s) -> Seq(Encoded)] : Loop(t, put, s) /\ ForEach(s, put) = t[Len(s)]
  <2> HIDE DEF put
  <2> QED BY <1>1, LoopResult
<1> DEFINE K == {n \in Nat : n <= Len(s) => t[n] \in Seq({Letter})}
<1>3. 0 \in K
  <2>1. t[0] = <<>> /\ <<>> \in Seq({Letter})
    BY <1>2 DEF Loop
  <2> QED BY <2>1
<1>4. ASSUME NEW n \in K PROVE n + 1 \in K
  <2> SUFFICES ASSUME n + 1 <= Len(s) PROVE t[n + 1] \in Seq({Letter})
    OBVIOUS
  <2>1. t[n] \in Seq(Encoded) /\ s[n + 1] \in Char /\ n + 1 \in 1 .. Len(s)
    OBVIOUS
  <2>2. t[n + 1] = put[<<t[n], s[n + 1]>>]
    <3>1. (n + 1) - 1 = n
      OBVIOUS
    <3> HIDE DEF put
    <3>2. t[n + 1] = put[<<t[(n + 1) - 1], s[n + 1]>>]
      BY <1>2, <2>1 DEF Loop
    <3> QED BY <3>1, <3>2
  <2>3. t[n + 1] = PutName(t[n], s[n + 1])
    BY <2>1, <2>2
  <2>4. t[n] \in Seq({Letter})
    OBVIOUS
  <2> QED BY <2>3, <2>4 DEF PutName
<1>5. K = Nat
  <2>1. K \in SUBSET Nat
    OBVIOUS
  <2> HIDE DEF K
  <2> QED BY <1>3, <1>4, <2>1, SetInduction
<1>6. t[Len(s)] \in Seq({Letter})
  BY <1>5
<1> QED BY <1>2, <1>6 DEF EncodeStringForServiceName

\* Once its dots are trimmed a neat text is elements between dots, none of
\* them empty or with a digit in front.
LEMMA TrimmedNeat ==
  ASSUME NEW t \in Seq(Encoded), Neat(t), TrimChar(t, Dot) # <<>>
  PROVE  LET r == TrimChar(t, Dot) IN
         /\ r \in Seq(Encoded) /\ Len(r) > 0
         /\ r[1] \notin {Dot, Digit} /\ r[Len(r)] # Dot
         /\ \A k \in 2 .. Len(r) : r[k - 1] = Dot => r[k] \notin {Dot, Digit}
<1> DEFINE rest == {i \in DOMAIN t : t[i] # Dot}
           r == TrimChar(t, Dot)
           lo == Min(rest)
           hi == Max(rest)
<1>1. rest # {} /\ r = SubSeq(t, lo, hi)
  BY DEF TrimChar
<1>2. /\ lo \in rest /\ \A y \in rest : lo <= y
      /\ hi \in rest /\ \A y \in rest : y <= hi
  <2>1. rest \in SUBSET (1 .. Len(t)) /\ Len(t) \in Nat
    OBVIOUS
  <2> HIDE DEF rest
  <2> QED BY <1>1, <2>1, FirstAndLast
<1> HIDE DEF lo, hi, r
<1>3. lo \in 1 .. Len(t) /\ hi \in lo .. Len(t) /\ t[lo] # Dot /\ t[hi] # Dot
  BY <1>2
<1>4. /\ r \in Seq(Encoded) /\ Len(r) = hi - lo + 1
      /\ \A k \in 1 .. Len(r) : r[k] = t[lo + k - 1]
  BY <1>1, <1>3
<1>5. r[1] = t[lo] /\ r[Len(r)] = t[hi] /\ Len(r) > 0
  BY <1>3, <1>4
<1>6. t[lo] # Digit
  <2> SUFFICES ASSUME t[lo] = Digit PROVE FALSE
    OBVIOUS
  <2>1. lo > 1 /\ t[lo - 1] # Dot
    BY <1>3 DEF Neat
  <2>2. lo - 1 \in rest
    BY <1>3, <2>1
  <2> QED BY <1>2, <1>3, <2>2
<1>7. ASSUME NEW k \in 2 .. Len(r), r[k - 1] = Dot PROVE r[k] \notin {Dot, Digit}
  <2>1. r[k] = t[lo + k - 1] /\ r[k - 1] = t[lo + k - 2]
    BY <1>3, <1>4
  <2>2. lo + k - 1 \in DOMAIN t /\ lo + k - 1 > 1
    BY <1>3, <1>4
  <2>3. (lo + k - 1) - 1 = lo + k - 2
    BY <1>3
  <2>4. t[(lo + k - 1) - 1] = Dot
    BY <1>7, <2>1, <2>3
  <2>5. t[lo + k - 1] # Digit /\ t[lo + k - 1] # Dot
    BY <2>2, <2>4 DEF Neat
  <2> QED BY <2>1, <2>5
<1> QED BY <1>3, <1>4, <1>5, <1>6, <1>7 DEF r

\* The router accepts the name built from a sound prefix.
LEMMA BuiltNameIsLegal ==
  ASSUME NEW adapter \in [prefix : Seq(Char), name : Seq(Char)],
         SoundPrefix(adapter.prefix), CanBuildServiceName(adapter)
  PROVE  LegalBusName(BuildServiceName(adapter))
<1> DEFINE r == EncodeStringForRootServiceName(adapter.prefix)
           m == EncodeStringForServiceName(adapter.name)
           b == r \o <<Dot, Letter, Dot>> \o m
<1>1. r # <<>> /\ m # <<>> /\ BuildServiceName(adapter) = b
  BY DEF CanBuildServiceName, BuildServiceName
<1>2. /\ r \in Seq(Encoded) /\ Len(r) > 0
      /\ r[1] \notin {Dot, Digit} /\ r[Len(r)] # Dot
      /\ \A k \in 2 .. Len(r) : r[k - 1] = Dot => r[k] \notin {Dot, Digit}
  <2>1. PICK t \in Seq(Encoded) : Neat(t) /\ r = TrimChar(t, Dot)
    BY RootNeat
  <2> HIDE DEF r
  <2> QED BY <1>1, <2>1, TrimmedNeat
<1>3. m \in Seq({Letter}) /\ Len(m) > 0
  <2>1. m \in Seq({Letter})
    BY NameIsLetters
  <2> HIDE DEF m
  <2> QED BY <1>1, <2>1
<1> HIDE DEF r, m
<1>4. /\ Len(b) = Len(r) + 3 + Len(m)
      /\ \A k \in 1 .. Len(r) : b[k] = r[k]
      /\ b[Len(r) + 1] = Dot /\ b[Len(r) + 2] = Letter /\ b[Len(r) + 3] = Dot
      /\ \A k \in Len(r) + 4 .. Len(b) : b[k] = Letter
      /\ DOMAIN b = 1 .. Len(b)
  BY <1>2, <1>3
<1> HIDE DEF b
<1>5. /\ Dot # Letter /\ Digit # Letter /\ Dot # Digit /\ Dot # Other /\ Letter # Other
      /\ Other \notin Encoded
  BY DEF Dot, Letter, Digit, Other, Encoded, Underscore
<1>6. Dot \in {b[i] : i \in DOMAIN b}
  BY <1>2, <1>3, <1>4
<1>7. ASSUME NEW i \in DOMAIN b \cup {Len(b) + 1}, i = 1 \/ b[i - 1] = Dot
      PROVE  i \in DOMAIN b /\ b[i] \notin {Dot, Digit}
  <2>1. CASE i = 1
    <3>1. 1 \in 1 .. Len(r) /\ 1 \in 1 .. Len(b)
      BY <1>2, <1>3, <1>4
    <3>2. b[1] = r[1]
      BY <1>4, <3>1
    <3> QED BY <1>2, <1>4, <2>1, <3>1, <3>2
  <2>2. CASE i \in 2 .. Len(r)
    <3>1. i - 1 \in 1 .. Len(r) /\ i \in 1 .. Len(r) /\ i # 1
      BY <2>2
    <3>2. r[i - 1] = Dot
      BY <1>4, <1>7, <3>1
    <3>3. b[i] = r[i] /\ i \in DOMAIN b
      BY <1>2, <1>3, <1>4, <3>1
    <3> QED BY <1>2, <2>2, <3>2, <3>3
  <2>3. CASE i = Len(r) + 1
    <3>1. i - 1 = Len(r) /\ i # 1 /\ Len(r) \in 1 .. Len(r)
      BY <1>2, <2>3
    <3>2. b[i - 1] = Dot /\ b[i - 1] = r[Len(r)]
      BY <1>4, <1>7, <3>1
    <3> QED BY <1>2, <3>2
  <2>4. CASE i \in Len(r) + 2 .. Len(r) + 4
    BY <1>2, <1>3, <1>4, <1>5, <1>7, <2>4
  <2>5. CASE i \in Len(r) + 5 .. Len(b) + 1
    BY <1>2, <1>3, <1>4, <1>5, <1>7, <2>5
  <2> QED BY <1>2, <1>3, <1>4, <2>1, <2>2, <2>4, <2>5, <2>3
<1>8. ASSUME NEW i \in DOMAIN b PROVE b[i] # Other
  <2>1. CASE i \in 1 .. Len(r)
    BY <1>2, <1>4, <1>5, <2>1
  <2>2. CASE i \in Len(r) + 1 .. Len(b)
    BY <1>2, <1>3, <1>4, <1>5, <2>2
  <2> QED BY <1>2, <1>3, <1>4, <2>1, <2>2
<1> QED BY <1>1, <1>6, <1>7, <1>8 DEF LegalBusName

\* The bridge goes by a name that the router accepts, whatever the adapter, if
\* its prefix is sound.
THEOREM SoundNamesLegal == Spec => []SoundNamesAreLegal
<1>1. TypeOK /\ NameInv => SoundNamesAreLegal
  <2> SUFFICES ASSUME TypeOK, NameInv, m_bus, SoundPrefix(m_adapter.prefix)
               PROVE  LegalBusName(m_serviceName)
    BY DEF SoundNamesAreLegal
  <2>1. m_adapter \in [prefix : Seq(Char), name : Seq(Char)]
    BY AdapterAssumption DEF TypeOK, NameInv
  <2>2. CanBuildServiceName(m_adapter) /\ m_serviceName = BuildServiceName(m_adapter)
    BY DEF NameInv
  <2> QED BY <2>1, <2>2, BuiltNameIsLegal
<1>2. IInv => TypeOK /\ NameInv
  BY DEF IInv
<1> QED BY <1>1, <1>2, IInvCorrect, PTL
=============================================================================
