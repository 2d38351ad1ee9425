------------------------------ MODULE BusObject ------------------------------
(***************************************************************************)
(* The life of the bridge's root BusObjects and of the thread that         *)
(* reconnects their BusAttachments (src/bridge/BridgeBusObject.cpp).       *)
(*                                                                         *)
(* Three kinds of threads share reconnectList, reconnectRefcount and the   *)
(* two flags under reconnectMutex:                                         *)
(*   - main, which builds one BusObject per device, waits for enter, and   *)
(*     destroys them (Bridge.cpp, main.cpp);                               *)
(*   - the reconnect thread (reconnectFunction);                           *)
(*   - AllJoyn's dispatcher of each bus, which runs BusDisconnected.       *)
(*                                                                         *)
(* AllJoyn is external: a link can be lost at any time, Connect can fail   *)
(* at any time, a registered listener is called once per lost link, and    *)
(* UnregisterBusListener returns once no callback of it is running (the    *)
(* destructor frees the listener right after the call).                    *)
(*                                                                         *)
(* A definition whose name has an underscore is a slip the code could      *)
(* have; no action uses it. The properties tell it from the next one.      *)
(***************************************************************************)
EXTENDS Integers, FiniteSets

CONSTANTS
  Device,      \* the adapter's devices: each gets a BusObject with its own bus
  NoDevice,    \* main is not inside any BusObject
  Children,    \* Children[d]: how many child devices d has
  RefModulus   \* 2^64 in the code: reconnectRefcount is a uint64_t

ASSUME DeviceAssumption ==
  /\ IsFiniteSet(Device)
  /\ NoDevice \notin Device
ASSUME ChildrenAssumption == Children \in [Device -> Nat]

\* The BusObjects there can ever be: for each device a root and its children.
\* Each drops one reference when it is destroyed.
Object == UNION {{d} \X (1 .. Children[d] + 1) : d \in Device}

\* There are fewer of them than addresses.
ASSUME RefAssumption == RefModulus \in Nat /\ RefModulus > Cardinality(Object)

VARIABLES
  phase,       \* how far the process is
  pc,          \* main's place in the constructor or destructor it runs
  cur,         \* the BusObject main is building or destroying
  kids,        \* children of cur main still has to destroy
  isChild,     \* the destructor main runs is a child's
  devices,     \* m_bridgeBusObjects
  bus,         \* the BusAttachment of each device
  listening,   \* its BusListener is registered
  connected,   \* it has a connection to the router
  callback,    \* its dispatcher is inside BusDisconnected, before the lock
  reconnectMutex, reconnectRefcount, reconnectShutdown, reconnectErrorState,
  reconnectList,  \* how often each bus is in the vector
  todo,        \* entries the running sweep has not come to
  rc,          \* the reconnect thread
  cooling      \* history: buses whose Connect failed since the last deadline

mainVars == <<phase, pc, cur, kids, isChild, devices>>
busVars  == <<bus, listening, connected, callback>>
flagVars == <<reconnectRefcount, reconnectShutdown, reconnectErrorState>>
rcVars   == <<todo, rc, cooling>>
vars == <<mainVars, busVars, reconnectMutex, flagVars, reconnectList, rcVars>>

Up == phase \in {"building", "running", "unwinding", "stopping", "exiting"}

\* std::thread::joinable(): started and not joined yet.
Joinable == rc \notin {"none", "joined"}

MainType ==
  /\ phase \in {"building", "running", "unwinding", "stopping", "exiting",
                "exited", "terminated", "crashed"}
  /\ pc \in {"idle", "connect", "publish",
             "lock", "join", "unregister", "drain", "teardown", "members"}
  /\ cur \in Device \cup {NoDevice}
  /\ cur = NoDevice <=> pc = "idle"
  /\ kids \in Nat /\ isChild \in BOOLEAN
  /\ devices \subseteq Device

BusType ==
  /\ bus \in [Device -> {"absent", "live", "stopped", "freed"}]
  /\ listening \subseteq Device
  /\ connected \subseteq Device
  /\ callback \subseteq Device

FlagType ==
  /\ reconnectMutex \in {"free", "main", "reconnect"}
  /\ reconnectRefcount \in 0 .. RefModulus - 1
  /\ reconnectShutdown \in BOOLEAN
  /\ reconnectErrorState \in BOOLEAN

ListType ==
  /\ reconnectList \in [Device -> Nat]
  /\ todo \in [Device -> Nat]
  /\ \A d \in Device : todo[d] <= reconnectList[d]
  /\ rc \in {"none", "arm", "wait", "expired", "sweep", "returned", "joined"}
  /\ cooling \subseteq Device

TypeOK == MainType /\ BusType /\ FlagType /\ ListType

Init ==
  /\ phase = "building" /\ pc = "idle" /\ cur = NoDevice
  /\ kids = 0 /\ isChild = FALSE /\ devices = {}
  /\ bus = [d \in Device |-> "absent"]
  /\ listening = {} /\ connected = {} /\ callback = {}
  /\ reconnectMutex = "free" /\ reconnectRefcount = 0
  /\ reconnectShutdown = FALSE /\ reconnectErrorState = FALSE
  /\ reconnectList = [d \in Device |-> 0]
  /\ todo = [d \in Device |-> 0]
  /\ rc = "none" /\ cooling = {}

-----------------------------------------------------------------------------
(* Main builds the BusObjects, one device after the other.                 *)

\* new BusObject(appname, path), then the bus listener is registered.
ConstructRoot(d) ==
  /\ phase = "building" /\ pc = "idle" /\ bus[d] = "absent"
  /\ reconnectMutex = "free"
  /\ reconnectRefcount' = (reconnectRefcount + 1) % RefModulus
  /\ IF rc = "none"
     THEN rc' = "arm" /\ reconnectShutdown' = FALSE
     ELSE UNCHANGED <<rc, reconnectShutdown>>
  /\ bus' = [bus EXCEPT ![d] = "live"]
  /\ listening' = listening \cup {d}
  /\ cur' = d /\ pc' = "connect"
  /\ UNCHANGED <<phase, kids, isChild, devices, connected, callback,
                 reconnectMutex, reconnectErrorState, reconnectList,
                 todo, cooling>>

\* Start and Connect succeed; the children share the root's bus.
BuildConnect ==
  /\ phase = "building" /\ pc = "connect"
  /\ connected' = connected \cup {cur}
  /\ kids' = Children[cur]
  /\ pc' = "publish"
  /\ UNCHANGED <<phase, cur, isChild, devices, bus, listening, callback,
                 reconnectMutex, flagVars, reconnectList, rcVars>>

Publish ==
  /\ phase = "building" /\ pc = "publish"
  /\ devices' = devices \cup {cur}
  /\ kids' = 0 /\ cur' = NoDevice /\ pc' = "idle"
  /\ UNCHANGED <<phase, isChild, busVars, reconnectMutex, flagVars,
                 reconnectList, rcVars>>

\* Start, Connect or a step of Publish throws: unwinding destroys the object.
BuildThrows ==
  /\ phase = "building" /\ pc \in {"connect", "publish"}
  /\ phase' = "unwinding" /\ isChild' = FALSE /\ pc' = "lock"
  /\ UNCHANGED <<cur, kids, devices, busVars, reconnectMutex, flagVars,
                 reconnectList, rcVars>>

AllBuilt ==
  /\ phase = "building" /\ pc = "idle"
  /\ \A d \in Device : bus[d] # "absent"
  /\ phase' = "running"
  /\ UNCHANGED <<pc, cur, kids, isChild, devices, busVars, reconnectMutex,
                 flagVars, reconnectList, rcVars>>

\* getchar() returns; ReleaseSingleton runs ~Bridge and Shutdown.
HitEnter ==
  /\ phase = "running"
  /\ phase' = "stopping"
  /\ UNCHANGED <<pc, cur, kids, isChild, devices, busVars, reconnectMutex,
                 flagVars, reconnectList, rcVars>>

-----------------------------------------------------------------------------
(* Main destroys the BusObjects: ~BusObject, step by step.                 *)

\* m_bridgeBusObjects.clear() comes to d (no order is promised).
DestroyNext(d) ==
  /\ phase \in {"stopping", "exiting"} /\ pc = "idle" /\ d \in devices
  /\ devices' = devices \ {d}
  /\ cur' = d /\ kids' = Children[d] /\ isChild' = FALSE /\ pc' = "lock"
  /\ UNCHANGED <<phase, busVars, reconnectMutex, flagVars, reconnectList,
                 rcVars>>

\* Decremented to zero, and there is a thread to stop.
LastReference_Never == FALSE
LastReference_OffByOne == reconnectRefcount' <= 1 /\ rc # "none"
LastReference == reconnectRefcount' = 0 /\ rc # "none"

\* Roots and children drop a reference, though only roots took one. The
\* mutex is unlocked on the path that joins the thread and stays locked to
\* the end of the destructor on the other.
DtorLock ==
  /\ Up /\ pc = "lock" /\ reconnectMutex = "free"
  /\ reconnectRefcount' = (reconnectRefcount - 1) % RefModulus
  /\ IF LastReference
     THEN /\ reconnectShutdown' = TRUE
          /\ pc' = "join"
          /\ UNCHANGED reconnectMutex
     ELSE /\ reconnectMutex' = "main"
          /\ pc' = "unregister"
          /\ UNCHANGED reconnectShutdown
  /\ UNCHANGED <<phase, cur, kids, isChild, devices, busVars,
                 reconnectErrorState, reconnectList, rcVars>>

\* (rc is never "joined" here, see JoinInv: join() would throw.)
DtorJoin ==
  /\ Up /\ pc = "join" /\ rc = "returned"
  /\ rc' = "joined" /\ pc' = "unregister"
  /\ UNCHANGED <<phase, cur, kids, isChild, devices, busVars, reconnectMutex,
                 flagVars, reconnectList, todo, cooling>>

DtorUnregister_Forgotten ==
  /\ Up /\ pc = "unregister"
  /\ pc' = "drain"
  /\ UNCHANGED <<phase, cur, kids, isChild, devices, busVars, reconnectMutex,
                 flagVars, reconnectList, rcVars>>

\* A child has no listener of its own.
DtorUnregister ==
  /\ Up /\ pc = "unregister"
  /\ listening' = IF isChild THEN listening ELSE listening \ {cur}
  /\ pc' = "drain"
  /\ UNCHANGED <<phase, cur, kids, isChild, devices, bus, connected, callback,
                 reconnectMutex, flagVars, reconnectList, rcVars>>

\* UnregisterBusListener returns when no callback is in progress.
DtorDrain ==
  /\ Up /\ pc = "drain" /\ (isChild \/ cur \notin callback)
  /\ pc' = "teardown"
  /\ UNCHANGED <<phase, cur, kids, isChild, devices, busVars, reconnectMutex,
                 flagVars, reconnectList, rcVars>>

\* Stop, Unannounce, Disconnect, Join; the body's lock goes out of scope.
DtorTeardown ==
  /\ Up /\ pc = "teardown"
  /\ bus' = [bus EXCEPT ![cur] = "stopped"]
  /\ connected' = connected \ {cur}
  /\ reconnectMutex' = IF reconnectMutex = "main" THEN "free" ELSE reconnectMutex
  /\ pc' = "members"
  /\ UNCHANGED <<phase, cur, kids, isChild, devices, listening, callback,
                 flagVars, reconnectList, rcVars>>

\* m_children goes before m_bus: each child's destructor runs in turn.
DtorChild ==
  /\ Up /\ pc = "members" /\ kids > 0
  /\ kids' = kids - 1 /\ isChild' = TRUE /\ pc' = "lock"
  /\ UNCHANGED <<phase, cur, devices, busVars, reconnectMutex, flagVars,
                 reconnectList, rcVars>>

\* The last reference to the bus goes. Nothing removes it from reconnectList.
\* A failed build ends in exit(1): the statics of BridgeBusObject.cpp go
\* first, and a joinable reconnectThread is std::terminate.
DtorFreeBus ==
  /\ Up /\ pc = "members" /\ kids = 0
  /\ bus' = [bus EXCEPT ![cur] = "freed"]
  /\ cur' = NoDevice /\ pc' = "idle"
  /\ phase' = IF phase # "unwinding" THEN phase
              ELSE IF Joinable THEN "terminated" ELSE "exiting"
  /\ UNCHANGED <<kids, isChild, devices, listening, connected, callback,
                 reconnectMutex, flagVars, reconnectList, rcVars>>

\* Every BusObject is gone: main returns, or exit(1) ends the process.
Finish ==
  /\ phase \in {"stopping", "exiting"} /\ pc = "idle" /\ devices = {}
  /\ phase' = IF Joinable THEN "terminated" ELSE "exited"
  /\ UNCHANGED <<pc, cur, kids, isChild, devices, busVars, reconnectMutex,
                 flagVars, reconnectList, rcVars>>

-----------------------------------------------------------------------------
(* AllJoyn's dispatchers.                                                  *)

\* The router or the transport drops the link; a listener hears of it.
LinkLost(d) ==
  /\ Up /\ d \in connected
  /\ connected' = connected \ {d}
  /\ callback' = callback \cup ({d} \cap listening)
  /\ UNCHANGED <<mainVars, bus, listening, reconnectMutex, flagVars,
                 reconnectList, rcVars>>

\* BusDisconnected: push_back under the mutex, then notify_one.
BusDisconnected(d) ==
  /\ Up /\ d \in callback /\ reconnectMutex = "free"
  /\ reconnectList' = [reconnectList EXCEPT ![d] = @ + 1]
  /\ callback' = callback \ {d}
  /\ UNCHANGED <<mainVars, bus, listening, connected, reconnectMutex,
                 flagVars, rcVars>>

\* After exit(1) destroyed the static vector, the push may also crash.
BusDisconnectedAfterExit(d) ==
  /\ phase = "exiting" /\ d \in callback
  /\ phase' = "crashed"
  /\ UNCHANGED <<pc, cur, kids, isChild, devices, busVars, reconnectMutex,
                 flagVars, reconnectList, rcVars>>

-----------------------------------------------------------------------------
(* reconnectFunction.                                                      *)

WorkPending_NoErrorState ==
  (\E d \in Device : reconnectList[d] > 0) /\ ~reconnectShutdown

\* The predicate of wait_until.
WorkPending ==
  /\ \E d \in Device : reconnectList[d] > 0
  /\ ~reconnectErrorState
  /\ ~reconnectShutdown

\* Top of the loop: a new deadline, a second from now.
RcArm ==
  /\ Up /\ rc = "arm"
  /\ rc' = "wait"
  /\ UNCHANGED <<mainVars, busVars, reconnectMutex, flagVars, reconnectList,
                 todo, cooling>>

RcTimeout ==
  /\ Up /\ rc = "wait"
  /\ rc' = "expired" /\ cooling' = {}
  /\ UNCHANGED <<mainVars, busVars, reconnectMutex, flagVars, reconnectList,
                 todo>>

RcWoken_NoLock == Up /\ (rc = "expired" \/ (rc = "wait" /\ WorkPending))
RcWoken ==
  /\ Up /\ reconnectMutex = "free"
  /\ rc = "expired" \/ (rc = "wait" /\ WorkPending)

RcReturn_Continues ==
  /\ RcWoken /\ reconnectShutdown
  /\ rc' = "arm"
  /\ UNCHANGED <<mainVars, busVars, reconnectMutex, flagVars, reconnectList,
                 todo, cooling>>

RcReturn ==
  /\ RcWoken /\ reconnectShutdown
  /\ rc' = "returned"
  /\ UNCHANGED <<mainVars, busVars, reconnectMutex, flagVars, reconnectList,
                 todo, cooling>>

RcBeginSweep_OnlyUnfailed ==
  /\ RcWoken /\ ~reconnectShutdown /\ ~reconnectErrorState
  /\ rc' = "sweep" /\ reconnectMutex' = "reconnect"
  /\ todo' = reconnectList
  /\ UNCHANGED <<mainVars, busVars, flagVars, reconnectList, cooling>>

RcBeginSweep ==
  /\ RcWoken /\ ~reconnectShutdown
  /\ rc' = "sweep" /\ reconnectMutex' = "reconnect"
  /\ reconnectErrorState' = FALSE
  /\ todo' = reconnectList
  /\ UNCHANGED <<mainVars, busVars, reconnectRefcount, reconnectShutdown,
                 reconnectList, cooling>>

\* The sweep comes to an entry of d.
SweepEntry(d) ==
  /\ Up /\ rc = "sweep" /\ todo[d] > 0
  /\ todo' = [todo EXCEPT ![d] = @ - 1]

RcConnects_KeepsEntry(d) ==
  /\ SweepEntry(d) /\ bus[d] = "live"
  /\ connected' = connected \cup {d}
  /\ UNCHANGED <<mainVars, bus, listening, callback, reconnectMutex, flagVars,
                 reconnectList, rc, cooling>>

\* Connect returns ER_OK or ER_BUS_ALREADY_CONNECTED: the entry is nulled.
RcConnects(d) ==
  /\ SweepEntry(d) /\ bus[d] = "live"
  /\ connected' = connected \cup {d}
  /\ reconnectList' = [reconnectList EXCEPT ![d] = @ - 1]
  /\ UNCHANGED <<mainVars, bus, listening, callback, reconnectMutex, flagVars,
                 rc, cooling>>

\* Any other status: the entry stays for the next sweep.
RcConnectFails(d) ==
  /\ SweepEntry(d) /\ bus[d] # "freed" /\ d \notin connected
  /\ reconnectErrorState' = TRUE
  /\ cooling' = cooling \cup {d}
  /\ UNCHANGED <<mainVars, busVars, reconnectMutex, reconnectRefcount,
                 reconnectShutdown, reconnectList, rc>>

\* The entry dangles: the process crashes, or Connect appears to work or not.
RcTouchFreed(d) ==
  /\ SweepEntry(d) /\ bus[d] = "freed"
  /\ \/ phase' = "crashed" /\ UNCHANGED <<reconnectErrorState, reconnectList>>
     \/ /\ reconnectErrorState' = TRUE
        /\ UNCHANGED <<phase, reconnectList>>
     \/ /\ reconnectList' = [reconnectList EXCEPT ![d] = @ - 1]
        /\ UNCHANGED <<phase, reconnectErrorState>>
  /\ UNCHANGED <<pc, cur, kids, isChild, devices, busVars, reconnectMutex,
                 reconnectRefcount, reconnectShutdown, rc, cooling>>

RcEndSweep_NoUnlock ==
  /\ Up /\ rc = "sweep" /\ \A d \in Device : todo[d] = 0
  /\ rc' = "arm"
  /\ UNCHANGED <<mainVars, busVars, reconnectMutex, flagVars, reconnectList,
                 todo, cooling>>

\* Nulled entries are erased, the mutex is released.
RcEndSweep ==
  /\ Up /\ rc = "sweep" /\ \A d \in Device : todo[d] = 0
  /\ rc' = "arm" /\ reconnectMutex' = "free"
  /\ UNCHANGED <<mainVars, busVars, flagVars, reconnectList, todo, cooling>>

-----------------------------------------------------------------------------
Build == BuildConnect \/ Publish \/ BuildThrows \/ AllBuilt
      \/ \E d \in Device : ConstructRoot(d)
Destroy == DtorJoin \/ DtorUnregister \/ DtorDrain \/ DtorTeardown \/ DtorChild
        \/ DtorFreeBus \/ Finish \/ \E d \in Device : DestroyNext(d)
Dispatcher(d) == LinkLost(d) \/ BusDisconnected(d) \/ BusDisconnectedAfterExit(d)
Sweep(d) == RcConnects(d) \/ RcConnectFails(d) \/ RcTouchFreed(d)
Reconnect == RcArm \/ RcTimeout \/ RcReturn \/ RcBeginSweep \/ RcEndSweep
          \/ \E d \in Device : Sweep(d)

\* A destructor of a root that kept the mutex waits, in UnregisterBusListener,
\* for a callback of its bus that waits for the mutex.
Blocked == reconnectMutex = "main" /\ pc = "drain" /\ ~isChild /\ cur \in callback

\* The process has ended, in whichever way, or main can never go on. TLC
\* reports any other state without a step as a deadlock.
Ended == (~Up \/ Blocked) /\ UNCHANGED vars

Next ==
  \/ Build \/ HitEnter \/ Destroy \/ DtorLock
  \/ Reconnect
  \/ \E d \in Device : Dispatcher(d)
  \/ Ended

Spec == Init /\ [][Next]_vars

\* Every thread runs; whoever wants the mutex gets it in the end, for the
\* reconnect thread gives it up for as long as a second in each turn; and a
\* router that is asked again and again answers in the end. Nobody has to
\* hit enter, and no link has to be lost.
Fairness ==
  /\ WF_vars(Build) /\ WF_vars(Destroy) /\ SF_vars(DtorLock)
  /\ SF_vars(\E d \in Device : ConstructRoot(d))
  /\ WF_vars(RcArm) /\ WF_vars(RcTimeout) /\ WF_vars(RcEndSweep)
  /\ SF_vars(RcReturn) /\ SF_vars(RcBeginSweep)
  /\ \A d \in Device :
       /\ SF_vars(BusDisconnected(d))
       /\ WF_vars(Sweep(d))
       /\ SF_vars(RcConnects(d))

FairSpec == Spec /\ Fairness

-----------------------------------------------------------------------------
\* How many places know that d is linked, or know that it is not.
Places(d) ==
  (IF d \in connected THEN 1 ELSE 0) + (IF d \in callback THEN 1 ELSE 0)
    + reconnectList[d]

\* A published bus is never forgotten and never counted twice: it is either
\* connected, or its BusDisconnected is on the way, or it is in reconnectList
\* exactly once. (BusDisconnected and the sweep run on different threads and
\* a link can drop while the sweep still holds the entry.)
LinkAccounted == \A d \in devices : Places(d) = 1

\* A Connect that failed is not repeated before the deadline of the loop has
\* passed, whatever other buses push and notify meanwhile (reconnectErrorState).
Throttled ==
  [][\A d \in Device : todo'[d] < todo[d] => d \notin cooling]_vars

\* While ~BusObject unregisters, stops and disconnects a bus, the reconnect
\* thread is not inside a sweep that could connect it again.
TeardownExclusive ==
  pc \in {"unregister", "drain", "teardown"} => rc # "sweep"

\* main's destructor of cur has dropped cur's reference.
Dropped(d) == cur = d /\ pc \in {"join", "unregister", "drain", "teardown", "members"}

Live == {d \in Device : bus[d] = "live" /\ ~Dropped(d)}

Serving == rc \in {"arm", "wait", "expired", "sweep"} /\ ~reconnectShutdown

\* Until a BusObject with children is torn down, the reference count is exact:
\* the thread runs as long as any BusObject lives, also while others go.
CountExact == \A d \in Device : Children[d] > 0 => bus[d] \in {"absent", "live"}
ServedWhileLive == CountExact /\ Live # {} => Serving

\* Main has a step.
MainRuns ==
  \/ phase = "building" /\ pc \in {"connect", "publish"}
  \/ /\ phase = "building" /\ pc = "idle"
     /\ reconnectMutex = "free" \/ \A d \in Device : bus[d] # "absent"
  \/ phase \in {"running", "stopping", "exiting"} /\ pc = "idle"
  \/ pc = "lock" /\ reconnectMutex = "free"
  \/ pc = "join" /\ rc = "returned"
  \/ pc = "drain" /\ (isChild \/ cur \notin callback)
  \/ pc \in {"unregister", "teardown", "members"}

\* The reconnect thread has a step.
ReconnectRuns ==
  \/ rc \in {"arm", "wait"}
  \/ rc = "expired" /\ reconnectMutex = "free"
  \/ rc = "sweep" /\ \A d \in Device :
       todo[d] > 0 => bus[d] \in {"live", "freed"} \/ d \notin connected

\* Whoever main waits for has a step: the thread it joins, the thread that
\* holds the mutex, or the callback it drains.
AwaitedRuns ==
  \/ pc = "join" /\ reconnectShutdown /\ ReconnectRuns
  \/ pc \in {"idle", "lock"} /\ reconnectMutex = "reconnect" /\ rc = "sweep" /\ ReconnectRuns
  \/ pc = "drain" /\ cur \in callback /\ reconnectMutex = "free"

\* There is only one way for main to block for ever. (Three kinds of threads
\* wait for the mutex, for a join, for callbacks and for a condition.)
OnlyDeadlock == Up => MainRuns \/ AwaitedRuns \/ Blocked

\* The reconnect thread never uses a destroyed BusAttachment.
NoUseAfterFree == rc = "sweep" => \A d \in Device : todo[d] > 0 => bus[d] # "freed"

\* Whatever the children of its devices have taken from the count, a bridge
\* that is stopped joins the thread: only the exit(1) after a failed build can
\* find it joinable.
JoinedAtStop == [][phase' = "terminated" => phase = "unwinding"]_vars

\* The process never aborts.
EndsInOrder == phase \notin {"terminated", "crashed"}

\* A published bus that loses its link is connected again, unless the
\* program is told to stop.
Reconnects ==
  \A d \in Device :
    phase = "running" /\ d \notin connected ~> d \in connected \/ phase # "running"

\* After enter the process ends, and ends in good order.
Stops == phase = "stopping" ~> phase = "exited"

\* What main sees of a bus when nobody looks at threads and locks.
Link(d) ==
  IF bus[d] = "absent"         THEN "new"
  ELSE IF d \notin listening    THEN "closed"
  ELSE IF d \in connected       THEN "up"
  ELSE IF d \in callback        THEN "lost"
  ELSE IF reconnectList[d] > 0  THEN "queued" ELSE "new"

\* The reconnecting BusAttachment the code's authors had in mind.
Persistent == INSTANCE PersistentBus
                WITH Bus <- Device, link <- [d \in Device |-> Link(d)]

\* The threads, the list and the mutex together implement it.
ImplementsPersistentBus == Persistent!Spec

-----------------------------------------------------------------------------
(* The inductive invariants the proofs in BusObject_proof use.             *)

\* Where d is, for every stage of its life (gives LinkAccounted).
LinkInv ==
  /\ \A d \in Device :
       /\ Places(d) <= 1
       /\ bus[d] = "absent" =>
            Places(d) = 0 /\ d \notin listening /\ d \notin devices /\ cur # d
  /\ \A d \in devices : bus[d] = "live" /\ d \in listening /\ Places(d) = 1 /\ cur # d
  /\ pc = "connect" => bus[cur] = "live" /\ cur \in listening /\ Places(cur) = 0
  /\ pc = "publish" => bus[cur] = "live" /\ cur \in listening /\ Places(cur) = 1

\* A bus that is stopped has lost its listener before.
ClosedInv ==
  /\ \A d \in Device : bus[d] \in {"stopped", "freed"} => d \notin listening
  /\ pc = "members" => bus[cur] = "stopped"
  /\ isChild /\ pc \in {"lock", "join", "unregister", "drain", "teardown"} =>
       bus[cur] = "stopped"
  /\ pc \in {"drain", "teardown"} => cur \notin listening

\* Who holds the mutex, and what that excludes (gives TeardownExclusive).
MutexInv ==
  /\ rc = "sweep" <=> reconnectMutex = "reconnect"
  /\ reconnectMutex = "main" => pc \in {"unregister", "drain", "teardown"}
  /\ pc \in {"unregister", "drain", "teardown"} =>
       reconnectMutex = "main" \/ rc = "joined"

\* A failed bus is remembered by reconnectErrorState (gives Throttled).
ThrottleInv ==
  /\ rc # "sweep" => \A d \in Device : todo[d] = 0
  /\ cooling # {} => reconnectErrorState
  /\ rc = "expired" => cooling = {}
  /\ \A d \in cooling : todo[d] = 0

\* Until a BusObject with children is torn down, the count is the number of
\* live roots (gives ServedWhileLive).
CountInv ==
  /\ kids > 0 => pc # "idle" /\ Children[cur] > 0
  /\ isChild /\ pc \in {"lock", "join", "unregister", "drain", "teardown", "members"} =>
       Children[cur] > 0
  /\ pc = "lock" => isChild \/ bus[cur] = "live"
  /\ phase = "building" => pc \in {"idle", "connect", "publish"}
  /\ CountExact =>
       /\ reconnectRefcount = Cardinality(Live)
       /\ Live # {} => Serving
       /\ phase = "building" => rc = "none" \/ Serving

\* As long as the thread is not joined, the count is not zero, and it is not
\* more than there are live roots: a child takes a reference away, but none of
\* them adds one (gives JoinedAtStop).
RefInv ==
  /\ rc = "none" => reconnectRefcount = 0 /\ \A d \in Device : bus[d] = "absent"
  /\ Joinable /\ pc # "join" => reconnectRefcount \in 1 .. Cardinality(Live)
  /\ pc = "lock" => isChild \/ bus[cur] = "live"
  /\ \A d \in Device : bus[d] = "live" => d \in devices \/ d = cur
  /\ phase = "exiting" => ~Joinable

\* What main may wait for (with the others it gives OnlyDeadlock).
WaitInv ==
  /\ pc \in {"connect", "publish"} => phase = "building"
  /\ phase \in {"building", "running"} => pc \in {"idle", "connect", "publish"}
  /\ phase = "unwinding" => pc # "idle"
  /\ pc = "join" => reconnectShutdown
  /\ \A d \in Device :
       /\ bus[d] \in {"stopped", "freed"} => d \notin connected
       /\ bus[d] = "freed" => phase \notin {"building", "running", "unwinding"}

\* The objects that main still has to destroy and that still count: those of
\* devices, and of cur the ones whose destructor has not passed the lock.
Left == {o \in Object :
           \/ o[1] \in devices
           \/ o[1] = cur /\ o[2] <= (IF pc = "lock" THEN kids + 1 ELSE kids)}

\* The thread is joined at most once: when it is, the count is zero, and there
\* are too few objects left to wrap it round to zero again.
JoinInv ==
  /\ pc = "idle" \/ pc = "connect" => kids = 0
  /\ cur # NoDevice => kids <= Children[cur]
  /\ pc = "join" => Joinable /\ reconnectRefcount = 0
  /\ rc = "joined" => phase \notin {"building", "running"}
  /\ rc = "joined" => reconnectRefcount = 0 \/ reconnectRefcount > Cardinality(Left)

\* With a single device: nobody is left to use the bus or its listener (gives
\* NoUseAfterFree and EndsInOrder), and its root does not keep the mutex.
SingleInv ==
  /\ pc \in {"unregister", "drain", "teardown", "members"} => rc = "joined"
  /\ \A d \in Device : bus[d] \in {"stopped", "freed"} => rc = "joined" /\ d \notin callback
  /\ phase = "exiting" => pc = "idle" /\ \A d \in Device : bus[d] = "freed"
  /\ pc = "teardown" => cur \notin callback
  /\ devices # {} \/ (pc = "lock" /\ ~isChild) => rc # "joined"
  /\ pc \in {"join", "unregister", "drain"} /\ ~isChild => reconnectMutex # "main"
  /\ EndsInOrder
=============================================================================
