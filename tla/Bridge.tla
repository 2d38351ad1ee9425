------------------------------- MODULE Bridge --------------------------------
(***************************************************************************)
(* From the start of the process to its end: main (src/main.cpp), the      *)
(* Loader, Bridge::Initialize and Shutdown (src/bridge/Bridge.cpp) and the *)
(* ConfigManager with its own BusAttachment (src/bridge/ConfigManager.cpp).*)
(*                                                                         *)
(* Beside main move the dispatcher of that bus, in SessionJoined; the      *)
(* adapter, whose completions come when they like; and the router, which   *)
(* brings sessions and may drop the link. The last two are external. A     *)
(* BusObject is one step here; module BusObject tells what happens inside. *)
(*                                                                         *)
(* A definition whose name has an underscore is a slip the code could      *)
(* have; no action uses it. The properties tell it from the next one.      *)
(***************************************************************************)
EXTENDS FiniteSets, Names

CONSTANTS
  Device,    \* what the adapter enumerates
  Adapter,   \* what the loader may create: records of a prefix and a name
  nullptr

ASSUME NullAssumption == nullptr \notin Adapter
ASSUME AdapterAssumption == Adapter \subseteq [prefix : Seq(Char), name : Seq(Char)]

VARIABLES
  step,                   \* main's next step
  failed,                 \* Initialize has thrown, main called exit(1)
  alljoyn,                \* AllJoyn is initialised
  m_alljoynInitialized,
  m_adapter,              \* what the loader created
  m_bus,                  \* the ConfigManager has a BusAttachment
  connected,              \* it is connected
  held,                   \* what the router holds for it
  m_serviceName,          \* the name it goes by
  joining,                \* how far its dispatcher is in SessionJoined
  m_bridgeBusObjects,
  devices,                \* the vector EnumDevices fills
  request,                \* the IoRequest of each call of the adapter
  initFailed,             \* the status of the one for Initialize is not 0
  gaveUp                  \* history: requests whose Wait timed out

adapterVars == <<m_adapter, devices, request, initFailed>>
busVars == <<m_bus, connected, held, m_serviceName, joining>>
alljoynVars == <<alljoyn, m_alljoynInitialized>>
vars == <<step, failed, alljoynVars, busVars, m_bridgeBusObjects, adapterVars,
          gaveUp>>

Starting == {"load", "init", "config", "adapter", "initWait", "name", "connect", "request",
             "bind", "advertise", "enumerate", "enumWait", "create"}
Stopping == {"clear", "downWait", "manager", "unadvertise", "unbind", "release",
             "disconnect", "join", "alljoyn"}
Ended == {"exited", "terminated", "crashed"}

Operation == {"initialize", "enumerate", "shutdown"}

TypeOK ==
  /\ step \in Starting \cup {"running"} \cup Stopping \cup Ended
  /\ failed \in BOOLEAN /\ alljoyn \in BOOLEAN /\ m_alljoynInitialized \in BOOLEAN
  /\ m_adapter \in Adapter \cup {nullptr} /\ m_bus \in BOOLEAN /\ connected \in BOOLEAN
  /\ held \subseteq {"name", "port", "advertisement"}
  /\ joining \in {"none", "joined", "listening"}
  /\ m_bridgeBusObjects \subseteq Device /\ devices \subseteq Device
  /\ request \in [Operation -> {"none", "open", "written", "done", "refused"}]
  /\ initFailed \in BOOLEAN
  /\ gaveUp \subseteq Operation

Init ==
  /\ step = "load" /\ failed = FALSE
  /\ alljoyn = FALSE /\ m_alljoynInitialized = FALSE
  /\ m_adapter = nullptr
  /\ m_bus = FALSE /\ connected = FALSE /\ held = {}
  /\ m_serviceName = <<>> /\ joining = "none"
  /\ m_bridgeBusObjects = {} /\ devices = {}
  /\ request = [o \in Operation |-> "none"] /\ initFailed = FALSE
  /\ gaveUp = {}

Alive == step \notin Ended

Go(from, to) == step = from /\ step' = to /\ UNCHANGED failed

\* An exception leaves Initialize: exit(1) destroys the statics, first those
\* of BridgeBusObject.cpp, where a reconnectThread that still serves published
\* objects is std::terminate, then gBridge.
Throw ==
  /\ failed' = TRUE
  /\ step' \in {"clear"} \cup IF m_bridgeBusObjects = {} THEN {} ELSE {"terminated"}

Throws(from) ==
  /\ step = from /\ Throw
  /\ UNCHANGED <<alljoynVars, busVars, m_bridgeBusObjects, adapterVars, gaveUp>>

-----------------------------------------------------------------------------
(* main and Loader.                                                        *)

\* The library has both functions. The one that creates may return null, and
\* main makes its singleton of it all the same.
LoadAdapter ==
  /\ Go("load", "init")
  /\ m_adapter' \in Adapter \cup {nullptr}
  /\ UNCHANGED <<alljoynVars, busVars, m_bridgeBusObjects, devices, request, initFailed,
                 gaveUp>>

\* A wrong option returns 0; no library, or one without a function, is exit(1).
NothingToLoad ==
  /\ step = "load" /\ step' = "exited"
  /\ failed' \in {failed, TRUE}
  /\ UNCHANGED <<alljoynVars, busVars, m_bridgeBusObjects, adapterVars, gaveUp>>

-----------------------------------------------------------------------------
(* Bridge::Initialize and InitializeInternal.                              *)

InitializeAllJoyn ==
  \/ /\ Go("init", "config")
     /\ alljoyn' = TRUE
     /\ UNCHANGED <<m_alljoynInitialized, busVars, m_bridgeBusObjects, adapterVars,
                    gaveUp>>
  \/ Throws("init")

\* ConfigManager::Initialize parses the configuration file.
LoadConfig ==
  \/ /\ Go("config", "adapter")
     /\ UNCHANGED <<alljoynVars, busVars, m_bridgeBusObjects, adapterVars, gaveUp>>
  \/ Throws("config")

\* A call of the adapter that returns 0, with a new IoRequest.
Ask(o) == request' = [request EXCEPT ![o] = "open"]

\* No adapter, or Initialize returns an error: an exception.
InitializeAdapter ==
  \/ /\ m_adapter # nullptr /\ Go("adapter", "initWait") /\ Ask("initialize")
     /\ UNCHANGED <<alljoynVars, busVars, m_bridgeBusObjects, m_adapter, devices,
                    initFailed, gaveUp>>
  \/ Throws("adapter")

\* Wait(2000) and the status of a request that is done.
AdapterInitialized ==
  /\ request["initialize"] = "done"
  /\ \/ /\ ~initFailed /\ Go("initWait", "name")
        /\ UNCHANGED <<alljoynVars, busVars, m_bridgeBusObjects, adapterVars, gaveUp>>
     \/ initFailed /\ Throws("initWait")

\* Two seconds pass: a warning, and the start goes on.
AdapterIsSlow ==
  /\ request["initialize"] = "open" /\ Go("initWait", "name")
  /\ gaveUp' = gaveUp \cup {"initialize"}
  /\ UNCHANGED <<alljoynVars, busVars, m_bridgeBusObjects, adapterVars>>

-----------------------------------------------------------------------------
(* ConfigManager::ConnectToAllJoyn.                                        *)

\* BuildServiceName fails if nothing is left of the adapter's prefix or name
\* once it is encoded: there is no BusAttachment then.
NamelessAdapter ==
  /\ step = "name" /\ ~CanBuildServiceName(m_adapter)
  /\ m_serviceName' = BuildServiceName(m_adapter)
  /\ Throw
  /\ UNCHANGED <<alljoynVars, m_bus, connected, held, joining, m_bridgeBusObjects,
                 adapterVars, gaveUp>>

\* A new BusAttachment is started.
StartBus ==
  /\ Go("name", "connect") /\ CanBuildServiceName(m_adapter)
  /\ m_serviceName' = BuildServiceName(m_adapter)
  /\ m_bus' = TRUE
  /\ UNCHANGED <<alljoynVars, connected, held, joining, m_bridgeBusObjects, adapterVars,
                 gaveUp>>

\* Connect, until it succeeds.
ConnectBus ==
  /\ Go("connect", "request")
  /\ connected' = TRUE
  /\ UNCHANGED <<alljoynVars, m_bus, held, m_serviceName, joining, m_bridgeBusObjects,
                 adapterVars, gaveUp>>

Obtain_Unchecked(from, thing, to) ==
  /\ Go(from, to)
  /\ held' = held \cup {thing}
  /\ UNCHANGED <<alljoynVars, m_bus, connected, m_serviceName, joining,
                 m_bridgeBusObjects, adapterVars, gaveUp>>

\* RequestName, BindSessionPort and AdvertiseName ask the router, and each
\* fails when the link is gone or the name is not one for a bus.
Obtain(from, thing, to) ==
  \/ /\ connected /\ LegalBusName(m_serviceName) /\ Go(from, to)
     /\ held' = held \cup {thing}
     /\ UNCHANGED <<alljoynVars, m_bus, connected, m_serviceName, joining,
                    m_bridgeBusObjects, adapterVars, gaveUp>>
  \/ Throws(from)

RequestName == Obtain("request", "name", "bind")
BindSessionPort == Obtain("bind", "port", "advertise")
AdvertiseName == Obtain("advertise", "advertisement", "enumerate")

-----------------------------------------------------------------------------
(* Bridge::InitializeDevices.                                              *)

EnumDevices ==
  \/ /\ Go("enumerate", "enumWait") /\ Ask("enumerate")
     /\ UNCHANGED <<alljoynVars, busVars, m_bridgeBusObjects, m_adapter, devices,
                    initFailed, gaveUp>>
  \/ Throws("enumerate")

\* The status of the request is not asked.
Enumerated ==
  /\ request["enumerate"] = "done" /\ Go("enumWait", "create")
  /\ UNCHANGED <<alljoynVars, busVars, m_bridgeBusObjects, adapterVars, gaveUp>>

EnumTimesOut_GoesOn ==
  /\ step = "enumWait" /\ request["enumerate"] # "done"
  /\ gaveUp' = gaveUp \cup {"enumerate"}
  /\ Go("enumWait", "create")
  /\ UNCHANGED <<alljoynVars, busVars, m_bridgeBusObjects, adapterVars>>
EnumTimesOut_Never == FALSE   \* Wait() without a period

\* Twenty seconds pass.
EnumTimesOut ==
  /\ step = "enumWait" /\ request["enumerate"] # "done"
  /\ gaveUp' = gaveUp \cup {"enumerate"}
  /\ Throw
  /\ UNCHANGED <<alljoynVars, busVars, m_bridgeBusObjects, adapterVars>>

CreateDevice(d) ==
  /\ step = "create" /\ d \in devices \ m_bridgeBusObjects
  /\ \/ /\ m_bridgeBusObjects' = m_bridgeBusObjects \cup {d}
        /\ UNCHANGED <<step, failed, alljoynVars, busVars, adapterVars, gaveUp>>
     \/ Throws("create")

\* RegisterAdapterSignalHandlers(true) has nothing to do.
Initialized ==
  /\ devices \subseteq m_bridgeBusObjects /\ Go("create", "running")
  /\ m_alljoynInitialized' = TRUE
  /\ UNCHANGED <<alljoyn, busVars, m_bridgeBusObjects, adapterVars, gaveUp>>

-----------------------------------------------------------------------------
(* Bridge::Shutdown and ConfigManager::ShutdownAllJoyn.                    *)

\* getchar() returns and ReleaseSingleton destroys the bridge.
HitEnter ==
  /\ Go("running", "clear")
  /\ UNCHANGED <<alljoynVars, busVars, m_bridgeBusObjects, adapterVars, gaveUp>>

DestroyObject_Keeps(d) == step = "clear" /\ d \in m_bridgeBusObjects /\ UNCHANGED vars

\* m_bridgeBusObjects.clear(). Whether ~BusObject returns is BusObject's matter.
DestroyObject(d) ==
  /\ step = "clear" /\ d \in m_bridgeBusObjects
  /\ m_bridgeBusObjects' = m_bridgeBusObjects \ {d}
  /\ UNCHANGED <<step, failed, alljoynVars, busVars, adapterVars, gaveUp>>

\* The adapter's Shutdown may return an error; its result is ignored.
ShutdownAdapter ==
  /\ m_bridgeBusObjects = {} /\ m_adapter # nullptr /\ Go("clear", "downWait")
  /\ \E answer \in {"open", "refused"} :
       request' = [request EXCEPT !["shutdown"] = answer]
  /\ UNCHANGED <<alljoynVars, busVars, m_bridgeBusObjects, m_adapter, devices,
                 initFailed, gaveUp>>

\* Wait() without a deadline returns, or there is no adapter to wait for.
AdapterIsDown ==
  /\ \/ request["shutdown"] = "done" /\ Go("downWait", "manager")
     \/ m_adapter = nullptr /\ m_bridgeBusObjects = {} /\ Go("clear", "manager")
  /\ UNCHANGED <<alljoynVars, busVars, m_bridgeBusObjects, adapterVars, gaveUp>>

\* Without a bus ShutdownAllJoyn returns at once.
ShutdownManager ==
  /\ \/ m_bus /\ Go("manager", "unadvertise")
     \/ ~m_bus /\ Go("manager", "alljoyn")
  /\ UNCHANGED <<alljoynVars, busVars, m_bridgeBusObjects, adapterVars, gaveUp>>

GiveBack(from, thing, to) ==
  /\ Go(from, to)
  /\ held' = held \ {thing}
  /\ UNCHANGED <<alljoynVars, m_bus, connected, m_serviceName, joining,
                 m_bridgeBusObjects, adapterVars, gaveUp>>

CancelAdvertiseName == GiveBack("unadvertise", "advertisement", "unbind")
UnbindSessionPort == GiveBack("unbind", "port", "release")
ReleaseName == GiveBack("release", "name", "disconnect")

DisconnectBus_Unwaited ==   \* and no Join
  /\ Go("disconnect", "alljoyn")
  /\ m_bus' = FALSE /\ connected' = FALSE /\ held' = {}
  /\ UNCHANGED <<alljoynVars, m_serviceName, joining, m_bridgeBusObjects, adapterVars,
                 gaveUp>>
DisconnectBus_StopOnly ==
  /\ Go("disconnect", "join")
  /\ UNCHANGED <<alljoynVars, busVars, m_bridgeBusObjects, adapterVars, gaveUp>>

\* Disconnect, Stop, UnregisterBusListener: no callback begins any more.
DisconnectBus ==
  /\ Go("disconnect", "join")
  /\ connected' = FALSE /\ held' = {}
  /\ UNCHANGED <<alljoynVars, m_bus, m_serviceName, joining, m_bridgeBusObjects,
                 adapterVars, gaveUp>>

\* Join waits for the callback that is running; then the bus is deleted.
JoinBus ==
  /\ joining = "none" /\ Go("join", "alljoyn")
  /\ m_bus' = FALSE
  /\ UNCHANGED <<alljoynVars, connected, held, m_serviceName, joining,
                 m_bridgeBusObjects, adapterVars, gaveUp>>

\* AllJoynShutdown, if the start succeeded; the process ends.
ShutdownAllJoyn ==
  /\ Go("alljoyn", "exited")
  /\ alljoyn' = (alljoyn /\ ~m_alljoynInitialized)
  /\ m_alljoynInitialized' = FALSE
  /\ UNCHANGED <<busVars, m_bridgeBusObjects, adapterVars, gaveUp>>

-----------------------------------------------------------------------------
(* The dispatcher of the ConfigManager's bus.                              *)

\* A peer joins at the port that is bound, the only one AcceptSessionJoiner
\* says yes to, and the dispatcher enters SessionJoined.
SessionJoined ==
  /\ Alive /\ connected /\ "port" \in held
  /\ joining = "none" /\ joining' = "joined"
  /\ UNCHANGED <<step, failed, alljoynVars, m_bus, connected, held, m_serviceName,
                 m_bridgeBusObjects, adapterVars, gaveUp>>

\* SetSessionListener; an error, such as a link that is gone, is an early
\* return.
SetSessionListener ==
  /\ Alive /\ joining = "joined"
  /\ joining' \in {"none"} \cup IF connected THEN {"listening"} ELSE {}
  /\ UNCHANGED <<step, failed, alljoynVars, m_bus, connected, held, m_serviceName,
                 m_bridgeBusObjects, adapterVars, gaveUp>>

\* SetLinkTimeout, whose error is logged, and the end of SessionJoined.
SetLinkTimeout ==
  /\ Alive /\ joining = "listening" /\ joining' = "none"
  /\ UNCHANGED <<step, failed, alljoynVars, m_bus, connected, held, m_serviceName,
                 m_bridgeBusObjects, adapterVars, gaveUp>>

-----------------------------------------------------------------------------
(* The adapter and the router.                                             *)

\* EnumDevices stores the devices in the caller's vector, which is gone once
\* the caller stopped waiting: then the process may crash.
AdapterStoresDevices ==
  /\ Alive /\ request["enumerate"] = "open"
  /\ request' = [request EXCEPT !["enumerate"] = "written"]
  /\ IF "enumerate" \in gaveUp
     THEN step' \in {step, "crashed"} /\ UNCHANGED devices
     ELSE devices' \in SUBSET Device /\ UNCHANGED step
  /\ UNCHANGED <<failed, alljoynVars, busVars, m_bridgeBusObjects, m_adapter,
                 initFailed, gaveUp>>

\* SetComplete, with any status; EnumDevices may also fail and store nothing.
AdapterCompletes(o) ==
  /\ Alive /\ request[o] \in {"open", "written"}
  /\ request' = [request EXCEPT ![o] = "done"]
  /\ IF o = "initialize" THEN initFailed' \in BOOLEAN ELSE UNCHANGED initFailed
  /\ UNCHANGED <<step, failed, alljoynVars, busVars, m_bridgeBusObjects, m_adapter,
                 devices, gaveUp>>

\* The router forgets all it held for the bus; BusDisconnected only logs.
LinkLost ==
  /\ Alive /\ connected
  /\ connected' = FALSE /\ held' = {}
  /\ UNCHANGED <<step, failed, alljoynVars, m_bus, m_serviceName, joining,
                 m_bridgeBusObjects, adapterVars, gaveUp>>

-----------------------------------------------------------------------------
Start ==
  \/ LoadAdapter \/ NothingToLoad
  \/ InitializeAllJoyn \/ LoadConfig
  \/ InitializeAdapter \/ AdapterInitialized \/ AdapterIsSlow
  \/ NamelessAdapter \/ StartBus \/ ConnectBus \/ RequestName \/ BindSessionPort \/ AdvertiseName
  \/ EnumDevices \/ Enumerated \/ EnumTimesOut
  \/ (\E d \in Device : CreateDevice(d)) \/ Initialized

Stop ==
  \/ (\E d \in Device : DestroyObject(d)) \/ ShutdownAdapter \/ AdapterIsDown
  \/ ShutdownManager \/ CancelAdvertiseName \/ UnbindSessionPort \/ ReleaseName
  \/ DisconnectBus \/ JoinBus \/ ShutdownAllJoyn

Callback == SetSessionListener \/ SetLinkTimeout

Over == ~Alive /\ UNCHANGED vars

\* A refused Shutdown is waited for for ever.
Hung == step = "downWait" /\ request["shutdown"] = "refused"

Next ==
  \/ Start \/ HitEnter \/ Stop
  \/ SessionJoined \/ Callback
  \/ AdapterStoresDevices \/ (\E o \in Operation : AdapterCompletes(o))
  \/ LinkLost
  \/ Over \/ (Hung /\ UNCHANGED vars)

Spec == Init /\ [][Next]_vars

\* main and a callback of the bus run, a Connect that is repeated succeeds in
\* the end, and an adapter that accepted Shutdown completes it. No other
\* request need be completed, no peer need join and nobody need hit enter.
Fairness ==
  /\ WF_vars(Start) /\ WF_vars(Stop) /\ WF_vars(Callback)
  /\ WF_vars(AdapterCompletes("shutdown"))

FairSpec == Spec /\ Fairness

-----------------------------------------------------------------------------
\* No BusAttachment, of the ConfigManager or of a BusObject, outlives AllJoyn
\* or is made before it, whichever step of Initialize fails.
BusesInsideAllJoyn == ~alljoyn => ~m_bus /\ m_bridgeBusObjects = {}

\* Whoever discovers the bridge can join it: what the router advertises has
\* its name and its session port, while it starts, stops or loses its link.
AdvertisedIsJoinable ==
  "advertisement" \in held => connected /\ {"name", "port"} \subseteq held

\* A BusObject exists, and can pass requests on, only between the adapter's
\* Initialize and its Shutdown.
ObjectsNeedAdapter ==
  m_bridgeBusObjects # {} =>
    /\ m_adapter # nullptr
    /\ request["initialize"] # "none" /\ request["shutdown"] = "none"

\* SessionJoined uses m_bus, whatever main does to the bus meanwhile.
CallbackHasBus == joining # "none" => m_bus

\* BusObjects live inside the life of the adapter, every BusAttachment inside
\* that of AllJoyn and a callback inside that of its BusAttachment, whichever
\* step fails, whatever answer is late and whoever joins meanwhile.
Nested == BusesInsideAllJoyn /\ ObjectsNeedAdapter /\ CallbackHasBus

\* A late answer of the adapter is never what stops a bridge that got so far
\* as to run: if it runs with an adapter that failed to initialise, that was
\* reported after the two seconds main waited, and a late EnumDevices can
\* crash only a bridge that has failed already.
LateAnswers ==
  /\ step = "running" /\ initFailed => "initialize" \in gaveUp
  /\ step = "crashed" => failed /\ "enumerate" \in gaveUp

\* The router takes the name of the bridge if the adapter's prefix is sound,
\* so that the start cannot fail for it: the encoders leave no empty element
\* and no digit at the beginning of one.
SoundNamesAreLegal ==
  m_bus /\ SoundPrefix(m_adapter.prefix) => LegalBusName(m_serviceName)

\* When the process ends in order, the router holds nothing for it, the
\* adapter has finished its Shutdown, and AllJoyn is shut down unless the
\* start had failed.
ExitsClean ==
  step = "exited" =>
    /\ held = {} /\ ~connected
    /\ m_adapter # nullptr => request["shutdown"] = "done"
    /\ alljoyn => failed

\* Whatever the adapter does, the start ends: it runs, or it fails.
Starts == step \in Starting ~> step \notin Starting

\* Once it stops, it ends, unless the adapter refused to shut down.
Stops == step \in Stopping ~> step \in Ended \/ Hung

-----------------------------------------------------------------------------
(* The inductive invariant of the proofs in Bridge_proof, in parts.        *)

\* The adapter has been told to start.
AfterInitialize == {"initWait", "name", "connect", "request", "bind", "advertise",
                    "enumerate", "enumWait", "create", "running"}

\* BusObjects exist only near the end of the start and until clear().
ObjectsInv ==
  /\ step \in AfterInitialize => m_adapter # nullptr /\ request["initialize"] # "none"
  /\ m_bridgeBusObjects # {} =>
       /\ step \in {"create", "running", "clear"} \cup {"terminated", "crashed"}
       /\ m_adapter # nullptr /\ request["initialize"] # "none"
  /\ step \in Starting \cup {"running", "clear", "terminated"} =>
       request["shutdown"] = "none"
  /\ m_bridgeBusObjects # {} => request["shutdown"] = "none"
  /\ step = "load" => m_adapter = nullptr
  /\ step \in {"manager", "unadvertise", "unbind", "release", "disconnect", "join",
               "alljoyn", "exited"} =>
       (m_adapter # nullptr => request["shutdown"] = "done")

\* Where AllJoyn is initialised, and who knows.
AllJoynInv ==
  /\ step \in (Starting \ {"load", "init"}) \cup {"running"} => alljoyn
  /\ step = "load" => ~alljoyn
  /\ step = "running" => m_alljoynInitialized
  /\ step \in Stopping /\ ~failed => m_alljoynInitialized
  /\ step \in {"load", "alljoyn", "exited"} => ~m_bus
  /\ step = "exited" => (alljoyn => failed)
  /\ "enumerate" \in gaveUp => failed

\* What the router holds and whom it calls at each step of the ConfigManager.
RouterInv ==
  /\ held # {} => connected
  /\ connected \/ step = "connect" \/ joining # "none" => m_bus
  /\ connected /\ step \in {"bind", "advertise"} => "name" \in held
  /\ connected /\ step = "advertise" => "port" \in held
  /\ step \in {"unbind", "release", "disconnect", "join"} => "advertisement" \notin held
  /\ step = "join" => ~connected

\* How the adapter's answers have turned out.
FailureInv ==
  /\ initFailed => request["initialize"] = "done"
  /\ step \in {"load", "init", "config", "adapter"} => request["initialize"] = "none"
  /\ step \in AfterInitialize \ {"initWait"} =>
       "initialize" \in gaveUp \/ (request["initialize"] = "done" /\ ~initFailed)
  /\ "enumerate" \in gaveUp => failed
  /\ step = "crashed" => "enumerate" \in gaveUp

\* A BusAttachment goes by the name that was built for it.
NameInv ==
  m_bus => /\ m_adapter # nullptr
           /\ CanBuildServiceName(m_adapter) /\ m_serviceName = BuildServiceName(m_adapter)
=============================================================================
