------------------------------ MODULE Requests -------------------------------
(***************************************************************************)
(* How a request of an AllJoyn client becomes a request of the adapter:    *)
(* BusObject::Get, Set and MethodHandler (src/bridge/BridgeBusObject.cpp), *)
(* run by the dispatcher thread of the object's bus, while main publishes  *)
(* other devices, and while it takes them down: Bridge::Shutdown and       *)
(* ~BusObject end the dispatcher before the object and the adapter go.     *)
(*                                                                         *)
(* The adapter is a plug-in behind adapter::Adapter: it may answer while   *)
(* it is called, later from a thread of its own, or never. It is external, *)
(* and so is AllJoyn, which gives each bus one dispatcher and no call      *)
(* before the object is registered. The IoRequest of a call is the one     *)
(* module Completion promises: ready says that it is done.                 *)
(*                                                                         *)
(* A definition whose name has an underscore is a slip the code could      *)
(* have; no action uses it. The properties tell it from the next one.      *)
(***************************************************************************)
EXTENDS Integers, FiniteSets

CONSTANTS
  Root,          \* root BusObjects, one per device
  Interface,     \* names of interfaces
  Member,        \* properties and methods
  Method,        \* those of them that are methods
  InterfaceOf,   \* the interface a member belongs to
  Members,       \* Members[r]: what the device of r defines
  Known,         \* interfaces every BusAttachment has from the start
  Call,          \* calls of clients, each made once
  Asks,          \* Asks[c]: what call c may ask for
  Nothing        \* no root, no interface, no call

ASSUME MemberAssumption ==
  /\ Method \subseteq Member /\ Known \subseteq Interface
  /\ InterfaceOf \in [Member -> Interface]
  /\ Members \in [Root -> SUBSET Member]
ASSUME NothingAssumption == Nothing \notin Root \cup Interface \cup Call

\* A client can ask a device for what its interfaces define.
Targets ==
  {t \in [root : Root, op : {"get", "set", "invoke"}, member : Member] :
     /\ t.member \in Members[t.root]
     /\ t.op = "invoke" <=> t.member \in Method}

ASSUME AsksAssumption == Asks \in [Call -> SUBSET Targets]

VARIABLES
  phase,         \* main publishes, unwinds a failed Publish, takes objects down,
                 \* has shut the adapter down
  published,     \* roots whose object is registered
  cur,           \* the root main is publishing, or could not publish
  left,          \* interfaces PublishInternal has not come to
  stopped,       \* roots whose bus has been told to stop
  freed,         \* roots whose bus was joined and whose object is gone
  inserting,     \* the interface main is inserting into s_interfaceCache
  s_interfaceCache, \* whose definition of an interface the cache holds
  target,        \* what each call asks for: a root, an operation, a member
  pc,            \* where the handler of each call is
  held,          \* whose definition the handler holds a reference to
  work,          \* what the adapter has done for the call
  ready,         \* calls whose IoRequest is done
  outcome,       \* what the client got
  got,           \* the value the adapter stored for a Get
  store,         \* the adapter's value of each property: the Set it is from
  stray,         \* history: calls whose variables the adapter wrote too late
  stale,         \* history: Sets that a later successful Set replaced
  before,        \* history: stale, and the finished Sets, when a call began
  crashed        \* the process died of undefined behaviour

publishVars == <<published, cur, left, inserting, s_interfaceCache>>
downVars == <<phase, stopped, freed>>
callVars == <<target, pc, held, outcome>>
adapterVars == <<work, ready, got, store, stray>>
historyVars == <<stale, before>>
vars == <<publishVars, downVars, callVars, adapterVars, historyVars, crashed>>

NoTarget == [root |-> Nothing, op |-> "none", member |-> Nothing]
InterfacesOf(r) == {InterfaceOf[m] : m \in Members[r]}
Wanted(c) == InterfaceOf[target[c].member]
Active(c) == pc[c] \in {"lookup", "adapter", "waiting"}

TypeOK ==
  /\ phase \in {"publish", "unwind", "clear", "down"}
  /\ stopped \subseteq Root /\ freed \subseteq Root
  /\ published \subseteq Root /\ cur \in Root \cup {Nothing}
  /\ left \subseteq Interface /\ inserting \in Interface \cup {Nothing}
  /\ s_interfaceCache \in [Interface -> Root \cup {Nothing}]
  /\ target \in [Call -> Targets \cup {NoTarget}]
  /\ pc \in [Call -> {"idle", "lookup", "adapter", "waiting", "returned"}]
  /\ held \in [Call -> Root \cup {Nothing}]
  /\ work \in [Call -> {"none", "pending", "served", "closed", "failed", "refused"}]
  /\ ready \subseteq Call
  /\ outcome \in [Call -> {"none", "ok", "fail", "silent"}]
  /\ got \in [Call -> Call \cup {Nothing}]
  /\ store \in [Member -> Call \cup {Nothing}]
  /\ stray \subseteq Call /\ stale \subseteq Call
  /\ before \in [Call -> [stale : SUBSET Call, done : SUBSET Call]]
  /\ crashed \in BOOLEAN

Init ==
  /\ phase = "publish" /\ stopped = {} /\ freed = {}
  /\ published = {} /\ cur = Nothing /\ left = {} /\ inserting = Nothing
  /\ s_interfaceCache = [i \in Interface |-> Nothing]
  /\ target = [c \in Call |-> NoTarget]
  /\ pc = [c \in Call |-> "idle"]
  /\ held = [c \in Call |-> Nothing]
  /\ work = [c \in Call |-> "none"]
  /\ ready = {}
  /\ outcome = [c \in Call |-> "none"]
  /\ got = [c \in Call |-> Nothing]
  /\ store = [m \in Member |-> Nothing]
  /\ stray = {} /\ stale = {}
  /\ before = [c \in Call |-> [stale |-> {}, done |-> {}]]
  /\ crashed = FALSE

-----------------------------------------------------------------------------
(* Main publishes one root after the other.                                *)

PublishInternal(r) ==
  /\ ~crashed /\ phase = "publish" /\ cur = Nothing /\ r \notin published
  /\ cur' = r /\ left' = InterfacesOf(r)
  /\ UNCHANGED <<downVars, published, inserting, s_interfaceCache, callVars, adapterVars,
                 historyVars, crashed>>

BeginInsert_Replaces(i) ==
  /\ ~crashed /\ i \in left \ Known /\ inserting = Nothing
  /\ inserting' = i
  /\ UNCHANGED <<downVars, published, cur, left, s_interfaceCache, callVars, adapterVars,
                 historyVars, crashed>>

\* BuildInterface of a name that is not cached: a std::map without a lock.
BeginInsert(i) ==
  /\ ~crashed /\ i \in left \ Known
  /\ s_interfaceCache[i] = Nothing /\ inserting = Nothing
  /\ inserting' = i
  /\ UNCHANGED <<downVars, published, cur, left, s_interfaceCache, callVars, adapterVars,
                 historyVars, crashed>>

\* The name is cached. BuildInterface then creates the interface on the bus;
\* what its description says of members is not modelled.
EndInsert ==
  /\ ~crashed /\ inserting # Nothing
  /\ s_interfaceCache' = [s_interfaceCache EXCEPT ![inserting] = cur]
  /\ left' = left \ {inserting} /\ inserting' = Nothing
  /\ UNCHANGED <<downVars, published, cur, callVars, adapterVars, historyVars, crashed>>

\* The bus knows the interface, or the cache has the name already.
SkipInterface(i) ==
  /\ ~crashed /\ i \in left /\ inserting = Nothing
  /\ i \in Known \/ s_interfaceCache[i] # Nothing
  /\ left' = left \ {i}
  /\ UNCHANGED <<downVars, published, cur, inserting, s_interfaceCache, callVars,
                 adapterVars, historyVars, crashed>>

RegisterBusObject_First ==
  /\ ~crashed /\ phase = "publish" /\ cur \notin published \cup {Nothing}
  /\ published' = published \cup {cur}
  /\ UNCHANGED <<downVars, cur, left, inserting, s_interfaceCache, callVars,
                 adapterVars, historyVars, crashed>>

\* AnnounceAndRegister: from here on the dispatcher calls the object.
RegisterBusObject ==
  /\ ~crashed /\ phase = "publish" /\ cur \notin published \cup {Nothing} /\ left = {}
  /\ published' = published \cup {cur}
  /\ UNCHANGED <<downVars, cur, left, inserting, s_interfaceCache, callVars, adapterVars,
                 historyVars, crashed>>

\* The children are registered too, the object is announced.
Announce ==
  /\ ~crashed /\ phase = "publish" /\ cur \in published
  /\ cur' = Nothing
  /\ UNCHANGED <<downVars, published, left, inserting, s_interfaceCache, callVars,
                 adapterVars, historyVars, crashed>>

\* AllJoyn refuses a step of Publish, before the object is registered or after:
\* the exception destroys the object, alone, before main catches it.
PublishFails ==
  /\ ~crashed /\ phase = "publish" /\ cur # Nothing /\ inserting = Nothing
  /\ phase' = "unwind" /\ left' = {}
  /\ UNCHANGED <<cur, published, stopped, freed, inserting, s_interfaceCache, callVars,
                 adapterVars, historyVars, crashed>>

\* main calls exit(1). gBridge is destroyed like after enter, or the statics of
\* BridgeBusObject.cpp are first: their thread still serves the other objects
\* and std::unique_ptr meets a joinable std::thread.
ExitOnError ==
  /\ ~crashed /\ phase = "unwind" /\ cur \notin published \ freed
  /\ phase' = "clear" /\ cur' = Nothing
  /\ crashed' \in {FALSE, published # freed}
  /\ UNCHANGED <<published, left, stopped, freed, inserting, s_interfaceCache, callVars,
                 adapterVars, historyVars>>

-----------------------------------------------------------------------------
(* Main takes down what it published: Bridge::Shutdown and ~BusObject.     *)

\* getchar() returns.
HitEnter ==
  /\ ~crashed /\ phase = "publish" /\ published = Root /\ cur = Nothing
  /\ phase' = "clear"
  /\ UNCHANGED <<publishVars, stopped, freed, callVars, adapterVars, historyVars, crashed>>

\* m_bridgeBusObjects.clear(), one object at a time, or the object that could not
\* be published: the dispatcher of r takes no call from here on.
StopBus(r) ==
  /\ ~crashed /\ (phase = "clear" \/ (phase = "unwind" /\ r = cur))
  /\ r \in published \ stopped /\ stopped = freed
  /\ stopped' = stopped \cup {r}
  /\ UNCHANGED <<phase, freed, publishVars, callVars, adapterVars, historyVars, crashed>>

FreeObject_Unjoined(r) ==
  /\ ~crashed /\ r \in stopped \ freed
  /\ freed' = freed \cup {r}
  /\ UNCHANGED <<phase, stopped, publishVars, callVars, adapterVars, historyVars, crashed>>

\* Join returns when the handler that is running has; the object is destroyed.
FreeObject(r) ==
  /\ ~crashed /\ r \in stopped \ freed
  /\ \A c \in Call : Active(c) => target[c].root # r
  /\ freed' = freed \cup {r}
  /\ UNCHANGED <<phase, stopped, publishVars, callVars, adapterVars, historyVars, crashed>>

ShutdownAdapter_Drains ==
  /\ ~crashed /\ phase = "clear" /\ freed = published
  /\ \A c \in Call : work[c] \notin {"pending", "served"}
  /\ phase' = "down"
  /\ UNCHANGED <<stopped, freed, publishVars, callVars, adapterVars, historyVars, crashed>>

\* m_adapter->Shutdown. Calls the handlers gave up on may still be pending.
ShutdownAdapter ==
  /\ ~crashed /\ phase = "clear" /\ freed = published
  /\ phase' = "down"
  /\ UNCHANGED <<stopped, freed, publishVars, callVars, adapterVars, historyVars, crashed>>

-----------------------------------------------------------------------------
(* A handler, from its call by the dispatcher to its return.               *)

Finished == {c \in Call : outcome[c] = "ok" /\ target[c].op = "set"}

\* The dispatcher of t.root is free and takes the next call.
Dispatch(c, t) ==
  /\ ~crashed /\ pc[c] = "idle" /\ t \in Asks[c]
  /\ t.root \in published \ stopped
  /\ \A d \in Call : Active(d) => target[d].root # t.root
  /\ target' = [target EXCEPT ![c] = t]
  /\ pc' = [pc EXCEPT ![c] = "lookup"]
  /\ before' = [before EXCEPT ![c] = [stale |-> stale, done |-> Finished]]
  /\ UNCHANGED <<publishVars, downVars, held, outcome, adapterVars, stale, crashed>>

\* The handler returns; Get and Set always reply, MethodHandler only on "ok".
Return(c, result) ==
  /\ pc' = [pc EXCEPT ![c] = "returned"]
  /\ outcome' = [outcome EXCEPT ![c] =
       IF result = "fail" /\ target[c].op = "invoke" THEN "silent" ELSE result]

\* s_interfaceCache.find finds the interface, FindProperty or FindMethod the
\* member; the adapter is called with a new IoRequest.
CallAdapter(c) ==
  /\ ~crashed /\ pc[c] = "lookup"
  /\ s_interfaceCache[Wanted(c)] # Nothing
  /\ target[c].member \in Members[s_interfaceCache[Wanted(c)]]
  /\ held' = [held EXCEPT ![c] = s_interfaceCache[Wanted(c)]]
  /\ pc' = [pc EXCEPT ![c] = "adapter"]
  /\ work' = [work EXCEPT ![c] = "pending"]
  /\ UNCHANGED <<publishVars, downVars, target, outcome, ready, got, store, stray,
                 historyVars, crashed>>

CacheMiss(c) ==
  /\ ~crashed /\ pc[c] = "lookup" /\ s_interfaceCache[Wanted(c)] = Nothing
  /\ Return(c, "fail")
  /\ UNCHANGED <<publishVars, downVars, target, held, adapterVars, historyVars, crashed>>

\* find runs into main's insert, or the cached definition is of a device
\* that lacks the member and the null result of the find is dereferenced.
LookupCrash(c) ==
  /\ ~crashed /\ pc[c] = "lookup"
  /\ \/ inserting # Nothing
     \/ /\ s_interfaceCache[Wanted(c)] # Nothing
        /\ target[c].member \notin Members[s_interfaceCache[Wanted(c)]]
  /\ crashed' = TRUE
  /\ UNCHANGED <<publishVars, downVars, callVars, adapterVars, historyVars>>

\* The adapter's call returns 0 and the handler waits ten seconds at most.
BeginWait(c) ==
  /\ ~crashed /\ pc[c] = "adapter"
  /\ pc' = [pc EXCEPT ![c] = "waiting"]
  /\ UNCHANGED <<publishVars, downVars, target, held, outcome, adapterVars, historyVars,
                 crashed>>

\* The adapter's call returns an error: it will not touch the request.
AdapterRefuses(c) ==
  /\ ~crashed /\ pc[c] = "adapter" /\ work[c] = "pending"
  /\ work' = [work EXCEPT ![c] = "refused"]
  /\ Return(c, "fail")
  /\ UNCHANGED <<publishVars, downVars, target, held, ready, got, store, stray,
                 historyVars, crashed>>

\* The Sets that c replaces, unless the adapter completed it without serving it.
Replaced(c) ==
  IF target[c].op = "set" /\ work[c] # "failed"
  THEN {d \in before[c].done : target[d].member = target[c].member} ELSE {}

WaitSucceeds_Unasked(c) ==
  /\ ~crashed /\ pc[c] = "waiting"
  /\ Return(c, "ok")
  /\ stale' = stale \cup Replaced(c)
  /\ UNCHANGED <<publishVars, downVars, target, held, adapterVars, before, crashed>>

\* Wait returns true. GetStatus is not asked.
WaitSucceeds(c) ==
  /\ ~crashed /\ pc[c] = "waiting" /\ c \in ready
  /\ Return(c, "ok")
  /\ stale' = stale \cup Replaced(c)
  /\ UNCHANGED <<publishVars, downVars, target, held, adapterVars, before, crashed>>

WaitTimesOut_Never(c) == FALSE   \* Wait() without a period
WaitTimesOut_Blind(c) ==
  /\ ~crashed /\ pc[c] = "waiting"
  /\ Return(c, "fail")
  /\ UNCHANGED <<publishVars, downVars, target, held, adapterVars, historyVars, crashed>>

WaitTimesOut(c) ==
  /\ ~crashed /\ pc[c] = "waiting" /\ c \notin ready
  /\ Return(c, "fail")
  /\ UNCHANGED <<publishVars, downVars, target, held, adapterVars, historyVars, crashed>>

-----------------------------------------------------------------------------
(* The adapter, on the handler's thread or on its own.                     *)

\* It does what was asked. Get and MethodHandler passed a local variable for
\* the result; once they returned, storing there may corrupt or crash.
Serve(c) ==
  /\ ~crashed /\ work[c] = "pending"
  /\ work' = [work EXCEPT ![c] = "served"]
  /\ store' = IF target[c].op = "set"
              THEN [store EXCEPT ![target[c].member] = c] ELSE store
  /\ got' = IF target[c].op = "get"
            THEN [got EXCEPT ![c] = store[target[c].member]] ELSE got
  /\ IF pc[c] = "returned" /\ target[c].op # "set"
     THEN stray' = stray \cup {c} /\ crashed' \in BOOLEAN
     ELSE UNCHANGED <<stray, crashed>>
  /\ UNCHANGED <<publishVars, downVars, callVars, ready, historyVars>>

\* SetComplete or Cancel, perhaps without having served the call.
Complete(c) ==
  /\ ~crashed /\ work[c] \in {"pending", "served"}
  /\ work' = [work EXCEPT ![c] = IF @ = "served" THEN "closed" ELSE "failed"]
  /\ ready' = ready \cup {c}
  /\ UNCHANGED <<publishVars, downVars, callVars, got, store, stray, historyVars, crashed>>

-----------------------------------------------------------------------------
Publish ==
  \/ EndInsert \/ RegisterBusObject \/ Announce \/ PublishFails
  \/ \E r \in Root : PublishInternal(r)
  \/ \E i \in Interface : BeginInsert(i) \/ SkipInterface(i)

TakeDown ==
  ExitOnError \/ (\E r \in Root : StopBus(r) \/ FreeObject(r)) \/ ShutdownAdapter

\* Get, Set and MethodHandler are the same but for how they reply.
Handle(c) == CallAdapter(c) \/ CacheMiss(c) \/ LookupCrash(c) \/ BeginWait(c)
          \/ AdapterRefuses(c) \/ WaitSucceeds(c) \/ WaitTimesOut(c)

\* The process ends, by itself or not.
Over == (crashed \/ phase = "down") /\ UNCHANGED vars

Next ==
  \/ Publish \/ HitEnter \/ TakeDown
  \/ \E c \in Call : \/ Handle(c) \/ Serve(c) \/ Complete(c)
                     \/ \E t \in Targets : Dispatch(c, t)
  \/ Over

Spec == Init /\ [][Next]_vars

\* Dispatchers run, an adapter's call returns, ten seconds pass and main runs
\* the destructors; the adapter need neither serve nor complete anything.
Fairness == WF_vars(TakeDown) /\ \A c \in Call : WF_vars(Handle(c))

FairSpec == Spec /\ Fairness

-----------------------------------------------------------------------------
\* Whatever the adapter does or fails to do, a handler returns: a Get or a Set
\* is answered, and the dispatcher is free for the next call.
HandlersReturn == \A c \in Call : Active(c) ~> pc[c] = "returned" \/ crashed

\* Once main has begun to take objects down, after enter or because publishing
\* one failed, it comes to the adapter's Shutdown, though Join waits for handlers
\* that wait for the adapter.
TakesDown == phase \in {"unwind", "clear"} ~> phase = "down" \/ crashed

\* A handler runs, and calls the adapter, only while its object exists and
\* before the adapter is shut down.
HandlersInsideObject ==
  \A c \in Call : Active(c) => target[c].root \in published \ freed /\ phase # "down"

\* No client of a registered device is told that its interface is not in the
\* cache, but for interfaces the bus had by itself.
RegisteredIsCached ==
  \A c \in Call : pc[c] = "lookup" =>
    Wanted(c) \in Known \/ s_interfaceCache[Wanted(c)] # Nothing

\* The cached Interface a handler refers to across its wait stays the same
\* object, though main keeps publishing devices with interfaces of that name.
PinnedInterface ==
  \A c \in Call : pc[c] \in {"adapter", "waiting"} =>
    s_interfaceCache[Wanted(c)] = held[c]

\* The adapter writes into a returned handler's variables only if that handler
\* gave up on it; no call that was answered "ok" is affected.
StrayAfterTimeout == \A c \in stray : outcome[c] \in {"fail", "silent"}

\* A Get never returns the value of a Set that was answered before another Set
\* of the property began, when the adapter served that one and it was answered
\* before the Get began. (The value of a Set that timed out may turn up later.)
NoStaleRead ==
  \A c \in Call : outcome[c] = "ok" /\ target[c].op = "get" =>
    got[c] \notin before[c].stale

\* What the Wait of each handler returned, if it came to that.
WaitAnswer(c) ==
  IF pc[c] # "returned" \/ work[c] \in {"none", "refused"} THEN "none"
  ELSE IF outcome[c] = "ok" THEN "true" ELSE "false"

Promise(c) == INSTANCE Completion
  WITH Waiter <- {c}, Timed <- {c}, done <- c \in ready, answer <- [w \in {c} |-> WaitAnswer(c)]

\* Handlers and adapter use the IoRequest of a call as Completion describes it,
\* which is what module IoRequest implements.
UsesCompletion ==
  /\ \A c \in Call : Promise(c)!Init
  /\ [][\A c \in Call : [Promise(c)!Next]_<<c \in ready, WaitAnswer(c)>>]_vars

-----------------------------------------------------------------------------
(* The inductive invariant of the proofs in Requests_proof, in parts.      *)

\* What main has done with each root, and that it has no calls before and after.
RootInv ==
  /\ freed \subseteq stopped /\ stopped \subseteq published
  /\ phase \in {"clear", "down"} => cur = Nothing
  /\ phase = "down" => freed = published
  /\ \A c \in Call : pc[c] # "idle" => target[c] \in Targets
  /\ \A c \in Call : Active(c) => target[c].root \in published \ freed

\* Interfaces are cached before a root is registered, and nothing is replaced.
CacheInv ==
  /\ left # {} => phase = "publish" /\ cur \notin published \cup {Nothing}
  /\ inserting # Nothing => inserting \in left /\ s_interfaceCache[inserting] = Nothing
  /\ phase = "publish" /\ cur # Nothing =>
       \A i \in InterfacesOf(cur) \ (Known \cup left) : s_interfaceCache[i] # Nothing
  /\ \A r \in published : \A i \in InterfacesOf(r) \ Known : s_interfaceCache[i] # Nothing
  /\ \A c \in Call : pc[c] \in {"adapter", "waiting"} =>
       held[c] # Nothing /\ held[c] = s_interfaceCache[Wanted(c)]

\* How far the adapter is with a call, and what its handler can know of it.
AnswerInv ==
  \A c \in Call :
    /\ c \in ready <=> work[c] \in {"closed", "failed"}
    /\ pc[c] \in {"idle", "lookup"} => work[c] = "none"
    /\ pc[c] \in {"adapter", "waiting"} => work[c] \notin {"none", "refused"}
    /\ pc[c] = "returned" <=> outcome[c] # "none"
    /\ outcome[c] = "ok" => c \in ready
    /\ c \in stray => outcome[c] \in {"fail", "silent"}

\* Where the value of a Set can be, once another one has replaced it.
StoreInv ==
  /\ \A m \in Member : store[m] # Nothing =>
       target[store[m]].member = m /\ work[store[m]] \in {"served", "closed"}
  /\ stale \subseteq Finished
  /\ \A d \in stale : store[target[d].member] # d
  /\ \A c \in Call : before[c].stale \subseteq stale /\ before[c].done \subseteq Finished
  /\ \A c \in Call : target[c].op = "set" /\ work[c] \in {"served", "closed"} =>
       \A d \in before[c].done :
         target[d].member = target[c].member => store[target[d].member] # d
  /\ \A c \in Call : got[c] \notin before[c].stale
  /\ \A c \in Call : work[c] \in {"none", "pending"} => got[c] = Nothing
=============================================================================
