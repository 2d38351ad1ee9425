# A TLA+ model of portabledsb

portabledsb bridges devices of other networks to AllJoyn: an adapter (a shared
library) enumerates devices and serves their properties and methods, and the
bridge publishes each device on a BusAttachment of its own. This directory holds
TLA+ models of the program, configurations that check them with TLC, and theorems
checked with TLAPS. Paths below are relative to `src/`.

## 1. The system

### Components

| Component | State | Operations | Talks to |
|---|---|---|---|
| `main` (`main.cpp`) and Loader (`common/AdapterLoader.*`) | the adapter, the `gBridge` singleton | load the adapter, `Bridge::Initialize`, wait for enter, `ReleaseSingleton`; `exit(1)` on an exception | Bridge |
| Bridge (`bridge/Bridge.cpp`) | `m_bridgeBusObjects`, `m_adapter`, `m_alljoynInitialized` | `Initialize`, `InitializeDevices`, `CreateDevice`, `Shutdown` | adapter (calls and IoRequests), ConfigManager, BusObject |
| ConfigManager (`bridge/ConfigManager.cpp`) | its own BusAttachment, name, session port | `Initialize`, `BuildServiceName`, `ConnectToAllJoyn`, `ShutdownAllJoyn`, `SessionJoined`, `BusDisconnected` | router, BridgeConfig |
| BusObject (`bridge/BridgeBusObject.cpp`) | per device: `m_bus`, listeners, children, about data. Static: `reconnectThread`, `reconnectMutex`, `reconnectList`, `reconnectRefcount`, `reconnectShutdown`, `reconnectErrorState`, `s_interfaceCache` | constructors, `BuildFromAdapterDevice`, `PublishInternal`, `~BusObject`, `BusDisconnected`, `reconnectFunction`, `Get`, `Set`, `MethodHandler` | AllJoyn, adapter |
| IoRequest (`common/AdapterIoRequest.h`) | status and two flags under a mutex, a condition variable | `Wait` with and without a period, `SetComplete`, `Cancel` | joins bridge threads and adapter threads |
| Value (`common/Value.*`) | a type, a union, an array size | construction, assignment, destruction, conversion, `operator<` | everywhere |
| AllJoynHelper (`bridge/AllJoynHelper.*`) | none | Value to MsgArg and back, signatures, encoders of names | BusObject |
| Mock adapter (`adapters/mock`) | `valueCache`, devices | the Adapter interface | Bridge, BusObject |
| BridgeConfig (`bridge/BridgeConfig.cpp`) | an XML document and the name of its file | `FromFile`, `ToFile`, `AddObject`, `RemoveObject`, `FindObject` | ConfigManager |
| Log (`common/AdapterLog.*`) | loggers, their levels, a default level, under one mutex | `GetLog`, `IsLevelEnabled`, `Write`, `SetLevel`, `SetDefaultLevel` | every thread |
| AllJoynAbout, data model, errors | small | see `PROJECT.json` | |

### Threads and where they meet

* **main** builds, waits and destroys everything.
* **The dispatcher of each BusAttachment** (AllJoyn) runs `Get`, `Set`,
  `MethodHandler` and `BusDisconnected` of its bus.
* **The reconnect thread**, one for all BusObjects, waits on `reconnectCond` and
  sweeps `reconnectList`.
* **The adapter's threads** complete IoRequests and write the results.

They meet at `reconnectMutex`, at the mutex of each IoRequest, at that of the log,
and without any lock at `s_interfaceCache`, at the locals the handlers pass to the adapter and at
the raw pointers in `reconnectList`.

### What is hard, and what makes each part correct

* BusObject: a link may be lost while the thread sweeps the list, while the
  destructor runs, while other buses fail. Correct: a lost bus is never forgotten
  and never queued twice, failed connects are throttled but repeated, teardown
  excludes sweeps, the thread lives as long as the objects that need it, and the
  program ends.
* Handlers: an adapter may answer at once, in eleven seconds or never, while main
  still publishes. Correct: each handler returns, the references it holds stay what
  they were, late writes concern only calls that were given up, no stale values; and
  main, which takes objects and adapter down, waits for handlers but not for ever.
* IoRequest: a completion races with the test, the sleep and the deadline.
  Correct: no lost wakeup, no false timeout.
* Bridge and ConfigManager: every step of the start may throw, waits may run out,
  the router may go away, a peer may join while main stops. Correct: whatever was
  built is taken down in order, and what is advertised can be joined.
* Value: a union whose bytes outlive its type. Correct: it shows what was assigned,
  owns its memory alone, and is ordered by value.
* AllJoynHelper and the mock adapter: correct if a client reads what was written and
  no call ends the process.
* Log: three calls make one message, each with the mutex on its own. Correct: lines do
  not mix, a level counts from the moment it is set, and no call keeps the mutex.
* BridgeConfig: files may not parse, writes may fail unnoticed, an Id may be added
  twice. Correct: nothing removed or outdated is found, no file is overwritten by
  another's document.

`PROJECT.json` lists the hazards one by one, each at its line, with the properties
that would catch it.

## 2. Modules

Each module models control completely and data as far as the properties need.
Composition follows the code: what one component needs of another is an action of
its own or a property proved of the other (`Completion` for IoRequest; the one-step
BusObjects of `Bridge` stand for what `BusObject` does; one-step calls of
`Properties` for what `Requests` does). `Requests` uses `Completion` for each call and
is shown to use it as it allows; `Bridge` extends `Names`.

Definitions whose name has an underscore (`RcReturn_Continues`) are slips the code
could have, written next to the definition they would replace. No action uses them.
They are there to see that every property fails when the code has such a slip.

### BusObject.tla (abstract: PersistentBus.tla)

`bus`, `connected`, `listening` and `callback` describe each device's
BusAttachment; `reconnectMutex` .. `reconnectList` are the static variables of the
file; `rc` is the program counter of `reconnectFunction`, `pc` that of main in a
constructor or destructor. Each destructor step is an action, since the mutex stays
locked from `DtorLock` to `DtorTeardown` except on the path that joins the thread.
Children (`m_children`) drop a reference they never took, so `reconnectRefcount` wraps
around; it is counted modulo `RefModulus`. A bus may be in the list more than once
(`reconnectList[d]` counts), a sweep goes over what was there when it began
(`todo`), which is exact because pushes need the mutex. `wait_until` is `RcTimeout`,
`RcWoken` and the predicate `WorkPending`. AllJoyn is external: links are lost
and Connects fail at any time; UnregisterBusListener waits for running callbacks,
which the destructor relies on, as it frees the listener next.

`PersistentBus` is the reconnecting BusAttachment that the comment above
`reconnectFunction` asks for: new, up, lost, queued, up again, closed. `Link` maps
threads, list and mutex to it.

### IoRequest.tla (abstract: Completion.tla)

One action per step of `Wait`, `SetComplete` and `Cancel`. The wait set is explicit
(asleep, woken), sleeping and unlocking are one step, notification is a step after
the unlock, spurious wakeups and deadlines come at any time. `Completion` is what
users rely on: once done, done for ever, each Wait is answered once, with false only
before it is done (or always, without a period, as the code returns 0).

### Requests.tla

A call goes lookup, adapter, waiting, returned; main goes on publishing
(`BeginInsert`, `EndInsert`: an insertion into `std::map` takes time). The adapter
serves and completes calls at any time or never (`Serve`, `Complete`), completes them
unserved or refuses them (`AdapterRefuses`). A lookup
during an insertion, a member that the cached definition lacks and a late
write into a returned handler's stack are undefined behaviour: the process may end.
Then main takes down what it published (`phase`): `StopBus` and `FreeObject` are the
part of `~BusObject` that handlers feel, one object after the other, Join waiting for
the handler that runs; `ShutdownAdapter` follows. `AnnounceAndRegister` is two steps:
from `RegisterBusObject` on the dispatcher calls the object, `Announce` ends its
publication. `PublishFails` is the exception of a step of `Publish`, before the first or
between them: it destroys the one object (`phase` "unwind"), then `ExitOnError` goes on
from `exit(1)` with the others. `stale` and `before`
remember which Sets had been replaced when a call began.

### Bridge.tla (with Names.tla)

`step` is main's place in `main`, `Initialize`, `Shutdown` and `exit`. Every step that
can throw has a second disjunct `Throws`. `m_adapter` is what the Loader created, null
or an adapter with a prefix and a name. `request` follows the IoRequests of the
adapter's Initialize, EnumDevices and Shutdown, which may complete late, with any
status or never. `held` is what the router has for the ConfigManager's bus and
forgets when the link is lost; it takes nothing for a name that is not legal.
`joining` is how far the dispatcher of that bus is in `SessionJoined`, which main may
overtake until `JoinBus`.

`Names` has `BuildServiceName` and the encoders it uses over sequences of classes of
characters: each is its loop (`ForEach`) with what its body does to the string it builds,
in which the variable `curr` is the last character. What the router accepts
(`LegalBusName`) is the reference.

### Value.tla

`m_data` has the three members of `Data`, and `heap` the blocks that `new` returned.
The union is two digits, so that a narrow number leaves the high digit of a wide
one in place and a pointer can be taken for a number and a number for a pointer.
`UInt8` and `Int16` stand for the narrow types, `Int64` for the wide ones; a negative
number is its two's complement in the digits of its type. `Number` is what `operator<`
reads of them, `v_uint64`, and `Meaning`, by the sign of the type, is the reference.
`AssignFrom` is a step with one disjunct per case of the switch; using or freeing
memory that is not what the code takes it for sets `broken`.

### Properties.tla

`MsgArgToValue` and `ValueToMsgArg` give the set of results: none when an assertion
fails, several when the conversion is undefined (`ToDouble`, out of the range of
uint16_t). `Set` and `Get` are the calls of a client through BusObject to the mock
adapter, whose `valueCache` is the state. `Invoke` is a call of a method from its
arguments to its reply: one argument is converted, and the reply has as many as `NumArgs`
counts, one of them known. The mock adapter answers no method, so that what an adapter
returns (`Outcomes`) is external.

### BridgeConfig.tla

The program itself only calls `FromFile` (`LoadConfig` of `Bridge`); the module has
the whole class, its methods called in any order, as the calls in `main.cpp` do that
are compiled out. `m_doc` gives each element a place (`Node`), `disk` is what
the files hold, `obj` the object a caller keeps between calls: `FindObject` leaves
an XPath expression in its Id, and the caller may add it as it is. libxml2 is
external: a file being written may be left whole, cut off or as it was.

### Log.tla (abstract: Journal.tla)

`pc` is each thread's place in a DSBLOG: `GetLog`, `IsLevelEnabled`, and `Write` in the
three pieces it prints while it holds the mutex. A message of libxml2 goes from `GetLog`
to `Write` at once (`Relayed`). Levels change at any time. The output is a list of lines,
each the pieces between two newlines. `Journal` has no mutex and no pieces: a call is
begun, named, granted or refused, printed.

## 3. Runs

| Run | Instance | Shows |
|---|---|---|
| `bus_one` | one device, three children (the mock's power strip), `RefModulus` 8 | the thread never touches a freed bus, and after enter the process ends in good order |
| `bus_two` | two devices, one with a child, `RefModulus` 4 | links accounted for, teardown excludes sweeps, the thread lives as long as the count is exact, throttling, reconnection, a stopped bridge joins its thread, `PersistentBus` implemented, and exactly one way to block for ever |
| `bus_stops` (violated) | the same | that way: see the findings |
| `io_request` | two timed waiters, one without a period, two completers | no lost wakeup, true timeouts, release, `Completion` implemented |
| `requests` | two devices that share an interface, one that has another beside it, three calls | handlers run only while their object is there and return, teardown gets through, cached references stay, no stale reads, stray writes follow timeouts only, `Completion` used as it allows |
| `bridge` | two devices, adapters of seven prefixes and two names | order of start and stop, clean exit, both end; sound prefixes give legal names |
| `value_mixed` | two objects, two blocks, literals of five types with negative numbers, the null string and the empty array | objects show what they were given and are ordered by value, numbers as said in 5; safe and unshared while they keep to one type |
| `value_numbers` (violated) | narrow and wide numbers | leftover bytes decide `operator<` |
| `value_strings` (violated) | texts and null strings | a null string is not copied |
| `properties` | a property of each kind, three methods | what is read is what was set, what methods are given and return arrives; only arrays, or no argument, end the process |
| `bridge_config` | one Id, two elements, two files | what is found is current; a document is written back to its own file only |
| `log` | two threads, two loggers, three levels, two lines and the one that is begun | `Journal` implemented; every DSBLOG ends |

### Bounds, and why they are enough

* Two devices are enough for one bus to be torn down, swept, failing or lost while
  another is: the code never relates three. `reconnectList` is not bounded by a
  constant: a bus is reported once per lost link and only the thread connects it
  again, so it is there once (`LinkAccounted`, proved).
* `RefModulus` stands for 2^64; it only has to be larger than the number of BusObjects,
  roots and children, each of which takes a reference away once: so the count can wrap
  below zero, as it does in the runs, but not all the way round to zero again.
* Two waiters on each side of each race, two completers so that `Cancel` and
  `SetComplete` overtake each other. Each thread calls once: `Wait` keeps no state.
* Three calls: a Set that times out, a later Set, a Get. Two devices, so that main
  publishes the second while the first is called, and destroys the first while a handler of the
  second runs.
* The prefixes of `bridge` have each class of character where an encoder tells it from
  another: in front, after a dot, alone, between dots.
* Two threads interleave at every piece of a line; `MaxLines` bounds when calls begin, and
  two lines are enough for a level to change before, between and after.
* Two objects and two blocks: copies, and both own memory; when both blocks are
  taken, an allocation waits (the code would get a third block; nothing the
  properties say depends on it, since a block more than owners would be the leak
  that `OwnedOnce` excludes).
* `Half` is 2: a digit is 0 to 3, so that each half of the union may have its highest bit
  set, in more than one number. Objects are interchangeable like blocks, hence the symmetry.
* `UInt16Size` is 4, with doubles counted in halves, so that a small integer is
  outside uint16_t and one and a half is not whole.

* One Id of BridgeConfig: an expression selects by one Id, and elements of different
  Ids meet only in that a document holds both, which the Id that `FindObject` leaves
  behind already does. Two elements are the first case of an Id that is there twice; an
  `AddObject` beyond the bound waits. Elements are interchangeable, hence the symmetry.

### Fairness

* `bus_*`: the reconnect thread and dispatchers are scheduled (weak fairness of
  each step, strong where a step needs the mutex that others take again and
  again), deadlines pass, a Connect tried again and again succeeds in the end, and
  main's constructor and destructor steps go on. Losing a link and hitting enter
  are never assumed.
* `io_request`: the mutex is held for a few instructions (`SF(Wait)`), time passes,
  a completer that changed the flags also notifies. No completion is assumed.
* `requests`: a handler goes on: dispatchers run, calls of the adapter
  return, ten seconds pass; and main runs its destructors. The adapter never has to
  serve or complete, nobody has to hit enter.
* `log`: `SF(Runs)`: a thread gets a mutex that is free again and again. No thread has
  to log.
* `bridge`: main and a callback that has begun run, a Connect that is repeated succeeds, and an adapter that
  accepted Shutdown completes it, the only wait without a deadline. A refused
  Shutdown, which the code ignores, is a final state of its own (`Hung`).

Deadlock is checked in every run. Ends of the program are self-loops (`Over`, `Ended`,
`Returned`), and so are the two states in which it may really stay for ever (`Hung`,
`Blocked`): TLC reports any other state without a step.

## 4. Findings

* **The program may not stop** (`bus_stops`). `README.md:59` has it remain "until you
  hit enter". `~BusObject` of one that is not the last keeps `reconnectMutex`
  (`bridge/BridgeBusObject.cpp:138`) while `UnregisterBusListener` (line 155) waits
  for a `BusDisconnected` of that bus, which waits for the mutex (line 446).
* **Leftover bytes order numbers** (`value_numbers`). `Tests/VariantTest.cpp:169-170`
  reuses objects of wider numbers and expects order by value;
  `common/Value.cpp:519` compares all eight bytes of the union.
* **A null string is not copied** (`value_strings`). `Tests/VariantTest.cpp:122-123`
  expects a copy to show what its source shows; `common/Value.cpp:368` leaves the old
  text when the source has none.

What the models also show, and no document speaks about: with several devices a
bus may be destroyed while its entry is in `reconnectList` (`RcTouchFreed`); with
children the thread ends before its last user; `s_interfaceCache` is read
while it is written; `operator<` takes a negative number for greater than one that is
not, as it compares them unsigned (`NegativesAreGreater`); doubles are cut to uint16_t by `Value::ToDouble`; a request the
adapter cancelled or failed is answered ER_OK; a default attribute of another type than
its property (`ZigBeeClusterDatabase.cpp:94`, an int literal for a UInt8) is replied
as it is, as `MockAdapter.cpp:191` leaves types to the bridge, which does not look; an
Id that is in the configuration twice can be neither found nor removed; a method
without arguments is handed a null pointer, and the reply of an array has as many arguments as the array
elements, read from behind the only one there is; a prefix with a leading digit or adjoining
dots gives the bridge a name that is not legal, and it does not start.

## 5. Proofs

The theorems hold for every value of the constants that satisfies the named
assumptions (finitely many devices, fewer BusObjects than `RefModulus`; status 0 exists; ...).

* **BusObject_proof**. The inductive invariant has named parts: `LinkInv` (a published
  bus is in exactly one of three places: connected, in a callback, in the list;
  the step needs to know how often it is in the list and what a constructor or
  destructor has done), `ClosedInv` (what is stopped has no listener, so no
  callback brings it back), `MutexInv` (who holds the mutex, and that a destructor
  that does not has joined the thread), `ThrottleInv` (a bus that failed is remembered
  by `reconnectErrorState` until the deadline, and the sweep under way has passed it).
  They give `LinkAccounted`, `TeardownExclusive` and `Throttled`. `CountInv` has
  the count equal the number of live roots until a BusObject with children is torn
  down, and the thread alive as long as the count is not zero; it gives
  `ServedWhileLive`. `Refinement` proves `PersistentBus`, one step or a stutter for
  each action. `RefInv` holds for any children: as long as the thread is not joined, the
  count is at least one and at most the number of live roots, since children only take from
  it; so main cannot run out of BusObjects without meeting the last reference, and
  `JoinedAtStop` follows. `SingleInv` is of a single device with any children: its bus is
  torn down behind the thread's back only after the join, which gives `NoUseAfterFree` and
  `EndsInOrder`. With two devices both are false: the thread goes on when a BusObject that is
  not the last is freed, and its bus may still be in `reconnectList`. A single device never
  blocks either (`SingleNeverBlocks`): its root has given up the mutex to join the thread, and
  only its children, which have no listener, keep it.

  `NoOtherDeadlock` proves `OnlyDeadlock`, which speaks of who waits for whom: main has a
  step, or the thread it joins, the holder of the mutex or the callback it drains has one, or
  main is `Blocked`. The guards stand there in place of ENABLED, which the prover cannot
  treat; that they are those of the actions is what TLC's deadlock check adds on the small
  instances. It needs `WaitInv` (where main can be in each phase, that it joins a thread
  that was told to stop, that a stopped bus has no link) and `JoinInv`: join() is never
  called a second time (`ThreadJoinedOnce`), where it would throw. The count is zero when the
  thread is joined and wraps below zero with each child destroyed after it; `JoinInv`
  compares it with the number of objects that are left. `WaitInv` also gives
  `CrashOnlyAtEnd`: no bus is freed before the program stops or exits. `MutexProtects` is
  the other side of `MutexInv`: nothing is pushed while a sweep runs over the list, and a
  destructor that holds the mutex finds list and flags unchanged.
* **IoRequest_proof**. `LockInv`: who is at the test or about to sleep holds the mutex,
  and the flags have not changed since the test. That is why a completion finds a
  waiter either before its test or in the wait set. It gives `SleeperIsNotified` and
  `TrueTimeout`, and with `AnswerInv` the refinement of `Completion`.
* **Bridge_proof**. `ObjectsInv`, `AllJoynInv`, `RouterInv` and `FailureInv` say what holds at
  each step of main; together they give `Nested`, `AdvertisedIsJoinable`,
  `LateAnswers` and `ExitsClean`. `NameInv`: a bus goes by the name built for the adapter
  that is still there. What the encoders make of a name is proved by induction, for strings
  of any length: `PutNeat` says that one turn of the loop never leaves two dots in a row nor a
  digit behind a dot, if a letter or a digit stands between any two dots of the prefix, and
  `TrimmedNeat` that no digit comes to the front when dots are trimmed. Together they give
  `SoundNamesAreLegal`. The library's induction theorems take an operator, which the provers
  cannot instantiate; `SetInduction` is induction for a set of numbers, from the
  well-foundedness of the finite sets `0 .. n` (`LeastNumber`), and it also shows that the
  recursive function in `ForEach` exists and has its equation (`LoopResult`).
* **Requests_proof**. `RootInv`: a handler that runs belongs to an object that is registered and
  not freed, as Join waits. `CacheInv`: what main still has to insert is in `left`, and what
  is in the cache stays. `AnswerInv` ties what a handler was told to how far the adapter is;
  it gives `StrayAfterTimeout` and, with the steps of `Completion`, `UsesCompletion`. `StoreInv`:
  the value of a Set that was replaced is in the store no more; it needs that a Set replaces
  only those that had been answered when it began. It gives `NoStaleRead`.
* **Properties_proof**. `CacheInv`: the cache has what the last Set was given, a scalar;
  `ReplyInv`: the last reply is of what the cache has. Together `ReadsBack`; `CallsArrive`
  and `ScalarsAreSafe` need only the types.
* **Log_proof**. `LineInv`: the current line is the holder's, so that the newline ends the line
  of its call; `NamedInv`: `IsLevelEnabled` finds the logger that `GetLog` returned, so that its
  fall-back to the default level is never taken. They give the refinement of `Journal`.
* **BridgeConfig_proof**. `ElementInv`: an element that is the only one of its Id says what
  the Id was last given, and the Id was not removed; nothing need be known of Ids with
  two elements, as nothing removes either of them. `OriginInv`: a document in memory is
  from the file that `m_fileName` names, since a `FromFile` that fails leaves none.

* **Value_proof**. `MemoryInv` is one invariant of objects and heap. While nothing is
  broken, a pointer leads to memory in use that no other object has (`PointersInv`, also of
  bytes left under another type), and each object's members are those of what it was last
  given (`Holds`), which is `ShowsLastAssigned`. While objects also keep to one type, what
  is in the item is of that type (`Keeps`) and every block in use will be freed by somebody
  (`Owned`), which gives `OwnedOnce`; and no step can break anything, `MemorySafe`. An
  assignment is treated once for literals and objects (`IsSource`). `OrderedByValue` goes
  by way of the order the code has of literals, `CodeLess`, where numbers are unsigned:
  `OrderedPair` shows from `Holds` that objects are compared so, `CodeOrder` that this is the
  order by value where no two signs differ, as the negative numbers of a type are the upper
  half of the unsigned ones (`NumberRange`). `OrderIsStrict` adds that `operator<` is
  transitive and irreflexive, for numbers of any sign, texts and arrays. Assumed: the address
  of a block is not one a number makes of another's, `PointerAssumption`, and a digit has at
  least two values, `HalfAssumption`.

  The two findings about Value are bounded from the other side. `CopiesShowSame`: every copy
  shows what its source shows unless that was given a null string, so that `CopiesAlike` holds
  of a program that assigns none (`CopiesAlikeWithoutNull`). `OrderedByValue` leaves out
  two kinds of pairs, of numbers of one type. Narrow ones in objects that changed their types
  are what `value_numbers` finds. Where just one is negative, `NegativesAreGreater` says what
  happens: the negative one is the greater, always if they are wide, and while nothing is
  mixed if they are narrow. `OthersUndisturbed`: whatever is assigned to an object, and when it
  goes, no other object shows anything else than before, also where types are mixed.

The type invariants are proved and no run repeats them.

Only model-checked: liveness, as fairness is out of the prover's reach, and that the guards
`OnlyDeadlock` names are those of the actions. Every safety property of a passing run is
proved.

## 6. Not modelled

* `BridgeConfig::ToString` and the getters of settings, which only read.
* The encoders of object paths, members, interfaces and application names: nothing calls
  them (`Bridge::CreateDevice` encodes no path). What interface descriptions say of
  members, and signals (`OnAdapterSignal` is `#if 0`).
* The listeners that only log: session members, a lost session. `alljoynLogger` is never
  registered.
* AllJoynAbout is used by nobody; the data model of devices is records with accessors, which
  are constants of `Requests`, `Properties` and `Bridge`; errors are formatting and a throw,
  which is in the actions that throw; tests are quoted by the findings.
* Of the mock adapter, what it does at once or never (`Initialize`, `Shutdown`,
  `EnumDevices`, `InvokeMethod`): cases of the external adapter.
* AllJoyn, its router and other adapters are external.

## 7. Plan

1. `BusObject` with `PersistentBus`: the threads, the most delicate part. Done.
2. `IoRequest` with `Completion`. Done.
3. `Requests` on top of `Completion`, with the end of objects and adapter. Done.
4. `Bridge`: start, stop and failure, with BusObjects as one step, names and sessions. Done.
5. `Value`. Done.
6. `Properties`: Value, AllJoynHelper, mock adapter and methods together. Done.
7. `BridgeConfig`: the document, failing reads and writes, double objects. Done.
8. `Log` with `Journal`. Done.
9. Proofs: every safety property of the passing runs, and what bounds the findings. Done.
