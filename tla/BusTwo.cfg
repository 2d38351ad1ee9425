SPECIFICATION FairSpec
CONSTANTS
  Device = {d1, d2}
  NoDevice = NoDevice
  Children <- OneParent
  RefModulus = 4
INVARIANTS LinkAccounted TeardownExclusive ServedWhileLive OnlyDeadlock
PROPERTIES JoinedAtStop Throttled Reconnects ImplementsPersistentBus
