SPECIFICATION FairSpec
CONSTANTS
  Device = {d1, d2}
  NoDevice = NoDevice
  Children <- OneParent
  RefModulus = 4
PROPERTIES Stops
