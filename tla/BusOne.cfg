SPECIFICATION FairSpec
CONSTANTS
  Device = {d1}
  NoDevice = NoDevice
  Children <- PowerStrip
  RefModulus = 8
INVARIANTS NoUseAfterFree
PROPERTIES Stops
