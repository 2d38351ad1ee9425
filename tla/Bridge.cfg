SPECIFICATION FairSpec
CONSTANTS
  Device = {d1, d2}
  nullptr = nullptr
  Adapter <- MCAdapter
INVARIANTS Nested AdvertisedIsJoinable LateAnswers SoundNamesAreLegal ExitsClean
PROPERTIES Starts Stops
