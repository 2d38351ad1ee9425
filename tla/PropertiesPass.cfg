SPECIFICATION Spec
CONSTANTS
  version = version
  name = name
  level = level
  ratio = ratio
  flags = flags
  bytes = bytes
  names = names
  reset = reset
  scale = scale
  dump = dump
  Property = {version, name, level, ratio, flags, bytes, names}
  NoProperty = NoProperty
  TypeOf <- Types
  Default <- Defaults
  Items <- Arguments
  Method = {reset, scale, dump}
  NoMethod = NoMethod
  Calls <- MCCalls
  Outcomes <- MCOutcomes
  UInt16Size = 4
INVARIANTS ReadsBack CallsArrive ScalarsAreSafe
