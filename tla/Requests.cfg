SPECIFICATION FairSpec
CONSTANTS
  r1 = r1
  r2 = r2
  c1 = c1
  c2 = c2
  c3 = c3
  basic = basic
  bare = bare
  value = value
  extra = extra
  reset = reset
  ping = ping
  Root = {r1, r2}
  Interface = {basic, bare}
  Member = {value, extra, reset, ping}
  Method = {reset, ping}
  InterfaceOf <- Interfaces
  Members <- Devices
  Known = {bare}
  Call = {c1, c2, c3}
  Asks <- Calls
  Nothing = Nothing
INVARIANTS HandlersInsideObject RegisteredIsCached PinnedInterface StrayAfterTimeout NoStaleRead
PROPERTIES HandlersReturn TakesDown UsesCompletion
