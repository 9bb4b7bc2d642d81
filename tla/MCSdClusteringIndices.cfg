SPECIFICATION Spec
CONSTANTS
  s = s
  u = u
  v = v
  Services = {s, u, v}
  Groups = {g, h}
  endpoints <- MCEndpoints
  Locals <- MCLocals
  Targets = {x, y}
  Multicast = all
  IndexMax = 3
  TtlMax = 3
  ConfiguredTtl = 4
  MaxQueued = 3
INVARIANT IndicesAreCorrect
