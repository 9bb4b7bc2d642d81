SPECIFICATION Spec
CONSTANTS
  Calls = {a, b, c}
  a = a
  b = b
  c = c
  d = d
  Services = {s, r}
  s = s
  r = r
  Instances = {i}
  i = i
  j = j
  Events = {}
  MaxPort = 3
  FirstPort = 2
  CmdCap = 2
  MaxOwed = 1
  MaxHandles = 1
  Sought = {s}
  key <- MCKey
  config <- MCConfig
  others <- MCOthers
  Faults = {"twice"}
INVARIANT LiveIsOffered
CHECK_DEADLOCK FALSE
