SPECIFICATION Spec
CONSTANTS
  Calls = {a, c, d}
  a = a
  b = b
  c = c
  d = d
  Services = {s, r}
  s = s
  r = r
  Instances = {i, j}
  i = i
  j = j
  Events = {}
  MaxPort = 3
  FirstPort = 2
  CmdCap = 2
  MaxOwed = 1
  MaxHandles = 1
  Sought = {s}
  key <- MCKey
  config <- AutoConfig
  others <- MCOthers
  Faults = {}
INVARIANT OneInstancePerPort
CHECK_DEADLOCK FALSE
