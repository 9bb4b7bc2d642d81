SPECIFICATION FairSpec
CONSTANTS
  Calls = {a, b, c}
  a = a
  b = b
  c = c
  d = d
  Services = {s, r}
  s = s
  r = r
  Instances = {i}
  i = i
  j = j
  Events = {e}
  MaxPort = 2
  FirstPort = 2
  CmdCap = 2
  MaxOwed = 1
  MaxHandles = 1
  Sought = {s}
  key <- MCKey
  config <- MCConfig
  others <- MCOthers
  Faults = {"cancel", "full", "find"}
INVARIANTS TypeOK AnnouncedInv HandleInv SocketsInv
PROPERTIES AnnouncementsCatchUp ShutdownEnds
CHECK_DEADLOCK FALSE
