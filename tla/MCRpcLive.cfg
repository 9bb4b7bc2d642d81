SPECIFICATION FairSpec
CONSTANTS
  a = a
  b = b
  c = c
  d = d
  Calls = {a, c, d}
  kind <- MCKind
  MaxSid = 1
  QueueCap = 1
  Faults = {"loss", "cancel", "drop", "shutdown", "client_down"}
PROPERTY CallsEnd
CHECK_DEADLOCK FALSE
