SPECIFICATION Spec
CONSTANTS
  Calls = {a}
  Services = {v1, v2}
  MaxSlot = 1
  MaxConn = 2
PROPERTY OthersKeepTheirConnection
CHECK_DEADLOCK FALSE
