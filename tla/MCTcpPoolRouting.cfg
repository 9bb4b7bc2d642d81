SPECIFICATION Spec
CONSTANTS
  Calls = {a}
  Services = {v1}
  MaxSlot = 1
  MaxConn = 2
INVARIANT EventsAreRouted
CHECK_DEADLOCK FALSE
