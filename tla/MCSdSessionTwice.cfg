SPECIFICATION Spec
CONSTANTS
  Peers = {p1}
  MaxSid = 2
  MaxBoot = 3
  MaxFlight = 1
  Reorder = FALSE
PROPERTY RebootAgainIsNoticed
CHECK_DEADLOCK FALSE
