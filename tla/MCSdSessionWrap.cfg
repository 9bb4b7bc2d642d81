SPECIFICATION Spec
CONSTANTS
  Peers = {p1}
  MaxSid = 3
  MaxBoot = 1
  MaxFlight = 1
  Reorder = FALSE
INVARIANT WrapIsNoReboot
CHECK_DEADLOCK FALSE
