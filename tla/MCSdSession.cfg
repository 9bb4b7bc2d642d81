SPECIFICATION Spec
CONSTANTS
  Peers = {p1}
  MaxSid = 3
  MaxBoot = 3
  MaxFlight = 1
  Reorder = FALSE
INVARIANTS
  TypeOK
  OneAlarmPerRestart
  SessionInv
PROPERTY FirstMessageIsNoticed
CHECK_DEADLOCK FALSE
