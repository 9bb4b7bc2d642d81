SPECIFICATION FairSpec
CONSTANTS
  Peers = {a}
  NoOne = no_one
  LoopCap = 1
  SendCap = 1
  InboxCap = 1
  ReadMax = 2
  MaxConn = 2
  MaxRequests = 7
  Faults = {"disconnect", "reboot", "stop_offer"}
INVARIANTS TypeOK WaitsInFullCircle
PROPERTIES SenderStays UnsentEnds LoopGoesOn
CHECK_DEADLOCK FALSE
