SPECIFICATION FairSpec
CONSTANTS
  Calls = {a, b}
  Services = {v1, v2}
  MaxSlot = 2
  MaxConn = 2
INVARIANTS TypeOK OneSubscriptionPerSlot OpenIsPooled WaitersHaveDialer RegisteredWithOwn
PROPERTY EveryCallEnds
CHECK_DEADLOCK FALSE
