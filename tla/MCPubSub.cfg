SPECIFICATION Spec
CONSTANTS
  Calls = {a, b}
  Groups = {g1, g2}
  asks <- AskAny
  a = a
  g1 = g1
  Rpc = rpc
  InfiniteTtl = FALSE
  Faults = {"stop_offer", "expiry", "restart", "cancel"}
  MaxLoss = 1
  MaxFlight = 1
INVARIANTS
  TypeOK
  WaiterInv
  OnePortPerSubscription
PROPERTY ImplementsSubscribeCall
SYMMETRY Symmetry
CHECK_DEADLOCK FALSE
