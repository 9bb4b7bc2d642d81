SPECIFICATION Spec
CONSTANTS
  Calls = {a}
  Groups = {g1}
  asks <- AskAny
  a = a
  g1 = g1
  Rpc = rpc
  InfiniteTtl = FALSE
  Faults = {"stop_offer"}
  MaxLoss = 0
  MaxFlight = 1
PROPERTY NoUnsolicitedEvents
CHECK_DEADLOCK FALSE
