SPECIFICATION Spec
CONSTANTS
  Calls = {a, b, c}
  Groups = {g1, g2}
  asks <- AskAny
  a = a
  g1 = g1
  Rpc = rpc
  InfiniteTtl = FALSE
  Faults = {}
  MaxLoss = 0
  MaxFlight = 1
INVARIANT EventIsolation
CHECK_DEADLOCK FALSE
