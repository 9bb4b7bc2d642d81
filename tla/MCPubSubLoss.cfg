SPECIFICATION FairSpec
CONSTANTS
  Calls = {a, b}
  Groups = {g1}
  asks <- AskAny
  a = a
  g1 = g1
  Rpc = rpc
  InfiniteTtl = FALSE
  Faults = {"expiry"}
  MaxLoss = 1
  MaxFlight = 1
PROPERTY ActiveIsServed
CHECK_DEADLOCK FALSE
