SPECIFICATION FairSpec
CONSTANTS
  Calls = {a, b}
  Groups = {g1, g2}
  asks <- AskMost
  a = a
  g1 = g1
  Rpc = rpc
  InfiniteTtl = FALSE
  Faults = {"stop_offer", "expiry"}
  MaxLoss = 0
  MaxFlight = 1
PROPERTIES EveryCallAnswered ActiveIsServed
CHECK_DEADLOCK FALSE
