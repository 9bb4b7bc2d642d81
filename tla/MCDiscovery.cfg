SPECIFICATION FairSpec
CONSTANTS
  a = a
  b = b
  Instances = {i}
  Majors = {v1}
  AnyInstance = any_instance
  AnyMajor = any_major
  Searches <- SomeSearches
  Finds = {a, b}
  Repetitions = 1
  Faults = {"expiry", "restart", "cancel", "full", "lag"}
  MaxLoss = 1
  MaxFlight = 1
INVARIANTS TypeOK WaitingInv KnownIsAnnounced
PROPERTIES FindEnds DiscoveryFollowsOffers
CHECK_DEADLOCK FALSE
