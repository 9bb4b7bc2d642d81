SPECIFICATION Spec
CONSTANTS
  a = a
  b = b
  Instances = {i}
  Majors = {v1}
  AnyInstance = any_instance
  AnyMajor = any_major
  Searches <- SomeSearches
  Finds = {a, b}
  Repetitions = 1
  Faults = {}
  MaxLoss = 0
  MaxFlight = 1
PROPERTY UnavailableIsExhausted
CHECK_DEADLOCK FALSE
