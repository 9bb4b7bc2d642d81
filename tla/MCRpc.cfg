SPECIFICATION Spec
CONSTANTS
  a = a
  b = b
  c = c
  d = d
  Calls = {a, b, c}
  kind <- MCKind
  MaxSid = 2
  QueueCap = 1
  Faults = {"copy", "drop", "shutdown"}
INVARIANTS TypeOK AnswerInv FailInv NoneForgotten
PROPERTY ImplementsMethodCall
CHECK_DEADLOCK FALSE
