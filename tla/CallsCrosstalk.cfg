CONSTANTS
  ServerCalls = {s1}
  ClientCalls = {c1}
  Timed = {}
  Nested = {}
  ExplicitIds = {}
  MaxId = 0
  ClientErrors = TRUE
  None = None
SPECIFICATION Spec
CHECK_DEADLOCK FALSE
INVARIANTS OwnError
