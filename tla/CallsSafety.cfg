CONSTANTS
  ServerCalls = {s1, s2}
  ClientCalls = {c1, c2}
  Timed = {s1, s2, c1, c2}
  Nested = {c1}
  ExplicitIds = {0, 1}
  MaxId = 1
  ClientErrors = TRUE
  None = None
SPECIFICATION Spec
CHECK_DEADLOCK FALSE
SYMMETRY Symmetry
INVARIANTS TypeOK OwnResult NoAnswerLost EntryOfCall
