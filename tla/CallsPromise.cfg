CONSTANTS
  ServerCalls = {s1}
  ClientCalls = {c1, c2}
  Timed = {s1, c1}
  Nested = {c1}
  ExplicitIds = {0}
  MaxId = 1
  ClientErrors = FALSE
  None = None
SPECIFICATION FairSpec
CHECK_DEADLOCK FALSE
INVARIANTS OwnError
PROPERTIES TimedCallEnds ResultArrives KeepsPromise
