CONSTANTS
  t1 = t1
  t2 = t2
  None = None
  Conns = {c1}
  Topics = {t1, t2}
  EarlyTopics = {t1}
  Notifiers = {n1}
  Tasks = {k1, k2}
  Methods = {"subscribe", "unsubscribe", "call", "reject"}
  Params <- PairParams
  MaxSerial = 2
  CancelOnDisconnect = FALSE
SPECIFICATION Spec
SYMMETRY Symmetry
CHECK_DEADLOCK FALSE
INVARIANTS RequestsTakeEffect
