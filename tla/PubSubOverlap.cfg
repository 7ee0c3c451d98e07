CONSTANTS
  t1 = t1
  t2 = t2
  None = None
  Conns = {c1, c2}
  Topics = {t1}
  EarlyTopics = {t1}
  Notifiers = {n1, n2}
  Tasks = {k1}
  Methods = {"subscribe", "unsubscribe"}
  Params <- SingleParams
  MaxSerial = 2
  CancelOnDisconnect = TRUE
SPECIFICATION Spec
SYMMETRY Symmetry
CHECK_DEADLOCK FALSE
INVARIANTS SubscribersUpToDate
PROPERTIES Broadcasts
