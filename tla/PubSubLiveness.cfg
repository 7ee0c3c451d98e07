CONSTANTS
  t1 = t1
  t2 = t2
  None = None
  Conns = {c1, c2}
  Topics = {t1}
  EarlyTopics = {t1}
  Notifiers = {n1}
  Tasks = {k1}
  Methods = {"subscribe"}
  Params <- SingleParams
  MaxSerial = 2
  CancelOnDisconnect = FALSE
SPECIFICATION FairSpec
CHECK_DEADLOCK FALSE
PROPERTIES NotifyEnds TaskEnds DeadEntryRemoved
