CONSTANTS
  Apps = {a1, a2}
  Sockets = {s1, s2, s3}
  Null = Null
  Absent = Absent
  Objects = {o1, o2}
  Globals = {o1, Null}
  PageSockets = {s1, s2}
  Topics = {t1}
  Strange = Strange
  MaxCalls = 2
  MaxDown = 2
SPECIFICATION ClientsSpec
CHECK_DEADLOCK FALSE
SYMMETRY Symmetry
INVARIANTS TypeOK LoopAlive AutoConnectsAlone AnswerOnItsConnection NoneMeansTrouble NothingLeaks AnswersFindTheirCall EntriesExplained
PROPERTIES DropsExplained
