CONSTANTS
  Missing = Missing
  Null = Null
  NotString = NotString
  NotDict = NotDict
  Unhashable = Unhashable
  AppErrors <- MCAppErrors
  Valid = {"x", "d"}
  Tasks = {m1, m2}
  Texts <- MCTexts
  Methods <- MCMethods
  RawTexts <- MCRawTexts
  PoolSizes = {0, 1, 2}
SPECIFICATION Spec
CHECK_DEADLOCK FALSE
INVARIANTS TypeOK AnswersUnderstood  BindsLikePython SilenceExplained
PROPERTIES EveryRequestAnswered
