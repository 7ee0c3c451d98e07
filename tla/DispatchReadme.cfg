CONSTANTS
  Missing = Missing
  Null = Null
  NotString = NotString
  NotDict = NotDict
  Unhashable = Unhashable
  AppErrors <- MCAppErrors
  Valid = {"x", "d"}
  Tasks = {m1}
  Texts <- MCTexts
  Methods <- MCMethods
  RawTexts <- MCRawTexts
  PoolSizes = {0, 1}
SPECIFICATION Spec
CHECK_DEADLOCK FALSE
INVARIANTS ServerErrorSent
