SPECIFICATION FairSpec
CONSTANTS
  Posters = {p1, p2}
  PackCapacity = 2
  m_capacity = 5
  TextSizes = {1, 2, 3}
  MaxTexts = 2
  NoText = NoText
  NoPack = NoPack
  PostAfterClose = FALSE
INVARIANTS PackAccounting NoStrandedLogger HandedOverIsWritten
PROPERTIES StreamGrows EventuallyWritten StopReturns
CHECK_DEADLOCK FALSE
