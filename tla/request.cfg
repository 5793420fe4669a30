SPECIFICATION FairSpec
CONSTANTS
  Callers = {c1, c2}
  MaxCalls = 2
  Closing = TRUE
  BadResponses = TRUE
  Nil = Nil
INVARIANTS FinishedOnce NoOrphanEntry OkMeansAnswered
PROPERTIES RequestReturns
CHECK_DEADLOCK FALSE
