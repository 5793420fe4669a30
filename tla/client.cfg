SPECIFICATION FairSpec
CONSTANTS
  Keys = {k1, k2}
  Sids = {1, 2}
  AddressSets <- TwoThenOne
  MaxEvents = 3
  MaxAuths = 2
  LoadSize = 3
  Nil = Nil
INVARIANTS LoggedIn SessionsCurrent Balanced
PROPERTIES Reconnects
CHECK_DEADLOCK FALSE
