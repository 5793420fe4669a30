SPECIFICATION Spec
CONSTANTS
  Publishers = {p1}
  Subscribers = {s1, s2}
  Kinds = {"seq", "one", "pop", "set"}
  MaxContents = 3
  MaxSubs = 3
  MaxTasks = 3
  ClearContent = TRUE
  EraseTopic = TRUE
  Nil = Nil
SYMMETRY RoleSymmetry
INVARIANTS ToldInStep ToldLatest TellsSubscribersOnly NewHasTask
CHECK_DEADLOCK FALSE
