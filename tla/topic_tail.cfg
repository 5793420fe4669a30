SPECIFICATION Spec
CONSTANTS
  Publishers = {p1}
  Subscribers = {s1, s2}
  Kinds = {"seq"}
  MaxContents = 0
  MaxSubs = 3
  MaxTasks = 3
  ClearContent = FALSE
  EraseTopic = FALSE
  Nil = Nil
SYMMETRY RoleSymmetry
INVARIANTS AllReached
CHECK_DEADLOCK FALSE
