SPECIFICATION FairSpec
CONSTANTS
  Users = {u1}
  Roles <- AllRoles
  MaxConnects = 2
  MaxFrames = 2
  MaxCalls = 1
  Nil = Nil
INVARIANTS ReadArmed ClosedIsDown CloseIsTold
PROPERTIES BrokenIsNoticed
CHECK_DEADLOCK FALSE
