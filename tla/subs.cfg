SPECIFICATION FairSpec
CONSTANTS
  Topics = {"A", "B"}
  Subscribers = {"s", "r"}
  Nodes = {1, 2, 3, 4}
  Threads = {"u", "v", "p"}
  Calls <- MostCalls
  MaxCalls = 3
  Before <- ThreeLinked
  Addresses <- Orders
  Nil = Nil
INVARIANTS ListsAgree MeetsSubscribed
PROPERTIES BothLocked CallsReturn
CHECK_DEADLOCK FALSE
