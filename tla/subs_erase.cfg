SPECIFICATION FairSpec
CONSTANTS
  Topics = {"A", "B"}
  Subscribers = {"s", "r"}
  Nodes = {1, 2, 3, 4}
  Threads = {"u", "v", "p"}
  Calls <- EraseTopic
  MaxCalls = 3
  Before <- ThreeLinked
  Addresses <- Orders
  Nil = Nil

PROPERTIES CallsReturn
CHECK_DEADLOCK FALSE
