SPECIFICATION Spec
CONSTANTS
  Conns = {a, b}
  Protocols <- BothProtocols
  Payloads = {125, 126}
  Replies = {126}
  Logins = {"none"}
  Sessions = {"tcp"}
  MaxMessages = 1
  MaxPushes = 0
INVARIANTS Framed
CHECK_DEADLOCK FALSE
