SPECIFICATION Spec
CONSTANTS
  Conns = {a}
  Protocols <- BothProtocols
  Payloads <- Boundaries
  Replies = {126}
  Logins = {"none", "req8"}
  Sessions = {"tcp"}
  MaxMessages = 2
  MaxPushes = 1
INVARIANTS Framed DecodedAsSent AllAnswered
CHECK_DEADLOCK FALSE
