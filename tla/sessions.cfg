SPECIFICATION FairSpec
CONSTANTS
  Conns = {a, b}
  t1 = t1
  t2 = t2
  Threads = {t1, t2}
  Options <- SweptOrNot
  max_connection_size = 1
  max_session_size = 1
  MaxMsgs = 3
  Nil = Nil
INVARIANTS IdsConserved NoOrphanSession SessionsNearLimit
PROPERTIES SilentPeerClosed
CHECK_DEADLOCK FALSE
