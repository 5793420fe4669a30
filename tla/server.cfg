SPECIFICATION FairSpec
CONSTANTS
  Producers = {p1, p2}
  Workers = {w1, w2}
  Keys = {k1}
  NoKey = NoKey
  NoMsg = NoMsg
  m_capacity = 2
  MaxPosts = 2
  MaxRuns = 2
  ReleaseWhenClosed = FALSE
INVARIANTS ExactlyOnce NoStrandedMessage NoStrandedPoster
PROPERTIES EventuallyTaken EventuallyPosted StopReturns ChannelSpec
CHECK_DEADLOCK FALSE
