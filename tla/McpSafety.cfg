SPECIFICATION Spec
CONSTANTS
  c1 = c1
  c2 = c2
  m1 = m1
  m2 = m2
  Nil = Nil
  Server = {"s"}
  Conn = {c1, c2}
  Caller = {"call"}
  Discoverer = {"disc"}
  Manager = {m1, m2}
  Kind = {"tools"}
  MaxId = 2
  MaxVersion = 1
  Oks = {TRUE, FALSE}
  MaxInbox = 1
  MaxStarted = 3
CHECK_DEADLOCK FALSE
SYMMETRY Symmetry
INVARIANTS ChannelsSafe NoLostWakeup NoLeak CloseErrVisible ConnectKeepsNew
PROPERTY CallRefinement
