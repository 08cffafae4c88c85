SPECIFICATION Spec
CONSTANTS
  c1 = c1
  c2 = c2
  m1 = m1
  m2 = m2
  Nil = Nil
  Server = {"s"}
  Conn = {c1, c2}
  Caller = {}
  Discoverer = {"disc"}
  Manager = {m1}
  Kind = {"tools"}
  MaxId = 2
  MaxVersion = 1
  Oks = {TRUE}
  MaxInbox = 2
  MaxStarted = 2
CHECK_DEADLOCK FALSE
INVARIANT StaleWhenOutdated
