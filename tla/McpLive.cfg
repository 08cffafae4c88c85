SPECIFICATION FairSpec
CONSTANTS
  c1 = c1
  c2 = c2
  m1 = m1
  m2 = m2
  Nil = Nil
  Server = {"s"}
  Conn = {c1, c2}
  Caller = {"call"}
  Discoverer = {}
  Manager = {m1, m2}
  Kind = {"tools"}
  MaxId = 1
  MaxVersion = 0
  Oks = {TRUE}
  MaxInbox = 1
  MaxStarted = 3
CHECK_DEADLOCK FALSE
PROPERTIES CallEnds ReaderEnds
