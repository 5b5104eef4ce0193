SPECIFICATION Spec
CONSTANTS
  None = None
  c1 = c1
  c2 = c2
  Conns = {c1}
  Anonymous = "anonymous"
  Users = {"alice", "anonymous"}
  Logins <- AnyName
  Grants <- WriterAndReader
  Files = {"file"}
  Commands <- FirstAndFourOfAny
  MaxStarts = 1
  Signals = TRUE
  UsersChange = TRUE
CHECK_DEADLOCK FALSE
INVARIANTS
  DataMatchesPlace
PROPERTIES
  GoodbyeIsLast
  
