SPECIFICATION Spec
CONSTANTS
  None = None
  c1 = c1
  c2 = c2
  Conns = {c1, c2}
  Anonymous = "anonymous"
  Users = {"alice", "anonymous"}
  Logins <- NamelessAndNamed
  Grants <- ReaderAndWriter
  Files = {"file"}
  Commands <- LoginAndPass
  MaxStarts = 2
  Signals = TRUE
  UsersChange = FALSE
CHECK_DEADLOCK FALSE
INVARIANTS
  OpenIsListed
  ConnectedMatchesSessions
PROPERTIES
  ImplementsLifecycle
