SPECIFICATION FairSpec
CONSTANTS
  None = None
  c1 = c1
  c2 = c2
  Conns = {c1}
  Anonymous = "anonymous"
  Users = {"anonymous"}
  Logins <- Nameless
  Grants <- ReaderAndWriter
  Files = {"file"}
  Commands <- StoreAndFetch
  MaxStarts = 2
  Signals = TRUE
  UsersChange = FALSE
CHECK_DEADLOCK FALSE
INVARIANTS
  StoppedIsQuiescent
  StoredIsWhole
PROPERTIES
  StopReturns
  LeaversAreForgotten
