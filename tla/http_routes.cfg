SPECIFICATION FairSpec
CONSTANTS
  None = None
  r1 = r1
  r2 = r2
  a = a
  b = b
  Keys = {"GET", "PURGE"}
  Methods = {"GET"}
  Handlers = {a, b}
  Requests = {r1, r2}
CHECK_DEADLOCK FALSE
INVARIANTS
  AnsweredAsRegistered
  HistoryIsTrue
PROPERTIES
  StartAndStopReturn
  ImplementsLifecycle
