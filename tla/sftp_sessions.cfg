SPECIFICATION FairSpec
CONSTANTS
  None = None
  s1 = s1
  s2 = s2
  alice = alice
  Sessions = {s1, s2}
  Users = {alice}
  MaxConns = 2
  MaxStarts = 2
CHECK_DEADLOCK FALSE
INVARIANTS
  TypeOK
  NothingOutlivesSession
  ListedHasSession
  ServedAsLoggedIn
PROPERTIES
  StopReturns
  ImplementsLifecycle
