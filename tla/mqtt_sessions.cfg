SPECIFICATION Spec
CONSTANTS
  Multi = "#"
  Single = "+"
  None = None
  c1 = c1
  c2 = c2
  i1 = i1
  f1 = f1
  f2 = f2
  Conns = {c1, c2}
  Fds = {f1, f2}
  ClientIds = {i1}
  IdOf <- SharedId
  Topics <- TopicA
  Filters <- FilterAM
  MaxPackets <- Two
  MaxStarts = 2
  MayClear = TRUE
  Reuse = TRUE
  Signals = TRUE
  Fortify = TRUE
SYMMETRY Symmetry
CHECK_DEADLOCK FALSE
INVARIANTS
  SessionsBacked
  DescriptorsOwned
  StoppedIsQuiescent
  RecordedBeforeDelivered
PROPERTIES
  ImplementsLifecycle
