SPECIFICATION Spec
CONSTANTS
  Outside = Outside
  None = None
  n1 = n1
  n2 = n2
  h1 = h1
  h2 = h2
  Names = {n1, n2}
  Slots = {h1, h2}
SYMMETRY Symmetry
CHECK_DEADLOCK FALSE
INVARIANTS
  StreamsMatchHandles
PROPERTIES
  NeedsRights
  LogIsTrue
