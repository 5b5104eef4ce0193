SPECIFICATION PatientSpec
CONSTANTS
  Multi = "#"
  Single = "+"
  None = None
  c1 = c1
  c2 = c2
  i1 = i1
  f1 = f1
  f2 = f2
  Conns = {c1, c2}
  Fds = {f1, f2}
  ClientIds = {i1}
  IdOf <- SharedId
  Topics <- NoTopics
  Filters <- NoFilters
  MaxPackets <- Two
  MaxStarts = 1
  MayClear = FALSE
  Reuse = FALSE
  Signals = FALSE
  Fortify = FALSE
PROPERTIES
  StopReturns
