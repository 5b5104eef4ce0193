SPECIFICATION FairSpec
CONSTANTS
  Multi = "#"
  Single = "+"
  Names <- MCNames
  Filters <- MCFilters
  Topics <- MCTopics
CHECK_DEADLOCK FALSE
INVARIANTS
  ComputesMatches
PROPERTIES
  Terminates
