SPECIFICATION Spec
CONSTANTS
  Names <- MCNames
  Up = ".."
  Here = "."
  Empty = ""
  Slashed <- MCSlashed
  Base <- MCBase
  Extends <- MCExtends
  Args <- MCArgs
  MaxCwds = 2
  Refused = Refused
CHECK_DEADLOCK FALSE
INVARIANTS
  CwdIsWhereOneWalked
  ResolvedAsWalked
  
