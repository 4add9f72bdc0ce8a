SPECIFICATION Spec
CONSTANTS
  Files <- MCFiles
  WellFormed <- MCWellFormed
INVARIANT NamelessReported
CHECK_DEADLOCK FALSE
