SPECIFICATION Spec
CONSTANTS
  Files <- MCFiles
  WellFormed <- MCWellFormed
INVARIANTS
  TypeOK
  WellFormedAccepted
  NothingLost
  InSourceOrder
  DocumentGiven
PROPERTIES
  Termination
CHECK_DEADLOCK FALSE
