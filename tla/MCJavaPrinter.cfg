\* What is written is what was built.
SPECIFICATION Spec
CONSTANTS
  TypeNames <- MCTypeNames
  Names <- MCNames
  Literals <- MCLiterals
  Documents <- MCDocuments
INVARIANTS
  ReadsBack
CHECK_DEADLOCK FALSE
