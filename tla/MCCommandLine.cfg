\* What the arguments ask for, and what --preprocess leaves behind.
SPECIFICATION Spec
CONSTANTS
  Ident <- MCIdent
  Chars <- MCChars
  SizeValues = 64
  Situations <- MCSituations
INVARIANTS
  TypeOK
  OptionsMeant
  WholeOrNothing
  PlainReadsBack
PROPERTIES
  Termination
CHECK_DEADLOCK FALSE
