\* The usage text against what the code does.
SPECIFICATION Spec
CONSTANTS
  Ident <- MCIdent
  Chars <- MCChars
  SizeValues = 64
  Situations <- MCSituations
INVARIANT AllReadBack
CHECK_DEADLOCK FALSE
