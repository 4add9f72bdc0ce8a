\* A comment of the program against what the code does.
SPECIFICATION Spec
CONSTANTS
  Ident <- MCIdent
  BaseTypes <- RegisteredBaseTypes
  TextSuffixes <- MCTextSuffixes
  Situations <- PreprocessedSituations
INVARIANTS
  EmptyLinesSkipped
CHECK_DEADLOCK FALSE
