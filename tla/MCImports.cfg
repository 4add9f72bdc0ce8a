\* What the main file and its imports parse to, and where they are found.
SPECIFICATION Spec
CONSTANTS
  Ident <- MCIdent
  BaseTypes <- FewBaseTypes
  TextSuffixes <- MCTextSuffixes
  Situations <- ImportSituations
INVARIANTS
  TypeOK
  DocsAreOwn
  DepListsOpened
PROPERTIES
  KeepsPromise
  Termination
CHECK_DEADLOCK FALSE
