\* What the methods declare, where the output goes, what the -p files say.
SPECIFICATION Spec
CONSTANTS
  Ident <- MCIdent
  BaseTypes <- RegisteredBaseTypes
  TextSuffixes <- MCTextSuffixes
  Situations <- MeaningSituations
INVARIANTS
  NamesUnique
  ParsesOnlyNeeded
  StubsRegistered
PROPERTIES
  KeepsPromise
  ResolutionStable
CHECK_DEADLOCK FALSE
