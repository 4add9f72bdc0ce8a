SPECIFICATION Spec
CONSTANTS
  True = True
  False = False
  Null = Null
  New = New
  Garbage = Garbage
  Interfaces <- MCInterfaces
  Contents <- MCContents
INVARIANTS
  NoMisread
  AllRead
  ClassLoaderDeclared
PROPERTIES
  KeepsCallPromise
  CallEnds
  SentRuns
  OnewayEnds
CHECK_DEADLOCK FALSE
