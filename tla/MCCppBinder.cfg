SPECIFICATION Spec
CONSTANTS
  True = True
  False = False
  Null = Null
  New = New
  Garbage = Garbage
  Half = 2
  UpperOf <- MCUpperOf
  Interfaces <- MCInterfaces
  Objects <- MCObjects
INVARIANTS
  NoMisread
  AllRead
PROPERTIES
  KeepsCallPromise
  CallEnds
CHECK_DEADLOCK FALSE
