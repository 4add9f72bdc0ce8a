SPECIFICATION Spec
CONSTANTS
  True = True
  False = False
  Null = Null
  New = New
  Garbage = Garbage
  Half = 2
  UpperOf <- MCUpperOf
  Interfaces <- LongResult
  Objects <- MCObjects
PROPERTIES
  KeepsCallPromise
CHECK_DEADLOCK FALSE
