SPECIFICATION Spec
CONSTANTS
  True = True
  False = False
  Null = Null
  New = New
  Garbage = Garbage
  Clients <- MCClients
  Contents <- MCContents
  Listeners = {L1, L2}
  MaxPushes = 2
INVARIANTS
  TypeOK
  NoMisread
  ListensAsTold
PROPERTIES
  KeepsCallPromise
  KeepsEventPromise
  ResultsArrive
  EventsHeard
CHECK_DEADLOCK FALSE
