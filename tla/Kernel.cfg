SPECIFICATION Spec
CONSTANTS
  Keys = {A, D}
  MaxBytes = 2
  Lines = {3, 7, 12}
  Faults = {13}
  A = A
  D = D
INVARIANTS
  TypeOK
  Dispatch
  InService
  GameReady
  KeyEdge
  KeysFollow
  JustPressedFirst
PROPERTIES
  FaultStops
  TickServed
CHECK_DEADLOCK FALSE
