SPECIFICATION Spec
CONSTANTS
  Keys = {A}
  MaxBytes = 1
  Lines = {7}
  Faults = {13}
  A = A
PROPERTIES
  PanicStops
CHECK_DEADLOCK FALSE
