SPECIFICATION ArenaSpec
CONSTANTS
  HeapBase = 8
  HeapSize = 24
  HeaderSize = 2
  Word = 64
  Sizes = {1, 2, 4}
  Alignments = {1, 2, 8}
  MaxHeld = 3
INVARIANTS
  TypeOK
  Tiled
  NewlyAllocated
  FirstFit
PROPERTIES
  CallReturns
  AbsSpec
CHECK_DEADLOCK FALSE
