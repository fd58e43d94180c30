SPECIFICATION GrowSpec
CONSTANTS
  HeapBase = 8
  HeapSize = 12
  HeaderSize = 2
  Word = 32
  Sizes = {1, 2}
  Alignments = {1}
  MaxHeld = 3
INVARIANTS
  NewlyAllocated
CHECK_DEADLOCK FALSE
