SPECIFICATION StackSpec
CONSTANTS
  HeapBase = 8
  HeapSize = 16
  HeaderSize = 2
  Word = 32
  Sizes = {1, 3}
  Alignments = {1, 2}
  MaxHeld = 3
INVARIANTS
  NewlyAllocated
  Links
  FullRecovery
PROPERTIES
  CallReturns
  AbsSpec
