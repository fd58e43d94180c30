SPECIFICATION ReallocSpec
CONSTANTS
  HeapBase = 8
  HeapSize = 20
  HeaderSize = 2
  Word = 32
  Sizes = {1, 2}
  Alignments = {1}
  MaxHeld = 2
PROPERTIES
  ReallocKeepsData
CHECK_DEADLOCK FALSE
