SPECIFICATION TemporarySpec
CONSTANTS
  HeapBase = 8
  HeapSize = 24
  HeaderSize = 2
  Word = 128
  Sizes = {1, 2, 3, 6}
  Alignments = {1}
  MaxHeld = 4
  MaxTexts = 2
  StringSizes = {1, 2}
  PixelSizes = {3, 6}
  TextureSize = 2
INVARIANTS
  NewlyAllocated
CHECK_DEADLOCK FALSE
