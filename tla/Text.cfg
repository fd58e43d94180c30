SPECIFICATION ScopeSpec
CONSTANTS
  HeapBase = 8
  HeapSize = 23
  HeaderSize = 2
  Word = 128
  Sizes = {1, 2, 3, 6}
  Alignments = {1}
  MaxHeld = 4
  MaxTexts = 2
  StringSizes = {1, 2}
  PixelSizes = {3, 6}
  TextureSize = 2
INVARIANTS
  TextTypeOK
  NewlyAllocated
  ScopeGivesAllBack
  NoFault
CHECK_DEADLOCK FALSE
