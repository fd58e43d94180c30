SPECIFICATION ConsoleSpec
CONSTANTS
  Width = 3
  Height = 3
  Pitch = 4
  Word = 16
  Positions = {0, 1, 2, 3, 4, 14, 15}
  TextureSides = {0, 1, 2, 4}
  s1 = s1
  s2 = s2
  b1 = b1
  b2 = b2
  b3 = b3
  None = None
  Slots = {s1, s2}
  Blocks <- MCBlocks
  Files <- MCFiles
  Sides = {1, 2}
  Texts <- MCTexts
  CharWidth = 2
  CharHeight = 2
  Columns = 32
  FontRows = 8
  LayoutWord = 4096
  Keys <- MCKeys
  MaxFifo = 3
INVARIANTS
  ConsoleTypeOK
  DrawsTexture
  PixelsSafe
  GlyphsFit
  TextShown
  KeysSound
PROPERTIES
  PixelsKept
  GameUndisturbed
CHECK_DEADLOCK FALSE
