SPECIFICATION TextureSpec
CONSTANTS
  s1 = s1
  s2 = s2
  b1 = b1
  b2 = b2
  b3 = b3
  None = None
  Slots = {s1, s2}
  Blocks <- MCBlocks
  Files <- MCFilesFont
  Sides = {1, 2}
INVARIANT DataFits
CHECK_DEADLOCK FALSE
