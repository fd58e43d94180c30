SPECIFICATION InvadersSpec
CONSTANTS
  Width = 14
  Height = 9
  Pitch = 14
  Word = 24
  Rows = 3
  Columns = 2
  StepX = 3
  StepY = 1
  AlienSize = 2
  Descent = 2
  PlayerWidth = 1
  PlayerHeight = 1
  PlayerY = 7
  Speed = 6
  MaxY = 8
INVARIANTS
  DestinationFits
