SPECIFICATION MachineSpec
CONSTANTS
  Size = 4
  Char = {0, 1, 3}
  Lengths = {0, 1, 3}
  HeaderSize = 2
  MapWord = 64
  Maps <- MCMaps
  Letters = {a, b}
  Step = 3
  BlockHeader = 2
  MaxLength = 4
  ReallocFails = TRUE
  Terminator = Terminator
  Anything = Anything
  BootLog <- MCBootLog
  Message <- MCMessage
  Divisors <- MCDivisors
  MaxPanics = 2
  Width = 14
  Height = 9
  Pitch = 14
  Word = 24
  Rows = 3
  Columns = 2
  StepX = 3
  StepY = 1
  AlienSize = 2
  Descent = 2
  PlayerWidth = 1
  PlayerHeight = 1
  PlayerY = 7
  Speed = 6
  MaxY = 8
INVARIANTS
  MachineTypeOK
  CallsRight
  HeapPlaced
  StringHolds
  LogSound
  FormationTurns
PROPERTIES
  FrameShows
  Progress
CHECK_DEADLOCK FALSE
