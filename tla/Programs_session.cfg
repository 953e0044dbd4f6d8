SPECIFICATION PrSpec
CONSTANTS
  HEAP_SIZE = 20
  HEADER_SIZE = 2
  MIN_SPLIT = 2
  ALIGN = 2
  WORD = 64
  Requests = {0, 1, 3, 63}
  Counts = {2, 32}
  CmdSizes <- MCCmdSizes
  MAX_LINES = 3
  MAX_LINE_LEN = 2
  EDIT_ROWS = 2
  MAX_FILE_SIZE = 7
  Chars = {"a", "b"}
  NL = "NL"
  CR = "CR"
  Files <- MCFiles
  MaxEdits = 3
  GridW = 4
  GridH = 2
  FrameDelay = 2
  FP_ONE = 256
  MAP_W = 8
  MAP_H = 6
  Walls <- MCWalls
  MOVE_STEP = 112
  TURN_STEP = 45
  MaxKeys = 8
  TROWS = 3
  TCOLS = 4
  Letters = {"a", "b"}
  LINE_MAX = 5
  Greeting <- MCGreeting
  MaxPuts = 9
INVARIANTS
  TextSafe
  ScreenTells
  HeapWhole
  OnePiece
PROPERTIES
  IsAllocator
  EditsOneSymbol
  ReopenShowsSaved
  TurnBackTakesTwo
  LeftAloneEnds
  NoWayThroughWalls
