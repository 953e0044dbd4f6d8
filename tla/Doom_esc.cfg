SPECIFICATION DcSpec
CONSTANTS
  Keys = {"Esc"}
  MaxStrokes = 2
  FP_ONE = 256
  MAP_W = 3
  MAP_H = 3
  Walls = {}
  MOVE_STEP = 56
  TURN_STEP = 5
  MaxKeys = 0
PROPERTY
  EscExits
