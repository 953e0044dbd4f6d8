SPECIFICATION Spec
CONSTANTS
  MAX_WINDOWS = 4
  MaxNest = 1
INVARIANTS
  WindowsRight
  DragKeepsWindow
PROPERTIES
  DragEnds
