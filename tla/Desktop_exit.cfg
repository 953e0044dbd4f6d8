SPECIFICATION Spec
CONSTANTS
  MAX_WINDOWS = 3
  MaxNest = 0
PROPERTIES
  ExitClosesTyper
