SPECIFICATION FmSpec
CONSTANTS
  a = a
  b = b
  small = small
  Slash = Slash
  Nul = Nul
  Unset = Unset
  Torn = Torn
  Pattern = Pattern
  Chars = {a, b, Slash}
  MaxFilename = 3
  MaxFileSize = 2
  SizeOf <- SizeOfOne
  AtaPresent = FALSE
  MaxFiles = 3
  RawSlot = 1
  Names <- SameLengthNames
  Data = {small}
  MaxOps = 4
  MaxCrashes = 0
  MaxFaults = 0
  Visible = 1
INVARIANTS
  ListRight
  NamesRight
  
PROPERTIES
  DeletesSelected
