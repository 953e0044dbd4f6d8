SPECIFICATION Spec
CONSTANTS
  a = a
  b = b
  small = small
  other = other
  big = big
  Slash = Slash
  Nul = Nul
  Unset = Unset
  Torn = Torn
  Pattern = Pattern
  Chars = {a, b, Slash}
  MaxFilename = 3
  MaxFileSize = 2
  SizeOf <- SizeOfOne
  AtaPresent = FALSE
  MaxFiles = 3
  RawSlot = 1
  Names <- MixedNames
  Data = {small}
  MaxOps = 3
  MaxCrashes = 0
  MaxFaults = 0
INVARIANTS
  CreatedIsFound
