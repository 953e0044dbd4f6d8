SPECIFICATION Spec
CONSTANTS
  a = a
  b = b
  small = small
  other = other
  big = big
  Slash = Slash
  Nul = Nul
  Unset = Unset
  Torn = Torn
  Pattern = Pattern
  Chars = {a, b, Slash}
  MaxFilename = 3
  MaxFileSize = 2
  SizeOf <- SizeOfThree
  AtaPresent = TRUE
  MaxFiles = 3
  RawSlot = 1
  Names <- MixedNames
  Data = {small, other, big}
  MaxOps = 3
  MaxCrashes = 2
  MaxFaults = 1
INVARIANTS
  WorkDirOK
  NoOrphans
  SaveAtomic
PROPERTIES
  FormatSafe
  SavedSurvivesReboot
