SPECIFICATION DevSpec
CONSTANTS
  Keys = {"A", "2", "ShiftL", "ShiftR", "CtrlL", "CtrlR", "Up", "KeypadEnter", "Esc"}
  MaxStrokes = 4
  Packets <- OnePacket
  ScanCodes = {30}
  MaxTick = 2
  MaxSleep = 2
  Lbas = {1, 2}
  Data = {"a", "b"}
  Junk = "junk"
  Polls = 2
  MaxCalls = 3
INVARIANTS
  ReadsInOrder
  
PROPERTIES
  NewestArrives
  Resync
  BytesServed
  SleepReturns
  IsSectorDisk
  AtaReturns
