SPECIFICATION RtlSpec
CONSTANTS
  RingWords = 8
  Sizes = {2, 3}
  TxPolls = 2
  MaxFrames = 5
  MaxSends = 3
PROPERTY
  ConsumedUpToHere
