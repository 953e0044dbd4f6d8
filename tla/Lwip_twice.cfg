SPECIFICATION LwSpec
CONSTANTS
  Timers <- TwoTimers
  Interval <- Intervals
  Tcp = "tcp"
  PoolSize = 4
  Wrap = 18
  MaxGap = 2
  MaxInits = 2
PROPERTY
  LwipReturns
