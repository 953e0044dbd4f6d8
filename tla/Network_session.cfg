SPECIFICATION NwSpec
CONSTANTS
  IPs <- MCIPs
  Masks <- MCMasks
  NetOf <- MCNetOf
  MACs <- MCMACs
  Frames <- MCFrames
  OurMac = "own"
  OurIp = "our"
  GatewayIp = "gw"
  GatewayMac = "m"
  Mask = "m24"
  ArpMax = 2
  DnsRounds = 2
  MaxRx = 2
  MaxArrivals = 2
  Names = {n1, n2}
  NoName = no
  Rounds = 2
  RingFrames = 2
  MaxLookups = 3
  Timers <- TwoTimers
  Interval <- Intervals
  Tcp = "tcp"
  PoolSize = 4
  Wrap = 18
  MaxGap = 2
  MaxInits = 1
  RingWords = 8
  Sizes = {2, 3}
  TxPolls = 2
  MaxFrames = 5
  MaxSends = 3
INVARIANTS
  TableRight
  
  
  TimersInOrder
  InOrderUntilCrossing
  SentIsNotOlder
PROPERTIES
  GatewayPinned
  CommandsReturn
  
  TimersRun
