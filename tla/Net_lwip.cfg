SPECIFICATION Spec
CONSTANTS
  IPs <- MCIPs
  Masks <- MCMasks
  NetOf <- MCNetOf
  MACs <- MCMACs
  Frames <- MCFrames
  OurMac = "own"
  OurIp = "our"
  GatewayIp = "gw"
  GatewayMac = "m"
  Mask = "m24"
  ArpMax = 2
  DnsRounds = 2
  MaxRx = 2
  MaxArrivals = 2
PROPERTY
  PollReturns
