\* Overlapping ranges: two rows for one address.
CONSTANTS
  h1 = h1
  h2 = h2
  h3 = h3
  crA = crA
  c1 = c1
  c2 = c2
  cX = cX
  NoIP = NoIP
  NoHost = NoHost
  Host <- OverlapHost
  CR <- MCCR
  IP <- OverlapIP
  IPv4 <- OverlapIPv4
  Cidr <- OverlapCidr
  Net <- OverlapNet
  PoolCidr <- OverlapCidr
  Pool <- OverlapPool
  StoreOutcome = {TRUE}
  MaxInFlight = 1
SPECIFICATION CtlrSpec
INVARIANTS
  ExclusiveOwner
