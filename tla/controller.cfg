\* Disjoint IPv4 ranges, writes that succeed: ownership of addresses.
CONSTANTS
  h1 = h1
  h2 = h2
  h3 = h3
  crA = crA
  c1 = c1
  c2 = c2
  cX = cX
  NoIP = NoIP
  NoHost = NoHost
  Host <- MCHost
  CR <- MCCR
  IP <- MCIP
  IPv4 <- MCIP
  Cidr <- MCCidr
  Net <- MCNet
  PoolCidr <- MCPoolCidr
  Pool <- MCPool
  StoreOutcome = {TRUE}
  MaxInFlight = 2
SPECIFICATION CtlrSpec
INVARIANTS
  CtlrTypeOK
  ExclusiveOwner
  TablesAgree
PROPERTIES
  AnnouncesHolder
  ImplementsAllocator
