\* Any calls of the Manager interface, writes that succeed.
CONSTANTS
  h1 = h1
  h2 = h2
  c1 = c1
  c2 = c2
  cX = cX
  NoIP = NoIP
  Host <- MCHost
  IP <- MCIP
  IPv4 <- MCIP
  Cidr <- MCCidr
  Net <- MCNet
  PoolCidr <- MCPoolCidr
  Pool <- MCPool
  StoreOutcome = {TRUE}
SPECIFICATION CallSpec
INVARIANTS
  Reserved
