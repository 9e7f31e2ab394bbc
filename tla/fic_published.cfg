\* Liveness: a user who waits and only adds hosts, an API server that answers, crashes
\* anywhere.
CONSTANTS
  h1 = h1
  h2 = h2
  h3 = h3
  g1 = g1
  crA = crA
  crB = crB
  c1 = c1
  c2 = c2
  NoIP = NoIP
  NoHost = NoHost
  Host <- MCHost
  CR = {crA}
  ListOrder <- ByName
  IP <- MCIP
  IPv4 <- MCIP
  Cidr <- MCCidr
  Net <- MCNet
  PoolCidr <- MCCidr
  Pool <- MCPool
  SpecChoice <- GrowSpecs
  StoreOutcome = {TRUE}
  ApiOutcome = {TRUE}
  GrowOnly = TRUE
  Patient = TRUE
  CleanRestart = FALSE
  SoleRestart = FALSE
  MaxEdits = 3
  MaxCrashes = 2
  MaxGaps = 1
  MaxInFlight = 0
SPECIFICATION FairSpec
CHECK_DEADLOCK FALSE
PROPERTIES
  EventuallyPublished
