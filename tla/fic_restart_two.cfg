\* Two resources, one address: who has it after a restart.
CONSTANTS
  h1 = h1
  h2 = h2
  h3 = h3
  g1 = g1
  crA = crA
  crB = crB
  c1 = c1
  c2 = c2
  NoIP = NoIP
  NoHost = NoHost
  Host <- MCHost
  CR = {crA, crB}
  ListOrder <- ByName
  IP <- MCIP
  IPv4 <- MCIP
  Cidr <- MCCidr
  Net <- MCNet
  PoolCidr <- MCCidr
  Pool <- SinglePool
  SpecChoice <- RivalSpecs
  StoreOutcome = {TRUE}
  ApiOutcome = {TRUE}
  GrowOnly = TRUE
  Patient = TRUE
  CleanRestart = TRUE
  SoleRestart = FALSE
  MaxEdits = 2
  MaxCrashes = 1
  MaxGaps = 1
  MaxInFlight = 0
SPECIFICATION Spec
CHECK_DEADLOCK FALSE
PROPERTIES
  StickyAddress
