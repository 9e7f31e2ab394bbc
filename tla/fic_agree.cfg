\* Two resources, users who wait for the controller; restarts of a controller that
\* has settled, with at most one resource to restore.
CONSTANTS
  h1 = h1
  h2 = h2
  h3 = h3
  g1 = g1
  crA = crA
  crB = crB
  c1 = c1
  c2 = c2
  NoIP = NoIP
  NoHost = NoHost
  Host <- MCHost
  CR = {crA, crB}
  ListOrder <- ByName
  IP <- MCIP
  IPv4 <- MCIP
  Cidr <- MCCidr
  Net <- MCNet
  PoolCidr <- MCCidr
  Pool <- MCPool
  SpecChoice <- MoveSpecs
  StoreOutcome = {TRUE}
  ApiOutcome = {TRUE}
  GrowOnly = FALSE
  Patient = TRUE
  CleanRestart = TRUE
  SoleRestart = TRUE
  MaxEdits = 4
  MaxCrashes = 1
  MaxGaps = 1
  MaxInFlight = 0
SPECIFICATION Spec
CHECK_DEADLOCK FALSE
INVARIANTS
  Agreement
PROPERTIES
  ImplementsAddressBook
