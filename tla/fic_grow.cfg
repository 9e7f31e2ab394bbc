\* One resource whose hosts only grow in number; edits, lost calls and crashes at
\* any time, safety and liveness.
CONSTANTS
  h1 = h1
  h2 = h2
  h3 = h3
  g1 = g1
  crA = crA
  crB = crB
  c1 = c1
  c2 = c2
  NoIP = NoIP
  NoHost = NoHost
  Host <- MCHost
  CR = {crA}
  ListOrder <- ByName
  IP <- MCIP
  IPv4 <- MCIP
  Cidr <- MCCidr
  Net <- MCNet
  PoolCidr <- MCCidr
  Pool <- MCPool
  SpecChoice <- GrowSpecs
  StoreOutcome = {TRUE}
  ApiOutcome = {TRUE, FALSE}
  GrowOnly = TRUE
  Patient = FALSE
  CleanRestart = FALSE
  SoleRestart = FALSE
  MaxEdits = 3
  MaxCrashes = 2
  MaxGaps = 1
  MaxInFlight = 0
SPECIFICATION FairSpec
CHECK_DEADLOCK FALSE
INVARIANTS
  FICTypeOK
  PublishedExclusive
  NoStarvation
  PublishedHeld
PROPERTIES
  StickyAddress
  UserSpecsPreserved
  Settles
