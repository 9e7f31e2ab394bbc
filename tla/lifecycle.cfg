SPECIFICATION FairSpec
CONSTANTS
  kubeSystem = kubeSystem
  other = other
  all = all
  Goroutine <- MCGoroutine
  Config <- MCConfig
  Namespace <- MCNamespace
  AllNamespaces = all
  MaxEvents = 2
INVARIANTS
  LifecycleTypeOK
  Routed
  RequestedLevelInForce
  FatalIsOnTheLog
  OneWatchPerResource
  ServesOnlyWhenSynced
  EndsForAReason
  AnswersOnlyWhenConfigured
PROPERTIES
  SignalStops
  EventuallyServed
CHECK_DEADLOCK FALSE
