SPECIFICATION Spec
CONSTANTS
  a1 = a1
  a2 = a2
  Builders <- MCBuilders
  Kinds <- MCKinds
  Targets <- MCTargets
  Path <- MCPath
  NoKind = NoKind
  Free = Free
  Offers <- MCOffers
  MaxPlugins <- MCMaxPlugins
INVARIANTS
  KindsInStep
  ExcludedStaysHidden
  NeverReexported
  RebuildTraced
  EveryRouteWrapped
PROPERTIES
  UsesTelemetry
  CallsReturn
CHECK_DEADLOCK FALSE
