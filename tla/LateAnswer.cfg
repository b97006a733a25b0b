SPECIFICATION TelemetrySpec
CONSTANTS
  b1 = b1
  Builders <- MCBuilders
  Kinds <- MCKinds
  Targets <- MCTargets
  Path <- MCPath
  NoKind = NoKind
  Free = Free
INVARIANTS
  ThenHidden
