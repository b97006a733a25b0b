SPECIFICATION Spec
CONSTANTS
  App = "APP_"
  Bad = Bad
  None = None
  Opaque = Opaque
  Down = Down
  r1 = r1
  r2 = r2
  Replicas <- MCReplicas
  Builds <- MCBuilds
  Released <- MCReleased
  BundlerPrefix <- MCBundlerPrefix
  Machines <- MCMachines
  Routes <- MCRoutes
  ClientPaths <- MCClientPaths
  ApiPaths <- MCApiPaths
  AppOrigin <- MCAppOrigin
  Elsewhere <- MCElsewhere
  Upstream = "web:3000"
SYMMETRY Symmetry
INVARIANTS
  SettingsHonoured
  ExcludedGetsNoPage
  CopiesCurrent
  FoundOnceRolledOut
  WritesFromOwnPages
