SPECIFICATION Spec
CONSTANTS
  a = a
  b = b
  Sqls <- MCSqls
  MaxInFlight = 3
  MaxQueries = 5
  MaxDepth = 2
  Unknown = Unknown
SYMMETRY Symmetry
CHECK_DEADLOCK FALSE
INVARIANTS
  TypeOK
  RunningHaveSpans
  SpansExact
  DepthTrue
