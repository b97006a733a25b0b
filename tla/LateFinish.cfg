SPECIFICATION Spec
CONSTANTS
  a = a
  b = b
  Sqls <- MCSqls
  MaxInFlight = 2
  MaxQueries = 3
  MaxDepth = 2
  Unknown = Unknown
SYMMETRY Symmetry
CHECK_DEADLOCK FALSE
PROPERTY
  ClosesOwnStatement
