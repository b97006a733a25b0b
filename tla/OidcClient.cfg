SPECIFICATION Spec
CONSTANTS
  c1 = c1
  c2 = c2
  Calls <- MCCalls
  Ttl = 2
  Timeout = 1
  MaxKeys = 3
  MaxTime = 3
SYMMETRY Symmetry
INVARIANTS
  TypeOK
  RotationTolerated
PROPERTY
  KeysRecent
