SPECIFICATION Spec
CONSTANTS
  b1 = b1
  b2 = b2
  s1 = s1
  s2 = s2
  p1 = p1
  p2 = p2
  u1 = u1
  NoUser = NoUser
  Browsers = {b1}
  Slots = {s1}
  Providers = {p1}
  Users = {u1}
  MaxPending = 2
  PendingTtl = 1
  SessionTtl = 2
  MaxAttempts = 1
  MaxIds = 2
  MaxTime = 1
PROPERTY
  RequestsExtendSession
