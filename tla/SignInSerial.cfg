SPECIFICATION SerialSpec
CONSTANTS
  b1 = b1
  b2 = b2
  s1 = s1
  s2 = s2
  p1 = p1
  p2 = p2
  u1 = u1
  NoUser = NoUser
  Browsers = {b1, b2}
  Slots = {s1, s2}
  Providers = {p1}
  Users = {u1}
  MaxPending = 2
  PendingTtl = 1
  SessionTtl = 1
  MaxAttempts = 3
  MaxIds = 2
  MaxTime = 1
INVARIANTS
  SingleUse
  SignOutFinal
  AttemptsKept
SYMMETRY Symmetry
