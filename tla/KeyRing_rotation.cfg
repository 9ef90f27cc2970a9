SPECIFICATION Spec
CONSTANTS
  t1 = t1
  t2 = t2
  t3 = t3
  None = None
  Token = {t1, t2, t3}
  Rotation = 3
  TTL = 2
  MaxLag = 1
  MaxKeys = 4
  Horizon = 7
SYMMETRY Symmetry
CHECK_DEADLOCK FALSE
INVARIANTS HonouredInFlight RevokedStaysDead
