SPECIFICATION Spec
CONSTANTS
  t1 = t1
  Tokens = {t1}
  Strays = {s1}
  None = None
  Exp <- OneExpiry
  Cap = 2  Limit = 3  Window = 1  Leeway = 2  MaxTime = 2  MaxRestarts = 0
INVARIANT RevokedStaysRefused
CHECK_DEADLOCK FALSE
