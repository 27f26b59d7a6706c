SPECIFICATION Spec
CONSTANTS
  u1 = u1  i1 = i1  t1 = t1  t2 = t2
  Users = {u1}
  States = {s1, s2}
  Requests = {x1, x2}
  Sids = {i1}
  Tokens = {t1, t2}
  Deliveries = {d1, d2}
  None = None
  SidUser <- OneSid
  TokenSid <- BothTokens
  NamesSub = {t1}
  LoginCap = 1  LoginTTL = 1  SeenCap = 1  Tolerance = 1  Skew = 0  MaxTime = 2
CONSTRAINT FewCascades
SYMMETRY Symmetry
INVARIANTS TypeOK OneExchangePerState SignInStaysOpen RunsOnce
CHECK_DEADLOCK FALSE
