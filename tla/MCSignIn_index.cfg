SPECIFICATION Spec
CONSTANTS
  u1 = u1  i1 = i1  t1 = t1  t2 = t2
  Users = {u1}
  States = {s1}
  Requests = {x1}
  Sids = {i1}
  Tokens = {t1}
  Deliveries = {d1}
  None = None
  SidUser <- OneSid
  TokenSid <- OneToken
  NamesSub = {}
  LoginCap = 1  LoginTTL = 1  SeenCap = 1  Tolerance = 1  Skew = 0  MaxTime = 0
INVARIANT SidIndexLive
CHECK_DEADLOCK FALSE
