\* The agent: two requests of one user.  Sign-in: two users, one logout token.
SPECIFICATION BothFair
CONSTANTS
  Requests = {r1, r2}
  Users = {u1}
  Scopes = {s1}
  None = None
  v1 = v1  i1 = i1  i2 = i2  t1 = t1
  SignInUsers = {v1, v2}
  States = {l1, l2}
  SignInRequests = {x1, x2}
  Sids = {i1, i2}
  LogoutTokens = {t1}
  Deliveries = {d1}
  SidUser <- TwoSids
  TokenSid <- OneToken
  NamesSub = {}
  LoginCap = 2  LoginTTL = 0  SeenCap = 1  Tolerance = 1  Skew = 0  MaxTime = 0
PROPERTIES
  ConsentEnds
  AwaitAnswered
  QuietCancelMintsNothing
  NamedSessionsEnd
\* All requests answered, the agent rests; the same goes for the orchestrator.
CHECK_DEADLOCK FALSE
