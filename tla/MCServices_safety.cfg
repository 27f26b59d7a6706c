SPECIFICATION ServicesSpec
CONSTANTS
  t1 = t1  t2 = t2  t3 = t3
  Tokens = {t1, t2, t3}
  Strays = {s1}
  None = None
  Exp <- Expiries3
  Cap = 2  Limit = 2  Window = 1  Leeway = 2  MaxTime = 2  MaxRestarts = 1
  ann = ann  hrm = hrm
  Employees = {ann, hrm}
  NoName = NoName
  UserOf <- Names
  Granted <- Scopes2
  Types = {"annual"}
  Allowance <- Annual
  Lengths = {1, 2}
  NumCubicles = 2
  MaxRequests = 2  MaxResets = 1
  Staff = {ann, hrm}
  NameOf <- Names
  Nobody = Nobody
  mac = mac  spare = spare
  Assets = {mac, spare}
  Catalogue <- Stock
  x1 = x1  x2 = x2
  Calls = {x1, x2}
  Kids = {ka, kb}
  FirstKid = ka
  TTL = 1  Transit = 1  Skew = 1  ClockMax = 3
  Expiries = {2}
  Callers = {y1, y2, y3}
  CacheMax = 2  Buffer = 1  Lifetime = 5  Delay = 1  MaxSteps = 2  LastTick = 4
  Tabs = {tab}
  j1 = j1  j2 = j2
  Jobs = {j1, j2}
  Tools = 1  MaxStreams = 2
  NoConsent = NoConsent
  Roles <- BothRoles
  MaxCues = 2  MaxTurns = 2
SYMMETRY Symmetry
INVARIANTS
  ServicesTypeOK
  AckedIsRefused RecentStay RateBound
  BalancesAddUp AnswersStand CubicleFound
  StockAddsUp AssetsFound
  PublishedKeyFound TrustEnds
  SingleFlight DeactivationLag
  ScreenUsable
  ConsentFitsCall
CHECK_DEADLOCK FALSE
