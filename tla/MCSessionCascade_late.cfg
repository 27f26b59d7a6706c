\* One session, one chat, one logout: a token minted behind the barrier.
SPECIFICATION Spec
CONSTANTS
  Users = {u1}
  Sids = {s1}
  Chats = {c1}
  Cascades = {k1}
  Agent = agent
  Receivers = {agent}
  MaxCalls = 1  ReasonCap = 1
  None = None
INVARIANT NoTokenSurvives
CHECK_DEADLOCK FALSE
