\* Two users, so that one's logout meets the other's sessions; fair scheduling.
SPECIFICATION FairFocusedSpec
CONSTANTS
  Users = {u1, u2}
  Sids = {s1, s2}
  Chats = {c1}
  Cascades = {k1, k2}
  Agent = agent
  Receivers = {agent, server}
  MaxCalls = 1  ReasonCap = 1
  None = None
INVARIANTS
  OnlyOwnSessions
  ReasonToldOnce
PROPERTIES
  ChatAnswered
  LogoutEndsSessions
\* All sessions used and signed out, the system rests.
CHECK_DEADLOCK FALSE
