\* One user, two sessions, two chats of one tool call, two logouts.
SPECIFICATION FocusedSpec
CONSTANTS
  Users = {u1}
  Sids = {s1, s2}
  Chats = {c1, c2}
  Cascades = {k1, k2}
  Agent = agent
  Receivers = {agent, server}
  MaxCalls = 1  ReasonCap = 1
  None = None
SYMMETRY Symmetry
INVARIANTS
  TypeOK
  NoSessionStuckFenced
  TornDownOnce
  RemovalComesLast
  PendingIsAwaited
  ReasonToldOnce
  RevokedNotCached
PROPERTY ImplementsSignOut
\* All sessions used and signed out, the system rests.
CHECK_DEADLOCK FALSE
