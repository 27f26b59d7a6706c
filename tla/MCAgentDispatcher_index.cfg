\* Two consents of one key, of which the second replaces the first in the cache.
SPECIFICATION Spec
CONSTANTS
  Requests = {r1, r2}
  Users = {u1}
  Scopes = {s1}
  None = None
INVARIANT IndexMatchesCache
CHECK_DEADLOCK FALSE
