\* Three requests of two users for one scope.
SPECIFICATION Spec
CONSTANTS
  Requests = {r1, r2, r3}
  Users = {u1, u2}
  Scopes = {s1}
  None = None
SYMMETRY Symmetry
INVARIANTS
  TypeOK
  KeyIsolation
  RevokedNotServed
  RefusedMeansNoToken
PROPERTY
  ImplementsRevocableCache
\* All requests answered, the agent rests.
CHECK_DEADLOCK FALSE
