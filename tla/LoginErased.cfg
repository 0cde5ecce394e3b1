SPECIFICATION Spec
CONSTANTS
  Users = {u1}
  Ids = {i1}
  Keys = {k1}
  Requests = {r1, r2}
  MaxGen = 1
  None = None
PROPERTY ErasesOnlyUnauthorized
CHECK_DEADLOCK FALSE
