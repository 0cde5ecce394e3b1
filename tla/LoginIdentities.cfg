SPECIFICATION Spec
CONSTANTS
  Users = {u1, u2}
  Ids = {i1}
  Keys = {k1, k2}
  Requests = {r1, r2}
  MaxGen = 2
  None = None
SYMMETRY Symmetry
PROPERTY LogOutSparesConnected
CHECK_DEADLOCK FALSE
