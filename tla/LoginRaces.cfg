SPECIFICATION Spec
CONSTANTS
  Users = {u1}
  Ids = {i1, i2}
  Keys = {k1, k2}
  Requests = {r1, r2}
  MaxGen = 4
  None = None
SYMMETRY Symmetry
INVARIANT SessionMatchesIdentity
PROPERTY PrincipalsHaveGenerations
CHECK_DEADLOCK FALSE
