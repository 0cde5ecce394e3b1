SPECIFICATION WSSpec
CONSTANTS
  Sessions = {s1, s2, s3, s4}
  Requests = {r1, r2}
  Threshold = 2
  MaxActive = 2
  MaxChanges = 1
  None = None
SYMMETRY Symmetry
INVARIANTS SessionLimit SessionsAreOfThePassword AttemptsAreLimited
PROPERTIES EndedSessionsStayEnded LockoutHolds
CHECK_DEADLOCK FALSE
