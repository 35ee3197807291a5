\* A replay that overlaps a rotation leaves a valid row in the family.
SPECIFICATION Spec
CONSTANTS
  r1 = r1  r2 = r2  r3 = r3  r4 = r4
  t1 = t1  t2 = t2  t3 = t3  t4 = t4
  u1 = u1
  None = None
  Requests <- FourRequests
  Tokens <- FourTokens
  Users <- OneUser
  MaxAttempts = 1
  MaxInFlight = 3
SYMMETRY Symmetry
PROPERTY ReplayRevokesEveryRow
