\* One browser that awaits one answer at a time, and may give up on it.
SPECIFICATION SessionSpec
CONSTANTS
  r1 = r1  r2 = r2  r3 = r3  r4 = r4  r5 = r5
  t1 = t1  t2 = t2  t3 = t3  t4 = t4  t5 = t5
  u1 = u1  u2 = u2
  None = None
  Requests <- FourRequests
  Tokens <- FourTokens
  Users <- OneUser
  MaxAttempts = 1
  MaxInFlight = 2
  MaxOpen = 1
SYMMETRY Symmetry
INVARIANTS
  NoFalseAlarm
  CookieIsTheLastToken
  LogoutEndsTheSession
