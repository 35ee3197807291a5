\* Three overlapping requests, fair handlers.
SPECIFICATION FairSpec
CONSTANTS
  r1 = r1  r2 = r2  r3 = r3  r4 = r4
  t1 = t1  t2 = t2  t3 = t3  t4 = t4
  u1 = u1
  None = None
  Requests <- ThreeRequests
  Tokens <- ThreeTokens
  Users <- OneUser
  MaxAttempts = 3
  MaxInFlight = 3
PROPERTY RequestsAreAnswered
