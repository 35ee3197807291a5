\* Four requests of one user, overlapping freely or one at a time.
INIT MCInit
NEXT MCNext
CONSTANTS
  r1 = r1  r2 = r2  r3 = r3  r4 = r4
  t1 = t1  t2 = t2  t3 = t3  t4 = t4
  u1 = u1
  None = None
  Requests <- FourRequests
  Tokens <- FourTokens
  Users <- OneUser
  MaxAttempts = 2
  MaxInFlight = 4
SYMMETRY Symmetry
INVARIANTS
  TypeOK
  LinksStayInFamily
  ChainsEnd
  AnswersStayTrue
PROPERTIES
  SpentTokenGainsNoRotation
  ClosedFamilyStaysClosed
  GoneUserGetsNoRows
  ImplementsTokenFamilies
  ReplayRevokesEveryRowInTurn
  ImplementsDocumentedFamiliesInTurn
