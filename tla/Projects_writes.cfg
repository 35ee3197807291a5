\* Three requests, all open at once or one at a time: creates, updates and
\* deletes.
INIT MCInit
NEXT MCNext
CONSTANTS
  r1 = r1  r2 = r2  r3 = r3  p1 = p1
  s1 = s1  s2 = s2  k1 = k1  k2 = k2
  None = None
  Requests <- ThreeRequests
  Existing <- OneProject
  Slugs <- TwoSlugs
  Links <- TwoLinks
  Patches <- AllPatches
  MaxAttempts = 2
  MaxInFlight = 3
SYMMETRY Symmetry
INVARIANTS
  TypeOK
  SomeoneCanGoOn
  RemovedStaysRemovedInTurn
PROPERTIES
  ConflictsAreReal
  ImplementsProjectStore
  OnlyNamedFieldsChangeInTurn
  ImplementsDocumentedStoreInTurn
