\* Two requests or runs of a seed of any kind, three of some, one after the
\* other or overlapping.
INIT MCInit
NEXT NextStep
CONSTANTS
  r1 = r1  r2 = r2  r3 = r3  p1 = p1  l1 = l1  s1 = s1  s2 = s2
  None = None
  Requests <- TheRequests
  Existing <- TheReviews
  Samples = {1, 2}
  Loads <- TheLoads
  PageSize = 1
  Pages = {1, 2}
  Letters <- TheLetters
  Works <- TheSlugs
  Published <- ThePublished
  ProjectSeed <- TheProjectSeed
  ReviewSeed <- TheReviewSeed
SYMMETRY Symmetry
INVARIANTS
  SeedsTypeOK
  RemovedStaysRemoved
  AtMostOneBare
PROPERTIES
  ImplementsReviewStore
  SavesTakeEffect
