\* An update overlaps with the delete of its project.
SPECIFICATION Spec
CONSTANTS
  r1 = r1  r2 = r2  r3 = r3  p1 = p1
  s1 = s1  s2 = s2  k1 = k1  k2 = k2
  None = None
  Requests <- TwoRequests
  Existing <- OneProject
  Slugs <- TwoSlugs
  Links <- OneLink
  Patches <- SlugPatches
  MaxAttempts = 2
  MaxInFlight = 2
INVARIANTS
  RemovedStaysRemoved
