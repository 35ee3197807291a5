----------------------------- MODULE MCProjects -----------------------------
(* Projects on small instances; the bounds are in the .cfg files.           *)
EXTENDS Projects, TLC

CONSTANTS r1, r2, r3, p1, s1, s2, k1, k2

TwoRequests == {r1, r2}
ThreeRequests == {r1, r2, r3}
OneProject == {p1}
TwoSlugs == {s1, s2}
OneLink == {k1}
TwoLinks == {k1, k2}

\* Bodies that set one field.
Rename(s) == [EmptyBody EXCEPT !.slug = s]
Publish(b) == [EmptyBody EXCEPT !.published = b]
List(links) == [EmptyBody EXCEPT !.links = links]

SlugPatches == {Rename(s) : s \in TwoSlugs}

\* In the bodies of updates each field is absent, or set to what the project
\* has, or to something else.
FullPatch == [slug |-> s2, published |-> TRUE, links |-> OneLink]
OverlapPatches == {Rename(s2), List({}), FullPatch}
TurnPatches == {Rename(s2), Publish(TRUE), List({}), List({k2}), FullPatch}
AllPatches == OverlapPatches \cup TurnPatches

Symmetry == Permutations(Requests)
=============================================================================
