------------------------------ MODULE MCSeeds ------------------------------
(* The admin's desk and the seeds on a small instance: two slugs, one of   *)
(* them unpublished, and a seed with an approved and a pending review.     *)
EXTENDS Seeds, TLC

CONSTANTS r1, r2, r3, p1, l1, s1, s2

TheRequests == {r1, r2, r3}
TheReviews == {p1}
TheLetters == {l1}
TheSlugs == {s1, s2}
ThePublished == {s2}
TheProjectSeed == <<s1, s2>>
TheReviewSeed ==
  <<[state |-> "listed", comments |-> 2], [state |-> "waiting", comments |-> 0]>>

AllServices == {"reviews", "lists", "inbox", "stats", "superuser", "projectSeed",
                "reviewSeed"}
Load(services, total, atOnce) ==
  [services |-> services, total |-> total, atOnce |-> atOnce]

\* Any two requests, one after the other or overlapping, and three of those
\* that have the most to do with each other.
TheLoads ==
  {Load(AllServices, 2, 1), Load(AllServices, 2, 2), Load({"reviews"}, 3, 3),
   Load({"projectSeed"}, 3, 3)}

\* The inbox starts unread; the rows a load does not touch, in one state.
MCInit ==
  /\ Init
  /\ \A l \in Letters : contacts[l] = "pending"
  /\ {"projectSeed", "stats"} \cap load.services = {} => \A w \in Works : works[w] = "absent"
  /\ "superuser" \notin load.services => superuser = None

Symmetry == Permutations(Requests)
=============================================================================
