------------------------------- MODULE Seeds -------------------------------
(***************************************************************************)
(* src/src/cli: the three seeds, run from the command line beside the      *)
(* server, on the tables it works on.  Each statement is its own           *)
(* transaction; what a failed run has written stays.                       *)
(*                                                                         *)
(*   idle -> change | new -> seeded                        seed-superuser  *)
(*   idle -> work -> urls -> work -> ... -> seeded         seed-projects   *)
(*   idle -> review -> (seedComments) -> ... -> seeded     seed-reviews    *)
(*                                                                         *)
(* A unique constraint ends a run with exit code 1: "present" when a seed  *)
(* before has inserted the slug, "broken" when only a race explains it.    *)
(***************************************************************************)
EXTENDS AdminDesk, Sequences

CONSTANTS
  ProjectSeed,  \* the SEED of seed-projects: its slugs, in order
  ReviewSeed    \* the SEED of seed-reviews: [state, comments] of each

ASSUME SlugsAreWorks == ProjectSeed \in Seq(Works) /\ Len(ProjectSeed) > 0
ASSUME SeedsAreSamples ==
  /\ ReviewSeed \in Seq([state : {"waiting", "listed"}, comments : Nat])
  /\ DOMAIN ReviewSeed \subseteq Samples /\ Len(ReviewSeed) > 0
  /\ \A i \in DOMAIN ReviewSeed : 1 .. ReviewSeed[i].comments \subseteq Samples

VARIABLES
  superuser,  \* the row of users with SUPERUSER_EMAIL: whose password, if any
  place       \* per run: the element of its SEED it is at

seedVars == <<superuser, place>>
vars == <<reviewVars, desk, tally, seedVars>>
OnlyLocals == UNCHANGED <<comments, reviews, contacts, locals, tally, load>>

Init ==
  /\ DeskInit
  /\ superuser \in {None, "owner"}
  /\ place = [r \in Requests |-> 1]

-----------------------------------------------------------------------------
\* seedSuperuser up to its findOne.
SeedSuperuser(r) ==
  /\ CanStart(r, "superuser")
  /\ Goto(r, IF superuser = None THEN "new" ELSE "change")
  /\ OnlyLocals /\ UNCHANGED <<works, seedVars>>

ChangePassword(r) ==
  /\ pc[r] = "change"
  /\ superuser' = r
  /\ Answered(r, "seeded")
  /\ OnlyLocals /\ UNCHANGED <<works, place>>

\* The e-mail address is unique: the second of two first runs fails.
InsertSuperuser(r) ==
  /\ pc[r] = "new"
  /\ \/ superuser = None /\ superuser' = r /\ Answered(r, "seeded")
     \/ superuser # None /\ Goto(r, "broken") /\ UNCHANGED superuser
  /\ OnlyLocals /\ UNCHANGED <<works, place>>

-----------------------------------------------------------------------------
\* The start of a run; with SEED_DRY_RUN it returns without a statement.
StartProjectSeed(r) ==
  /\ CanStart(r, "projectSeed")
  /\ \E label \in {"work", "seeded"} : Goto(r, label)
  /\ OnlyLocals /\ UNCHANGED <<works, seedVars>>

StartReviewSeed(r) ==
  /\ CanStart(r, "reviewSeed")
  /\ \E label \in {"review", "seeded"} : Goto(r, label)
  /\ OnlyLocals /\ UNCHANGED <<works, seedVars>>

\* After an element of the seed: the next one, or the end of the run.
NextElement(r, seed, label) ==
  /\ place' = [place EXCEPT ![r] = @ + 1]
  /\ \/ Goto(r, IF place[r] < Len(seed) THEN label ELSE "seeded")
     \/ Goto(r, "error")

\* A faulty variant: a slug that is there already is passed over.
InsertWork_SkipsPresent(r) ==
  /\ pc[r] = "work"
  /\ LET slug == ProjectSeed[place[r]]
     IN \/ /\ works[slug] = "absent"
           /\ works' = [works EXCEPT ![slug] = "bare"]
           /\ Answered(r, "urls")
           /\ UNCHANGED place
        \/ /\ works[slug] # "absent"
           /\ NextElement(r, ProjectSeed, "work")
           /\ UNCHANGED works
  /\ OnlyLocals /\ UNCHANGED superuser

\* projectRepo.save: the slug is unique, a run after another stops here.
InsertWork(r) ==
  /\ pc[r] = "work"
  /\ LET slug == ProjectSeed[place[r]]
     IN \/ /\ works[slug] = "absent"
           /\ works' = [works EXCEPT ![slug] = "bare"]
           /\ Answered(r, "urls")
        \/ works[slug] # "absent" /\ Goto(r, "present") /\ UNCHANGED works
  /\ OnlyLocals /\ UNCHANGED seedVars

\* The urls follow in a statement of their own.
InsertUrls(r) ==
  /\ pc[r] = "urls"
  /\ works' = [works EXCEPT ![ProjectSeed[place[r]]] = "linked"]
  /\ NextElement(r, ProjectSeed, "work")
  /\ OnlyLocals /\ UNCHANGED superuser

-----------------------------------------------------------------------------
\* reviewRepo.save, approved or not as the seed says: nothing is unique.
InsertReview(r) ==
  /\ pc[r] = "review"
  /\ LET seed == ReviewSeed[place[r]]
     IN /\ reviews' = [reviews EXCEPT ![<<r, place[r]>>] = seed.state]
        /\ \/ seed.comments > 0 /\ Answered(r, "seedComments") /\ UNCHANGED place
           \/ seed.comments = 0 /\ NextElement(r, ReviewSeed, "review")
  /\ UNCHANGED <<comments, desk, locals, tally, load, superuser>>

\* All comments of the review, in one INSERT; the admin may have deleted it.
InsertSeedComments(r) ==
  LET p == <<r, place[r]>>
  IN /\ pc[r] = "seedComments"
     /\ \/ ~Stored(p) /\ Goto(r, "broken") /\ UNCHANGED <<comments, place>>
        \/ /\ Stored(p)
           /\ comments' = comments \cup NewComments(r, p, ReviewSeed[place[r]].comments)
           /\ NextElement(r, ReviewSeed, "review")
     /\ UNCHANGED <<reviews, desk, locals, tally, load, superuser>>

SeedStep(r) ==
  \/ SeedSuperuser(r) \/ ChangePassword(r) \/ InsertSuperuser(r)
  \/ StartProjectSeed(r) \/ StartReviewSeed(r) \/ InsertWork(r) \/ InsertUrls(r)
  \/ InsertReview(r) \/ InsertSeedComments(r)

Step(r) ==
  \/ DeskStep(r) /\ UNCHANGED seedVars
  \/ SeedStep(r)

\* With no request open the server waits, maybe for ever.
Idle == (\A r \in Requests : ~Open(r)) /\ UNCHANGED vars

NextStep == Idle \/ \E r \in Requests : Step(r)

SeedsSpec == Init /\ [][NextStep]_vars

-----------------------------------------------------------------------------
(***************************************************************************)
(* Properties.                                                             *)
(***************************************************************************)

SeedsTypeOK ==
  /\ DeskTypeOK
  /\ superuser \in {None, "owner"} \cup Requests
  /\ place \in [Requests -> Nat \ {0}]

\* However many runs of seed-projects overlap or fail half-way, at most one
\* project is left without its urls: the first slug stops every later run.
\* (As long as the admin neither deletes nor creates a project with a slug of
\* the seed: that is outside this module.)
AtMostOneBare == Cardinality({w \in Works : works[w] = "bare"}) <= 1
=============================================================================
