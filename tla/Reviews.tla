------------------------------ MODULE Reviews ------------------------------
(***************************************************************************)
(* src/src/reviews/reviews.service.ts: reviews and their comments, written *)
(* by visitors and moderated by the admin, in requests that interleave at  *)
(* every await.  No handler here opens a transaction of its own.           *)
(*                                                                         *)
(*   idle -> created | removed                          one statement      *)
(*   idle -> save -> (write | insert) -> saved          toggleApproval     *)
(*   idle -> comment -> commented                       addComment         *)
(*   idle -> (comments) -> (count) -> listed            the lists          *)
(*   ... -> notFound | broken | error     404, a constraint's 500, no answer *)
(***************************************************************************)
EXTENDS Integers, FiniteSets

CONSTANTS
  Requests,
  Existing,  \* reviews that are there from the start
  Samples,   \* numbers the reviews one request inserts, and their comments
  Loads,     \* what the clients may ask for, [services, total, atOnce]: of
             \* which services, how many requests, how many open at a time
  PageSize,  \* the rows of a page
  Pages,     \* the pages the clients ask for
  None

ReviewIds == Existing \cup (Requests \X Samples)

ASSUME NoneIsNoReview == None \notin ReviewIds
ASSUME NewReviewsAreNew == Existing \cap (Requests \X Samples) = {}
ASSUME FirstSample == 1 \in Samples
ASSUME LoadsAreLoads == Loads \subseteq [services : SUBSET STRING, total : Nat, atOnce : Nat]
ASSUME PagesAreNumbers == PageSize \in Nat \ {0} /\ Pages \subseteq Nat \ {0}

VARIABLES
  reviews,   \* the table reviews: "waiting", "listed" or "absent"
  comments,  \* the table review_comments
  pc,        \* per request: its next statement, or its answer
  target,    \* per request: the row it is about
  entity,    \* per request: the column it saves, or what it lists
  counts,    \* per request: the page it reads, its rows, and their total
  load       \* what the clients ask for in this behaviour

tables == <<reviews, comments>>
locals == <<target, entity, counts>>
reviewVars == <<tables, pc, locals, load>>

Stored(p) == reviews[p] # "absent"
CommentsOf(p) == {c \in comments : c.review = p}
NewComments(r, p, n) == {[review |-> p, by |-> r, nr |-> k, approved |-> FALSE] : k \in 1 .. n}

\* The answers, those of the statistics and the ends of the seeds included.
Done == {"created", "removed", "saved", "commented", "listed", "notFound", "broken", "error",
         "counted", "seeded", "present"}
Open(r) == pc[r] \notin {"idle"} \cup Done
CanStart(r, service) ==
  /\ pc[r] = "idle"
  /\ service \in load.services
  /\ Cardinality({q \in Requests : pc[q] # "idle"}) < load.total
  /\ Cardinality({q \in Requests : Open(q)}) < load.atOnce
Goto(r, label) == pc' = [pc EXCEPT ![r] = label]

\* An answer to a statement that has written, or its loss.
Answered(r, label) == \E answer \in {label, "error"} : Goto(r, answer)

\* What the clients have sent one after the other.
Serial == load.atOnce = 1

Store == INSTANCE ReviewStore WITH
  Ids     <- ReviewIds,
  Authors <- Requests \X Samples,
  waiting <- {p \in ReviewIds : reviews[p] = "waiting"},
  listed  <- {p \in ReviewIds : reviews[p] = "listed"},
  threads <- {<<c.review, <<c.by, c.nr>>>> : c \in comments}

Saved == INSTANCE SaveById WITH table <- reviews, Absent <- "absent"

ReviewInit ==
  /\ \E start \in [Existing -> {"waiting", "listed"}] :
       reviews = [p \in ReviewIds |-> IF p \in Existing THEN start[p] ELSE "absent"]
  /\ comments = {}
  /\ pc     = [r \in Requests |-> "idle"]
  /\ target = [r \in Requests |-> None]
  /\ entity = [r \in Requests |-> "absent"]
  /\ counts = [r \in Requests |-> [page |-> 1, rows |-> 0, total |-> 0]]
  /\ load \in Loads

-----------------------------------------------------------------------------
\* A review is stored and waits for the admin, whatever the body says.
Create(r) ==
  /\ CanStart(r, "reviews")
  /\ reviews' = [reviews EXCEPT ![<<r, 1>>] = "waiting"]
  /\ Answered(r, "created")
  /\ UNCHANGED <<comments, locals, load>>

Flip(state) == IF state = "waiting" THEN "listed" ELSE "waiting"

\* A faulty variant: approving, not toggling.
ToggleApproval_Approves(r, p) ==
  /\ CanStart(r, "reviews")
  /\ target' = [target EXCEPT ![r] = p]
  /\ Goto(r, IF Stored(p) THEN "save" ELSE "notFound")
  /\ entity' = [entity EXCEPT ![r] = IF Stored(p) THEN "listed" ELSE @]
  /\ UNCHANGED <<tables, counts, load>>

\* A faulty variant: a missing row is a new one.
ToggleApproval_NoCheck(r, p) ==
  /\ CanStart(r, "reviews")
  /\ target' = [target EXCEPT ![r] = p]
  /\ Goto(r, "save")
  /\ entity' = [entity EXCEPT ![r] = Flip(reviews[p])]
  /\ UNCHANGED <<tables, counts, load>>

\* toggleApproval up to its findOne; the rest is Saved!Save.
ToggleApproval(r, p) ==
  /\ CanStart(r, "reviews")
  /\ target' = [target EXCEPT ![r] = p]
  /\ Goto(r, IF Stored(p) THEN "save" ELSE "notFound")
  /\ entity' = [entity EXCEPT ![r] = IF Stored(p) THEN Flip(reviews[p]) ELSE @]
  /\ UNCHANGED <<tables, counts, load>>

\* A faulty variant: no ON DELETE CASCADE.
Remove_KeepsComments(r, p) ==
  /\ CanStart(r, "reviews")
  /\ target' = [target EXCEPT ![r] = p]
  /\ \/ ~Stored(p) /\ Goto(r, "notFound") /\ UNCHANGED tables
     \/ /\ Stored(p)
        /\ reviews' = [reviews EXCEPT ![p] = "absent"]
        /\ Answered(r, "removed")
        /\ UNCHANGED comments
  /\ UNCHANGED <<entity, counts, load>>

\* One DELETE, which the foreign key extends to the comments.
Remove(r, p) ==
  /\ CanStart(r, "reviews")
  /\ target' = [target EXCEPT ![r] = p]
  /\ \/ ~Stored(p) /\ Goto(r, "notFound") /\ UNCHANGED tables
     \/ /\ Stored(p)
        /\ reviews' = [reviews EXCEPT ![p] = "absent"]
        /\ comments' = comments \ CommentsOf(p)
        /\ Answered(r, "removed")
  /\ UNCHANGED <<entity, counts, load>>

\* addComment up to its findOne: a parent that waits will do.
AddComment(r, p) ==
  /\ CanStart(r, "reviews")
  /\ target' = [target EXCEPT ![r] = p]
  /\ Goto(r, IF Stored(p) THEN "comment" ELSE "notFound")
  /\ UNCHANGED <<tables, entity, counts, load>>

\* The INSERT of the comment.  When the parent has been deleted since, the
\* foreign key makes it a 500.
InsertComment(r) ==
  /\ pc[r] = "comment"
  /\ \/ ~Stored(target[r]) /\ Goto(r, "broken") /\ UNCHANGED comments
     \/ /\ Stored(target[r])
        /\ comments' = comments \cup NewComments(r, target[r], 1)
        /\ Answered(r, "commented")
  /\ UNCHANGED <<reviews, locals, load>>

-----------------------------------------------------------------------------
(***************************************************************************)
(* The lists: getManyAndCount reads the rows of one page and, only when    *)
(* they leave the total open, counts in a second statement.                *)
(***************************************************************************)
Skipped(page) == (page - 1) * PageSize

\* How many of n rows are on a page.
RowsOnPage(n, page) ==
  Cardinality({k \in 1 .. n : k > Skipped(page) /\ k <= Skipped(page) + PageSize})

\* A page that is neither full nor beyond the end tells the total.
ReadPage(r, page, n, counting) ==
  LET rows == RowsOnPage(n, page)
      known == rows < PageSize /\ (page = 1 \/ rows > 0)
  IN /\ counts' = [counts EXCEPT ![r] =
                     [page |-> page, rows |-> rows, total |-> Skipped(page) + rows]]
     /\ Goto(r, IF known THEN "listed" ELSE counting)

CountRows(r, n) ==
  /\ counts' = [counts EXCEPT ![r].total = n]
  /\ Goto(r, "listed")
  /\ UNCHANGED <<tables, target, entity, load>>

Matching(filter) == {p \in ReviewIds : Stored(p) /\ filter \in {"any", reviews[p]}}
ApprovedComments(p) == {c \in CommentsOf(p) : c.approved}

\* Up to the result of the first query.
FindAll(r, filter, page) ==
  /\ CanStart(r, "lists")
  /\ entity' = [entity EXCEPT ![r] = filter]
  /\ ReadPage(r, page, Cardinality(Matching(filter)), "count")
  /\ UNCHANGED <<tables, target, load>>

\* The public list, and the admin's, with its filter or without.
FindAllApproved(r, page) == FindAll(r, "listed", page)
FindAllForAdmin(r, page) == \E filter \in {"waiting", "any"} : FindAll(r, filter, page)

Count(r) == pc[r] = "count" /\ CountRows(r, Cardinality(Matching(entity[r])))

\* findApprovedCommentsByReviewId up to its findOne: a review that waits is
\* answered like one that is not there.
ListComments(r, p, page) ==
  /\ CanStart(r, "lists")
  /\ target' = [target EXCEPT ![r] = p]
  /\ counts' = [counts EXCEPT ![r].page = page]
  /\ Goto(r, IF reviews[p] = "listed" THEN "comments" ELSE "notFound")
  /\ UNCHANGED <<tables, entity, load>>

ReadComments(r) ==
  /\ pc[r] = "comments"
  /\ ReadPage(r, counts[r].page, Cardinality(ApprovedComments(target[r])), "countComments")
  /\ UNCHANGED <<tables, target, entity, load>>

CountComments(r) ==
  pc[r] = "countComments" /\ CountRows(r, Cardinality(ApprovedComments(target[r])))

\* The process or the connection goes: nothing of an open statement stays.
Fail(r) ==
  /\ Open(r)
  /\ Goto(r, "error")
  /\ UNCHANGED <<tables, locals, load>>

ReviewArrives(r) ==
  \/ Create(r)
  \/ \E p \in ReviewIds : ToggleApproval(r, p) \/ Remove(r, p) \/ AddComment(r, p)
  \/ \E page \in Pages :
       \/ FindAllApproved(r, page) \/ FindAllForAdmin(r, page)
       \/ \E p \in ReviewIds : ListComments(r, p, page)

ReviewStep(r) ==
  \/ ReviewArrives(r)
  \/ Saved!Save(r) /\ UNCHANGED <<comments, counts, load>>
  \/ InsertComment(r) \/ Count(r) \/ ReadComments(r) \/ CountComments(r) \/ Fail(r)

Next == \E r \in Requests : ReviewStep(r)

Spec == ReviewInit /\ [][Next]_reviewVars

-----------------------------------------------------------------------------
(***************************************************************************)
(* Properties.                                                             *)
(***************************************************************************)

ReviewsTypeOK ==
  /\ reviews \in [ReviewIds -> {"waiting", "listed", "absent"}]
  /\ comments \subseteq [review : ReviewIds, by : Requests, nr : Samples, approved : BOOLEAN]
  /\ \A r \in Requests : counts[r].page \in Pages \cup {1}

\* Whatever overlaps, the handlers implement ReviewStore: a comment never
\* outlives its review, and a request writes one review at a time.
ImplementsReviewStore == Store!Spec

\* "DELETE /api/v1/admin/reviews/:id": a review whose delete was answered
\* stays away, unless a toggle that has read it before saves it again.
RemovedStaysRemoved ==
  Serial => \A r \in Requests : pc[r] = "removed" /\ target[r] \in ReviewIds => ~Stored(target[r])

=============================================================================
