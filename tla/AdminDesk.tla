----------------------------- MODULE AdminDesk -----------------------------
(***************************************************************************)
(* What the admin sees and moderates beside the reviews: the inbox of      *)
(* src/src/contact/contact.service.ts (its list and updateStatus) and the  *)
(* statistics of src/src/stats/stats.service.ts.                           *)
(*                                                                         *)
(*   idle -> save -> (write | insert) -> saved      updateStatus           *)
(*   idle -> (countLetters) -> listed               the list of the inbox  *)
(*   idle -> stats -> counted                       four counts, any order *)
(***************************************************************************)
EXTENDS Reviews

CONSTANTS
  Letters,    \* the contacts
  Works,      \* the projects, by their slug
  Published   \* those of them that are published

ASSUME PublishedAreWorks == Published \subseteq Works
ASSUME LettersAreNoReviews == Letters \cap ReviewIds = {}

VARIABLES
  contacts,  \* the table contacts: their status
  works,     \* the table projects: "absent", "old" (of an earlier month),
             \* and of this month "bare" or "linked" (with its urls)
  tally      \* per request for the statistics: the counts that are back

desk == <<contacts, works>>
Statuses == {"pending", "read", "replied"}
Figures == {"activeWorks", "activeWorksThisMonth", "reviewsPending", "inboxPending"}
Awaited == -1

InboxSaved == INSTANCE SaveById WITH table <- contacts, Absent <- "gone"

DeskInit ==
  /\ ReviewInit
  /\ contacts \in [Letters -> Statuses]
  /\ works \in [Works -> {"absent", "old"}]
  /\ tally = [r \in Requests |-> [f \in Figures |-> Awaited]]

-----------------------------------------------------------------------------
\* A faulty variant: the status is not validated.
UpdateStatus_AnyText(r, l) ==
  /\ CanStart(r, "inbox")
  /\ target' = [target EXCEPT ![r] = l]
  /\ \E status \in Statuses \cup {"archived"} : entity' = [entity EXCEPT ![r] = status]
  /\ Goto(r, "save")
  /\ UNCHANGED <<tables, desk, counts, tally, load>>

\* updateStatus up to its findOne, for any status; the rest is
\* InboxSaved!Save.  No operation deletes a contact.
UpdateStatus(r, l) ==
  /\ CanStart(r, "inbox")
  /\ target' = [target EXCEPT ![r] = l]
  /\ \E status \in Statuses : entity' = [entity EXCEPT ![r] = status]
  /\ Goto(r, "save")
  /\ UNCHANGED <<tables, desk, counts, tally, load>>

FindAllContacts(r, page) ==
  /\ CanStart(r, "inbox")
  /\ ReadPage(r, page, Cardinality(Letters), "countLetters")
  /\ UNCHANGED <<tables, desk, target, entity, tally, load>>

CountLetters(r) ==
  /\ pc[r] = "countLetters" /\ CountRows(r, Cardinality(Letters))
  /\ UNCHANGED <<desk, tally>>

ActiveWorks == {w \in Published : works[w] # "absent"}

ActiveWorksThisMonth == {w \in ActiveWorks : works[w] # "old"}

\* What each query of getAdminStats counts.
Rows(figure) ==
  CASE figure = "activeWorks" -> ActiveWorks
    [] figure = "activeWorksThisMonth" -> ActiveWorksThisMonth
    [] figure = "reviewsPending" -> Matching("waiting")
    [] figure = "inboxPending" -> {l \in Letters : contacts[l] = "pending"}

\* Promise.all sends four queries, over four connections of the pool.
GetAdminStats(r) ==
  /\ CanStart(r, "stats")
  /\ Goto(r, "stats")
  /\ UNCHANGED <<tables, desk, locals, tally, load>>

\* One of them is answered; with the last, so is the request.
AnswerFigure(r, figure) ==
  /\ pc[r] = "stats" /\ tally[r][figure] = Awaited
  /\ tally' = [tally EXCEPT ![r][figure] = Cardinality(Rows(figure))]
  /\ Goto(r, IF \E f \in Figures \ {figure} : tally[r][f] = Awaited
             THEN "stats" ELSE "counted")
  /\ UNCHANGED <<tables, desk, locals, load>>

DeskStep(r) ==
  \/ ReviewStep(r) /\ UNCHANGED <<desk, tally>>
  \/ \E l \in Letters : UpdateStatus(r, l)
  \/ InboxSaved!Save(r) /\ UNCHANGED <<tables, works, counts, tally, load>>
  \/ \E page \in Pages : FindAllContacts(r, page)
  \/ CountLetters(r)
  \/ GetAdminStats(r)
  \/ \E figure \in Figures : AnswerFigure(r, figure)

-----------------------------------------------------------------------------
(***************************************************************************)
(* Properties.                                                             *)
(***************************************************************************)

DeskTypeOK ==
  /\ ReviewsTypeOK
  /\ contacts \in [Letters -> Statuses]
  /\ works \in [Works -> {"absent", "old", "bare", "linked"}]
  /\ tally \in [Requests -> [Figures -> Nat \cup {Awaited}]]

\* toggleApproval is documented as "called twice = original value", and
\* updateStatus as storing what it is given: one request at a time, a save
\* that is answered has done it, whether it wrote or found nothing to write.
SavesTakeEffect ==
  [][Serial => \A r \in Requests : pc[r] # "saved" /\ pc'[r] = "saved" =>
       IF target[r] \in Letters
       THEN contacts'[target[r]] = entity[r]
       ELSE {reviews[target[r]], reviews'[target[r]]} = {"waiting", "listed"}]_<<pc, tables, desk>>
=============================================================================
