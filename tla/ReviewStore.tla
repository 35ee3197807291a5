---------------------------- MODULE ReviewStore ----------------------------
(***************************************************************************)
(* What the tables reviews and review_comments promise, every operation    *)
(* atomic: the abstract specification that Reviews and Seeds are checked   *)
(* to implement.                                                           *)
(***************************************************************************)

CONSTANTS
  Ids,      \* the ids reviews can have
  Authors   \* what tells the comments of one review apart

VARIABLES
  waiting,  \* the reviews stored and not approved
  listed,   \* the reviews stored and approved
  threads   \* the comments, as <<review, author>>

Stored == waiting \cup listed

\* One review is written, in either state; it keeps its comments.
Put(p) ==
  /\ \/ waiting' = waiting \cup {p} /\ listed' = listed \ {p}
     \/ waiting' = waiting \ {p} /\ listed' = listed \cup {p}
  /\ UNCHANGED threads

\* A delete takes the comments with it.
Remove(p) ==
  /\ p \in Stored
  /\ waiting' = waiting \ {p}
  /\ listed' = listed \ {p}
  /\ threads' = {c \in threads : c[1] # p}

\* Comments are added to a stored review, approved or not.
Comment(p) ==
  /\ p \in Stored
  /\ UNCHANGED <<waiting, listed>>
  /\ threads \subseteq threads'
  /\ threads' \subseteq threads \cup ({p} \X Authors)

Init ==
  /\ waiting \in SUBSET Ids
  /\ listed \in SUBSET (Ids \ waiting)
  /\ threads \in SUBSET (Stored \X Authors)

Next == \E p \in Ids : Put(p) \/ Remove(p) \/ Comment(p)

Spec == Init /\ [][Next]_<<waiting, listed, threads>>
=============================================================================
