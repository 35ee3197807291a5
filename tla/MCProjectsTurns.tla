-------------------------- MODULE MCProjectsTurns ---------------------------
(***************************************************************************)
(* Clients that overlap freely, and clients that take turns: these send a  *)
(* request when no other is in flight, and of them the documentation is    *)
(* true.                                                                   *)
(***************************************************************************)
EXTENDS MCProjects

VARIABLE takeTurns  \* which of the two the clients of a behaviour are

OneInFlight == Cardinality({r \in Requests : pc[r] \in InFlight}) <= 1

\* What the clients send: creates have the first link or none.
Sent(patches) ==
  \A r \in Requests :
    \/ body[r] = EmptyBody
    \/ IsCreate(r) /\ body[r].links \subseteq OneLink
    \/ ~IsCreate(r) /\ body[r] \in patches

MCInit ==
  /\ Init
  /\ takeTurns \in BOOLEAN
  /\ takeTurns \/ {u.link : u \in urls} \subseteq OneLink

MCNext ==
  /\ Next
  /\ UNCHANGED takeTurns
  /\ IF takeTurns THEN OneInFlight' /\ Sent(TurnPatches)' ELSE Sent(OverlapPatches)'

\* projects-domain spec, "Admin Project Delete with Cascade": a project whose
\* DELETE was answered has no row, and no update or retry brings it back, if
\* the clients take turns.
RemovedStaysRemovedInTurn == takeTurns => RemovedStaysRemoved

\* An update of clients that take turns changes what its body names, however
\* often withRetry has run it, and an absent list changes no url.
OnlyNamedFieldsChangeInTurn == [][takeTurns => NamedFieldsChange]_vars

\* The handlers of clients that take turns are the operations that the
\* documentation describes: no update of a project that is gone, no url twice.
ImplementsDocumentedStoreInTurn ==
  Store!Init /\ [][takeTurns => Store!DocumentedNext]_<<projects, urls>>
=============================================================================
