--------------------------- MODULE MCRefreshTurns ---------------------------
(***************************************************************************)
(* Clients that overlap freely, and clients that take turns: these send a  *)
(* request when no other is in flight, and of them the documentation is    *)
(* true.                                                                   *)
(***************************************************************************)
EXTENDS MCRefreshTokens

VARIABLE takeTurns  \* which of the two the clients of a behaviour are

OneInFlight == Cardinality({r \in Requests : pc[r] \in InFlight}) <= 1

MCInit == Init /\ takeTurns \in BOOLEAN
MCNext == Next /\ UNCHANGED takeTurns /\ (takeTurns => OneInFlight')

\* auth-domain spec, "Refresh Token Reuse Detection": a replay has every row
\* of its family revoked when it is answered, whatever was aborted and retried
\* before, if the clients take turns.
ReplayRevokesEveryRowInTurn == [][takeTurns => FamilyIsSwept]_vars

\* The handlers of clients that take turns are the table operations that the
\* documentation describes, with every failure and every retry in between.
ImplementsDocumentedFamiliesInTurn ==
  Families!Init /\ [][takeTurns => Families!DocumentedNext]_table
=============================================================================
