--------------------------- MODULE TokenFamilies ---------------------------
(***************************************************************************)
(* What the refresh_tokens table promises to the rest of the system, with  *)
(* every operation atomic: the abstract specification that RefreshTokens   *)
(* (the handlers of src/src/auth/auth.service.ts, interleaved) is checked  *)
(* to implement.                                                           *)
(*                                                                         *)
(* A row is identified with the token whose hash it stores: hashed_token   *)
(* is UNIQUE and the tokens are 256 random bits.  A family, a fresh UUID   *)
(* in the code, is identified with the row the login that opened it        *)
(* inserted.                                                               *)
(***************************************************************************)

CONSTANTS
  Tokens,   \* refresh tokens, and the rows that store their hashes
  Users,    \* the accounts rows belong to
  None      \* the NULL of the table's columns: neither a token nor a user

VARIABLE table  \* refresh_tokens

\* A row, with revoked_at abstracted to whether it is set.  NoRow stands for
\* a token the table does not hold: such a token has no family.
Row == [familyId   : Tokens \cup {None},
        userId     : Users \cup {None},
        revoked    : BOOLEAN,
        replacedBy : Tokens \cup {None}]

NoRow == [familyId |-> None, userId |-> None, revoked |-> FALSE, replacedBy |-> None]

\* The row a login or a rotation inserts: valid, and not replaced.
NewRow(f, u) == [familyId |-> f, userId |-> u, revoked |-> FALSE, replacedBy |-> None]

Stored(t) == table[t].familyId # None
Active(t) == Stored(t) /\ ~table[t].revoked
ActiveRows(f) == {t \in Tokens : table[t].familyId = f /\ ~table[t].revoked}

\* The table after setting revoked_at on the rows of S.
Revoked(S) == [t \in Tokens |->
                 IF t \in S THEN [table[t] EXCEPT !.revoked = TRUE] ELSE table[t]]

\* The table after a committed rotation of t into s.
Rotated(t, s) ==
  [table EXCEPT ![t].revoked = TRUE,
                ![t].replacedBy = s,
                ![s] = NewRow(table[t].familyId, table[t].userId)]

Init == table = [t \in Tokens |-> NoRow]

\* A login opens a family of its own.
OpenFamily(t, u) ==
  /\ ~Stored(t)
  /\ table' = [table EXCEPT ![t] = NewRow(t, u)]

\* A rotation revokes a row, links it to its successor and inserts that one,
\* all in one step.
Rotate(t, s) ==
  /\ Stored(t)
  /\ ~Stored(s)
  /\ table' = Rotated(t, s)

\* A revocation (logout, or the answer to a replay) sets revoked_at on rows
\* of one family.
RevokeIn(f, S) ==
  /\ \A t \in S : Stored(t) /\ table[t].familyId = f
  /\ table' = Revoked(S)

Next ==
  \/ \E t \in Tokens, u \in Users : OpenFamily(t, u)
  \/ \E t, s \in Tokens : Rotate(t, s)
  \/ \E f \in Tokens, S \in SUBSET Tokens : RevokeIn(f, S)

Spec == Init /\ [][Next]_table

-----------------------------------------------------------------------------
(***************************************************************************)
(* The stronger contract of openspec/specs/auth-domain/spec.md: only a     *)
(* valid row rotates, a replay revokes every row of its family, a logout   *)
(* revokes one row.  The handlers keep it as long as requests do not       *)
(* overlap.                                                                *)
(***************************************************************************)
DocumentedNext ==
  \/ \E t \in Tokens, u \in Users : OpenFamily(t, u)
  \/ \E t, s \in Tokens : Active(t) /\ Rotate(t, s)
  \/ \E f \in Tokens : RevokeIn(f, ActiveRows(f))
  \/ \E t \in Tokens : Stored(t) /\ RevokeIn(table[t].familyId, {t})

DocumentedSpec == Init /\ [][DocumentedNext]_table
=============================================================================
