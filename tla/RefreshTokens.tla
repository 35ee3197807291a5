--------------------------- MODULE RefreshTokens ---------------------------
(***************************************************************************)
(* The refresh-token handlers of src/src/auth/auth.service.ts: login,      *)
(* refresh (rotation and reuse detection) and logout, run by HTTP requests *)
(* that interleave at every await and share one PostgreSQL table, at the   *)
(* READ COMMITTED isolation the DataSource leaves at its default.          *)
(*                                                                         *)
(* A request runs one handler once.  Its pc says which statement comes     *)
(* next, and, once it is over, how it was answered:                        *)
(*                                                                         *)
(*   idle -> insert -> issued                       login                  *)
(*   idle -> rotate -> mint -> user -> commit -> rotated     refresh       *)
(*   idle -> sweep -> apply -> reuse                refresh, replayed row  *)
(*   idle -> revoke -> loggedOut                    logout                 *)
(*   ... -> unauthorized                            a 401 without a write  *)
(*   ... -> error                                   a 500, or no answer    *)
(*                                                                         *)
(* What a transaction writes is visible to no one before it commits, so    *)
(* its writes are applied by Commit; until then it only holds the lock of  *)
(* the row it has updated.                                                 *)
(***************************************************************************)
EXTENDS Naturals, FiniteSets

CONSTANTS
  Requests,     \* the HTTP requests of a behaviour
  Tokens,       \* the random tokens they can mint; see TokenFamilies
  Users,        \* the accounts
  MaxAttempts,  \* withRetry's maxAttempts
  MaxInFlight,  \* how many requests the clients keep open at a time
  None

ASSUME NoneIsNoToken == None \notin Tokens \cup Users
ASSUME SomeAttempts == MaxAttempts \in Nat \ {0}
ASSUME SomeInFlight == MaxInFlight \in Nat

VARIABLES
  table,      \* refresh_tokens, as committed
  expired,    \* the stored tokens whose expires_at has passed
  users,      \* the rows of the users table
  pc,         \* per request: its next statement, or its answer
  account,    \* per login: the user whose password it has verified
  presented,  \* per refresh or logout: the token of its rt cookie
  minted,     \* per request: the token it has inserted, or is inserting
  attempt,    \* per refresh: withRetry's attempt counter
  snapshot    \* per replayed refresh: the rows its family UPDATE has found

vars == <<table, expired, users, pc, account, presented, minted, attempt, snapshot>>
locals == <<account, presented, minted, attempt, snapshot>>

Families == INSTANCE TokenFamilies

Stored(t) == Families!Stored(t)
StoredTokens == {t \in Tokens : Stored(t)}
ActiveRows(f) == Families!ActiveRows(f)
FamilyOf(t) == table[t].familyId

-----------------------------------------------------------------------------
\* The statements of a rotation.  From "mint" on its transaction holds the
\* lock of the presented row: its first statement is the UPDATE by id.
InTransaction == {"mint", "user", "commit"}
Rotating == {"rotate"} \cup InTransaction
InFlight == {"insert", "sweep", "apply", "revoke"} \cup Rotating
Final == {"issued", "rotated", "reuse", "loggedOut", "unauthorized", "error"}

Rotators(t) == {r \in Requests : pc[r] \in Rotating /\ presented[r] = t}
Locked(t) == \E r \in Requests : pc[r] \in InTransaction /\ presented[r] = t

\* randomBytes(32): a token no row holds and no transaction is inserting.
Fresh == {t \in Tokens : ~Stored(t) /\ \A r \in Requests : minted[r] # t}

\* The tokens a client has been given.
Delivered == {minted[r] : r \in {q \in Requests : pc[q] \in {"issued", "rotated"}}}

\* What an rt cookie can hold: nothing, a token handed out before, or noise.
Presentable == {None} \cup Delivered \cup (Tokens \ StoredTokens)

CanStart(r) ==
  /\ pc[r] = "idle"
  /\ Cardinality({q \in Requests : pc[q] \in InFlight}) < MaxInFlight

Goto(r, label) == pc' = [pc EXCEPT ![r] = label]

-----------------------------------------------------------------------------
Init ==
  /\ table     = [t \in Tokens |-> Families!NoRow]
  /\ expired   = {}
  /\ users     = Users
  /\ pc        = [r \in Requests |-> "idle"]
  /\ account   = [r \in Requests |-> None]
  /\ presented = [r \in Requests |-> None]
  /\ minted    = [r \in Requests |-> None]
  /\ attempt   = [r \in Requests |-> 0]
  /\ snapshot  = [r \in Requests |-> {}]

\* login: the user is found and bcrypt accepts the password.
LoginAccepted(r, u) ==
  /\ CanStart(r)
  /\ u \in users
  /\ account' = [account EXCEPT ![r] = u]
  /\ Goto(r, "insert")
  /\ UNCHANGED <<table, expired, users, presented, minted, attempt, snapshot>>

\* login: no such user, or the wrong password.
LoginRejected(r) ==
  /\ CanStart(r)
  /\ Goto(r, "unauthorized")
  /\ UNCHANGED <<table, expired, users, locals>>

\* issueTokensForUser: the first row of a new family.  The answer of the
\* database may be lost after the row is stored.
InsertRow(r) ==
  /\ pc[r] = "insert"
  /\ \E t \in Fresh :
       /\ table' = [table EXCEPT ![t] = Families!NewRow(t, account[r])]
       /\ minted' = [minted EXCEPT ![r] = t]
  /\ \E answer \in {"issued", "error"} : Goto(r, answer)
  /\ UNCHANGED <<expired, users, account, presented, attempt, snapshot>>

-----------------------------------------------------------------------------
\* A faulty variant: the lifetime of the row is not looked at.
Refresh_AcceptsExpired(r, t) ==
  /\ CanStart(r)
  /\ t \in StoredTokens
  /\ presented' = [presented EXCEPT ![r] = t]
  /\ Goto(r, IF table[t].revoked THEN "sweep" ELSE "rotate")
  /\ attempt' = [attempt EXCEPT ![r] = 1]
  /\ UNCHANGED <<table, expired, users, account, minted, snapshot>>

\* A faulty variant: a replay is a row with replaced_by, not with revoked_at.
Refresh_TestsReplacedBy(r, t) ==
  /\ CanStart(r)
  /\ t \in StoredTokens \ expired
  /\ presented' = [presented EXCEPT ![r] = t]
  /\ Goto(r, IF table[t].replacedBy # None THEN "sweep" ELSE "rotate")
  /\ attempt' = [attempt EXCEPT ![r] = 1]
  /\ UNCHANGED <<table, expired, users, account, minted, snapshot>>

\* refresh, up to the result of the SELECT by hash, which runs outside any
\* transaction: a missing cookie, an unknown token or an expired row is a
\* 401, a revoked row a replay, any other row is to be rotated.
Refresh(r, t) ==
  /\ CanStart(r)
  /\ presented' = [presented EXCEPT ![r] = t]
  /\ \/ /\ t \notin StoredTokens \ expired
        /\ Goto(r, "unauthorized")
        /\ UNCHANGED attempt
     \/ /\ t \in StoredTokens \ expired
        /\ table[t].revoked
        /\ Goto(r, "sweep")
        /\ UNCHANGED attempt
     \/ /\ t \in StoredTokens \ expired
        /\ ~table[t].revoked
        /\ Goto(r, "rotate")
        /\ attempt' = [attempt EXCEPT ![r] = 1]
  /\ UNCHANGED <<table, expired, users, account, minted, snapshot>>

\* First statement of the transaction: UPDATE ... SET revoked_at WHERE id.
\* It waits for the transaction that has the row locked, and then proceeds
\* whatever that one wrote: its WHERE names the id alone.
RevokePresented(r) ==
  /\ pc[r] = "rotate"
  /\ ~Locked(presented[r])
  /\ Goto(r, "mint")
  /\ UNCHANGED <<table, expired, users, locals>>

\* A faulty variant: the INSERT goes through the service's repository, outside
\* the transaction.
MintSuccessor_OutsideTransaction(r) ==
  /\ pc[r] = "mint"
  /\ \E t \in Fresh :
       /\ minted' = [minted EXCEPT ![r] = t]
       /\ table' = [table EXCEPT ![t] = Families!NewRow(FamilyOf(presented[r]),
                                                      table[presented[r]].userId)]
  /\ Goto(r, "user")
  /\ UNCHANGED <<expired, users, account, presented, attempt, snapshot>>

\* INSERT of the successor and UPDATE of replaced_by: both touch only rows
\* that no one else can see or lock.
MintSuccessor(r) ==
  /\ pc[r] = "mint"
  /\ \E t \in Fresh : minted' = [minted EXCEPT ![r] = t]
  /\ Goto(r, "user")
  /\ UNCHANGED <<table, expired, users, account, presented, attempt, snapshot>>

\* A faulty variant: the client is answered before the COMMIT is awaited, and
\* the connection is lost.
FindUser_AnswersEarly(r) ==
  /\ pc[r] = "user"
  /\ Goto(r, "rotated")
  /\ UNCHANGED <<table, expired, users, locals>>

\* A faulty variant: the user is taken from the row and not looked up.
FindUser_Skipped(r) ==
  /\ pc[r] = "user"
  /\ Goto(r, "commit")
  /\ UNCHANGED <<table, expired, users, locals>>

\* The user's row, needed to sign the access token.  Without it the callback
\* throws a 401 and the transaction rolls back.
FindUser(r) ==
  /\ pc[r] = "user"
  /\ \/ /\ table[presented[r]].userId \in users
        /\ Goto(r, "commit")
        /\ UNCHANGED minted
     \/ /\ table[presented[r]].userId \notin users
        /\ Goto(r, "unauthorized")
        /\ minted' = [minted EXCEPT ![r] = None]
  /\ UNCHANGED <<table, expired, users, account, presented, attempt, snapshot>>

\* Faulty variants: the transaction leaves out the UPDATE of revoked_at, links
\* the row to itself, or gives the successor a family of its own.
CommitWith(r, wasRevoked, link, family) ==
  /\ pc[r] = "commit"
  /\ LET t == presented[r] IN
       table' = [table EXCEPT ![t].revoked = wasRevoked,
                              ![t].replacedBy = link,
                              ![minted[r]] = Families!NewRow(family, table[t].userId)]
  /\ Goto(r, "rotated")
  /\ UNCHANGED <<expired, users, locals>>
Commit_KeepsRowValid(r) == CommitWith(r, FALSE, minted[r], FamilyOf(presented[r]))
Commit_LinksToItself(r) == CommitWith(r, TRUE, presented[r], FamilyOf(presented[r]))
Commit_NewFamily(r)     == CommitWith(r, TRUE, minted[r], minted[r])

\* COMMIT.  Its acknowledgement may be lost with the connection: the
\* rotation stands, and the client is told of an error.
Commit(r) ==
  /\ pc[r] = "commit"
  /\ LET t == presented[r] IN
       table' = [table EXCEPT ![t].revoked = TRUE,
                              ![t].replacedBy = minted[r],
                              ![minted[r]] = Families!NewRow(table[t].familyId, table[t].userId)]
  /\ \E answer \in {"rotated", "error"} : Goto(r, answer)
  /\ UNCHANGED <<expired, users, locals>>

\* Faulty variants: the loop runs once too often, or for ever.
AbortWith(r, counted, limit) ==
  /\ pc[r] \in Rotating
  /\ minted' = [minted EXCEPT ![r] = None]
  /\ IF attempt[r] < limit
     THEN attempt' = [attempt EXCEPT ![r] = @ + counted] /\ Goto(r, "rotate")
     ELSE UNCHANGED attempt /\ Goto(r, "error")
  /\ UNCHANGED <<table, expired, users, account, presented, snapshot>>
Abort_OnceTooOften(r) == AbortWith(r, 1, MaxAttempts + 1)
Abort_ForEver(r)      == AbortWith(r, 0, MaxAttempts)

\* PostgreSQL aborts the transaction with 40001 or 40P01: withRetry runs the
\* callback again, on the row read before the first attempt, or gives up.
Abort(r) ==
  /\ pc[r] \in Rotating
  /\ minted' = [minted EXCEPT ![r] = None]
  /\ \/ /\ attempt[r] < MaxAttempts
        /\ attempt' = [attempt EXCEPT ![r] = @ + 1]
        /\ Goto(r, "rotate")
     \/ /\ attempt[r] = MaxAttempts
        /\ Goto(r, "error")
        /\ UNCHANGED attempt
  /\ UNCHANGED <<table, expired, users, account, presented, snapshot>>

\* Faulty variants: the WHERE names the presented row, or no family at all.
StartSweepOf(r, S) ==
  /\ pc[r] = "sweep"
  /\ snapshot' = [snapshot EXCEPT ![r] = S]
  /\ Goto(r, "apply")
  /\ UNCHANGED <<table, expired, users, account, presented, minted, attempt>>
StartSweep_PresentedRow(r) == StartSweepOf(r, {presented[r]})
StartSweep_AnyFamily(r)    == StartSweepOf(r, {t \in StoredTokens : ~table[t].revoked})

\* Reuse detection: UPDATE ... SET revoked_at WHERE family_id AND revoked_at
\* IS NULL, one statement on its own.  It finds its rows in the snapshot
\* taken when it starts ...
StartSweep(r) ==
  /\ pc[r] = "sweep"
  /\ snapshot' = [snapshot EXCEPT ![r] = ActiveRows(FamilyOf(presented[r]))]
  /\ Goto(r, "apply")
  /\ UNCHANGED <<table, expired, users, account, presented, minted, attempt>>

\* ... waits for those that a rotation has locked, and revokes the ones that
\* are still unrevoked then.  A row inserted meanwhile is not among them.
\* (The statement takes its locks one by one; that it keeps some while it
\* waits for others only delays rotations, it allows no other outcome.)
ApplySweep(r) ==
  /\ pc[r] = "apply"
  /\ \A t \in snapshot[r] : ~Locked(t)
  /\ table' = Families!Revoked(snapshot[r])
  /\ \E answer \in {"reuse", "error"} : Goto(r, answer)
  /\ UNCHANGED <<expired, users, locals>>

-----------------------------------------------------------------------------
\* logout, up to the result of its SELECT: it looks at neither expires_at
\* nor revoked_at.
Logout(r, t) ==
  /\ CanStart(r)
  /\ presented' = [presented EXCEPT ![r] = t]
  /\ \/ /\ t \notin StoredTokens
        /\ Goto(r, "unauthorized")
     \/ /\ t \in StoredTokens
        /\ Goto(r, "revoke")
  /\ UNCHANGED <<table, expired, users, account, minted, attempt, snapshot>>

\* UPDATE ... SET revoked_at WHERE id: the presented row and no other.
RevokeOnLogout(r) ==
  /\ pc[r] = "revoke"
  /\ ~Locked(presented[r])
  /\ table' = Families!Revoked({presented[r]})
  /\ \E answer \in {"loggedOut", "error"} : Goto(r, answer)
  /\ UNCHANGED <<expired, users, locals>>

-----------------------------------------------------------------------------
\* Any other failure (the connection, the signing of the token, the process
\* itself): an open transaction rolls back and nothing is retried.
Fail(r) ==
  /\ pc[r] \in InFlight
  /\ Goto(r, "error")
  /\ minted' = [minted EXCEPT ![r] = None]
  /\ UNCHANGED <<table, expired, users, account, presented, attempt, snapshot>>

\* The lifetime of a stored token ends.  Lifetimes come from a setting that
\* can differ between runs of the server, so the order is free.
Expire(t) ==
  /\ Stored(t) /\ t \notin expired
  /\ expired' = expired \cup {t}
  /\ UNCHANGED <<table, users, pc, locals>>

\* An account is removed from the users table, which no code of the server
\* does and no foreign key prevents.
DeleteUser(u) ==
  /\ u \in users
  /\ users' = users \ {u}
  /\ UNCHANGED <<table, expired, pc, locals>>

\* All requests have been answered.
Finished ==
  /\ \A r \in Requests : pc[r] \in Final
  /\ UNCHANGED vars

Arrive(r) ==
  \/ \E u \in Users : LoginAccepted(r, u)
  \/ LoginRejected(r)
  \/ \E t \in Presentable : Refresh(r, t)
  \/ \E t \in Presentable : Logout(r, t)

\* The statements the event loop and the database owe a request in flight.
Progress(r) ==
  \/ InsertRow(r)
  \/ RevokePresented(r) \/ MintSuccessor(r) \/ FindUser(r) \/ Commit(r)
  \/ StartSweep(r) \/ ApplySweep(r)
  \/ RevokeOnLogout(r)

Next ==
  \/ \E r \in Requests : Arrive(r) \/ Progress(r) \/ Abort(r) \/ Fail(r)
  \/ \E t \in Tokens : Expire(t)
  \/ \E u \in Users : DeleteUser(u)
  \/ Finished

Spec == Init /\ [][Next]_vars

\* A handler that has begun runs on: the event loop resumes it after every
\* await and the pool serves its queries.  Nothing is assumed of clients,
\* of the clock or of failures.
FairSpec == Spec /\ \A r \in Requests : WF_vars(Progress(r))

-----------------------------------------------------------------------------
(***************************************************************************)
(* Properties.                                                             *)
(***************************************************************************)

TypeOK ==
  /\ table     \in [Tokens -> Families!Row]
  /\ expired   \subseteq Tokens
  /\ users     \subseteq Users
  /\ pc        \in [Requests -> {"idle"} \cup InFlight \cup Final]
  /\ account   \in [Requests -> Users \cup {None}]
  /\ presented \in [Requests -> Tokens \cup {None}]
  /\ minted    \in [Requests -> Tokens \cup {None}]
  /\ attempt   \in [Requests -> 0 .. MaxAttempts]
  /\ snapshot  \in [Requests -> SUBSET Tokens]

\* replaced_by, which no foreign key protects, leads from a revoked row to
\* another row of the same family and the same user: a rotation is never
\* half visible, whatever aborts, fails or overlaps.
LinksStayInFamily ==
  \A t \in Tokens : table[t].replacedBy # None =>
    LET s == table[t].replacedBy IN
    /\ table[t].revoked
    /\ Stored(s) /\ s # t
    /\ table[s].familyId = table[t].familyId
    /\ table[s].userId = table[t].userId

\* Following replaced_by from any row ends at a row without successor: the
\* rotations of a family, overlapping ones too, never close a cycle.
ChainsEnd ==
  \A S \in SUBSET StoredTokens :
    S # {} => \E t \in S : table[t].replacedBy \notin S

\* What a client was told stays true: a token it was given is stored, the
\* token it traded in or logged out with is revoked, and so is every row the
\* answer to a replay has found, whatever other requests do later.
AnswersStayTrue ==
  \A r \in Requests :
    /\ pc[r] \in {"issued", "rotated"} => minted[r] # None /\ Stored(minted[r])
    /\ pc[r] \in {"rotated", "loggedOut"} => table[presented[r]].revoked
    /\ pc[r] = "reuse" => \A t \in {presented[r]} \cup snapshot[r] : table[t].revoked

\* No refresh gets past the checks of a token that is already spent or
\* expired: the requests rotating it, retries included, only become fewer.
SpentTokenGainsNoRotation ==
  [][\A t \in Tokens :
       table[t].revoked \/ t \in expired => Rotators(t)' \subseteq Rotators(t)]_vars

\* A family is closed when it has rows, none of them valid, and no rotation
\* of one is under way.
Closed(f) ==
  /\ Stored(f)
  /\ ActiveRows(f) = {}
  /\ \A r \in Requests : pc[r] \in Rotating => FamilyOf(presented[r]) # f

\* Once closed, by logouts or by reuse detection, a family never gets a
\* valid row again: replays, retries and late answers do not reopen it.
ClosedFamilyStaysClosed == [][\A f \in Tokens : Closed(f) => Closed(f)']_vars

\* The requests that have passed the user lookup and may insert a row for u.
AdmittedFor(u) ==
  {r \in Requests : \/ pc[r] = "insert" /\ account[r] = u
                    \/ pc[r] = "commit" /\ table[presented[r]].userId = u}

RowsOf(u) == {t \in Tokens : table[t].userId = u}

\* For a deleted user no request passes the user lookup any more, and only
\* requests that had passed it insert rows.
GoneUserGetsNoRows ==
  [][\A u \in Users \ users :
       /\ AdmittedFor(u)' \subseteq AdmittedFor(u)
       /\ AdmittedFor(u) = {} => RowsOf(u)' \subseteq RowsOf(u)]_vars

\* The handlers implement the atomic table operations of TokenFamilies: no
\* step shows part of a rotation, returns a row to life or loses one.
ImplementsTokenFamilies == Families!Spec

\* Every request is answered: the waits for row locks cannot form a circle
\* and withRetry gives up.
RequestsAreAnswered ==
  \A r \in Requests : pc[r] \in InFlight ~> pc[r] \in Final

-----------------------------------------------------------------------------
(***************************************************************************)
(* What the documentation promises.  It holds while the clients keep one   *)
(* request open at a time (MaxInFlight = 1), and not when two overlap.     *)
(***************************************************************************)

\* auth-domain spec, "Refresh Token Reuse Detection": when a replay is
\* answered, every row of its family is revoked.
FamilyIsSwept ==
  \A r \in Requests :
    pc[r] # "reuse" /\ pc'[r] = "reuse" => ActiveRows(FamilyOf(presented[r]))' = {}
ReplayRevokesEveryRow == [][FamilyIsSwept]_vars

\* The table operations are those of the documentation.
ImplementsDocumentedFamilies == Families!DocumentedSpec
=============================================================================
