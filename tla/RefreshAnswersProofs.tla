------------------------ MODULE RefreshAnswersProofs -----------------------
(***************************************************************************)
(* Proofs about what outlasts a request of RefreshTokens: the answer its   *)
(* client was given, the end of a token, of a family and of an account, and*)
(* that the handlers do what openspec/specs/auth-domain/spec.md says when  *)
(* the clients keep one request open at a time, whatever fails, is retried *)
(* or goes unanswered.                                                     *)
(***************************************************************************)
EXTENDS RefreshTokensProofs, FiniteSetTheorems

\* A request that rotates has done so before, on the same row, or has just
\* read its row as stored, unexpired and valid.
LEMMA StartsRotating ==
  ASSUME IndType, [Next]_vars, NEW q \in Requests, pc'[q] \in Rotating
  PROVE  \/ pc[q] \in Rotating /\ presented'[q] = presented[q]
         \/ /\ presented'[q] \in StoredTokens \ expired
            /\ ~table[presented'[q]].revoked
            /\ table' = table
<1>t. pc \in [Requests -> {"idle"} \cup InFlight \cup Final]
  BY DEF IndType, TypeOK
<1>1. ASSUME NEW t \in Presentable, Refresh(q, t)
      PROVE  /\ presented'[q] \in StoredTokens \ expired
             /\ ~table[presented'[q]].revoked
             /\ table' = table
  <2>1. presented'[q] = t
    BY <1>1 DEF Refresh, IndType, TypeOK
  <2> QED
    BY <1>1, <1>t, <2>1 DEF Refresh, Goto, Rotating, InTransaction
<1>2. ASSUME Arrive(q) PROVE \E t \in Presentable : Refresh(q, t)
  BY <1>2, <1>t
     DEF Arrive, LoginAccepted, LoginRejected, Logout, Goto, Rotating, InTransaction
<1>3. ASSUME Abort(q) PROVE pc[q] \in Rotating /\ presented'[q] = presented[q]
  BY <1>3 DEF Abort
<1>4. ASSUME Progress(q) PROVE pc[q] \in Rotating /\ presented'[q] = presented[q]
  BY <1>4, <1>t
     DEF Progress, InsertRow, RevokePresented, MintSuccessor, FindUser, Commit, StartSweep,
         ApplySweep, RevokeOnLogout, Goto, locals, Rotating, InTransaction
<1>5. ~Fail(q)
  BY <1>t DEF Fail, Goto, Rotating, InTransaction
<1>6. ~Acts(q) => pc[q] \in Rotating /\ presented'[q] = presented[q]
  BY OthersWait
<1> QED
  BY <1>1, <1>2, <1>3, <1>4, <1>5, <1>6 DEF Acts

\* Closed families stay closed, step by step.  A rotation or a login inserts
\* rows of other families only, revocations make rows invalid, and a refresh
\* starts to rotate only a row it has read as valid.
LEMMA StepClosed ==
  ASSUME IndType, MintsAreApart, [Next]_vars, NEW f \in Tokens, Closed(f)
  PROVE  Closed(f)'
<1>t. pc \in [Requests -> {"idle"} \cup InFlight \cup Final]
  BY DEF IndType, TypeOK
<1>c. /\ f \in StoredTokens
      /\ \A x \in Tokens : table[x].familyId = f => table[x].revoked
      /\ \A q \in Requests : pc[q] \in Rotating => table[presented[q]].familyId # f
  BY DEF Closed, ActiveRows, Families!ActiveRows, FamilyOf, StoredTokens
<1>1. f \in StoredTokens'
  BY <1>c, RowsPersist
<1>2. ASSUME NEW x \in Tokens, table'[x].familyId = f PROVE table'[x].revoked
  <2>1. CASE x \in StoredTokens
    BY <1>2, <1>c, <2>1, RowsPersist
  <2>2. CASE x \notin StoredTokens
    <3>1. table[x].familyId = None
      BY <2>2 DEF StoredTokens, Stored, Families!Stored
    <3>2. f # None
      BY NoneIsNoToken
    <3>3. ASSUME NEW r \in Requests, InsertRow(r) PROVE FALSE
      <4>1. PICK t \in Fresh : /\ table'[t] = Families!NewRow(t, account[r])
                               /\ \A y \in Tokens \ {t} : table'[y] = table[y]
        BY <3>3, InsertedRow
      <4>2. x = t
        BY <1>2, <3>1, <3>2, <4>1
      <4>3. table'[x].familyId = x
        BY <4>1, <4>2 DEF Families!NewRow
      <4> QED
        BY <1>2, <1>c, <2>2, <4>3
    <3>4. ASSUME NEW r \in Requests, Commit(r) PROVE FALSE
      <4>1. /\ presented[r] \in StoredTokens
            /\ table'[minted[r]] = Families!NewRow(table[presented[r]].familyId,
                                                   table[presented[r]].userId)
            /\ \A y \in Tokens \ {minted[r], presented[r]} : table'[y] = table[y]
        BY <3>4, CommittedRows
      <4>2. x = minted[r]
        BY <1>2, <2>2, <3>1, <3>2, <4>1
      <4>3. table'[x].familyId = table[presented[r]].familyId
        BY <4>1, <4>2 DEF Families!NewRow
      <4>4. pc[r] \in Rotating
        BY <3>4 DEF Commit, Rotating, InTransaction
      <4> QED
        BY <1>2, <1>c, <4>3, <4>4
    <3>5. ASSUME NEW r \in Requests, ApplySweep(r) \/ RevokeOnLogout(r) PROVE FALSE
      BY <1>2, <3>1, <3>2, <3>5, RevocationSteps, RevokedFields
    <3>6. table' # table
      BY <1>2, <3>1, <3>2
    <3> QED
      BY <3>3, <3>4, <3>5, <3>6, OtherStepsKeepTable
  <2> QED
    BY <2>1, <2>2
<1>3. ASSUME NEW q \in Requests, pc'[q] \in Rotating
      PROVE  table'[presented'[q]].familyId # f
  <2>1. CASE pc[q] \in Rotating /\ presented'[q] = presented[q]
    <3>1. presented[q] \in StoredTokens
      BY <2>1 DEF IndType, PresentedRowsAreStored
    <3> QED
      BY <1>c, <2>1, <3>1, RowsPersist
  <2>2. CASE /\ presented'[q] \in StoredTokens
             /\ ~table[presented'[q]].revoked
             /\ table' = table
    BY <1>c, <2>2 DEF StoredTokens
  <2> QED
    BY <1>3, <2>1, <2>2, StartsRotating
<1> QED
  BY <1>1, <1>2, <1>3 DEF Closed, ActiveRows, Families!ActiveRows, FamilyOf, StoredTokens

\* A family without a valid row and without a rotation under way never has a
\* valid row again.
THEOREM ClosedFamiliesCorrect == Spec => ClosedFamilyStaysClosed
<1>1. IndType /\ MintsAreApart /\ [Next]_vars
      => [\A f \in Tokens : Closed(f) => Closed(f)']_vars
  BY StepClosed
<1> QED
  BY <1>1, InitIndType, StepIndType, InitMintsAreApart, StepMintsAreApart, PTL
     DEF Spec, ClosedFamilyStaysClosed

-----------------------------------------------------------------------------
\* AnswersStayTrue, and what leads up to it: a request is on the way to the
\* answer to a replay only with a row it has read as revoked.
Answers ==
  \A r \in Requests :
    /\ pc[r] \in {"issued", "rotated"} => minted[r] \in StoredTokens
    /\ pc[r] \in {"rotated", "loggedOut", "sweep", "apply", "reuse"} =>
         presented[r] \in StoredTokens /\ table[presented[r]].revoked
    /\ pc[r] = "reuse" => \A t \in snapshot[r] : table[t].revoked

LEMMA AnswersSuffice == Answers => AnswersStayTrue
  BY NoneIsNoToken DEF Answers, AnswersStayTrue, StoredTokens

LEMMA StepAnswers == IndType /\ MintsAreApart /\ Answers /\ [Next]_vars => Answers'
<1> SUFFICES ASSUME IndType, MintsAreApart, Answers, [Next]_vars, NEW q \in Requests
             PROVE  /\ pc'[q] \in {"issued", "rotated"} => minted'[q] \in StoredTokens'
                    /\ pc'[q] \in {"rotated", "loggedOut", "sweep", "apply", "reuse"} =>
                         presented'[q] \in StoredTokens' /\ table'[presented'[q]].revoked
                    /\ pc'[q] = "reuse" => \A t \in snapshot'[q] : table'[t].revoked
  BY DEF Answers
<1> DEFINE Goal == /\ pc'[q] \in {"issued", "rotated"} => minted'[q] \in StoredTokens'
                   /\ pc'[q] \in {"rotated", "loggedOut", "sweep", "apply", "reuse"} =>
                        presented'[q] \in StoredTokens' /\ table'[presented'[q]].revoked
                   /\ pc'[q] = "reuse" => \A t \in snapshot'[q] : table'[t].revoked
<1>t. /\ pc \in [Requests -> {"idle"} \cup InFlight \cup Final]
      /\ presented \in [Requests -> Tokens \cup {None}]
      /\ minted \in [Requests -> Tokens \cup {None}]
      /\ snapshot \in [Requests -> SUBSET Tokens]
      /\ snapshot[q] \subseteq StoredTokens
  BY DEF IndType, TypeOK, SnapshotsAreStored
<1>p. /\ StoredTokens \subseteq StoredTokens'
      /\ \A x \in StoredTokens : table[x].revoked => table'[x].revoked
  BY RowsPersist
<1>0. CASE ~Acts(q)
  BY <1>0, <1>t, <1>p, OthersWait DEF Answers
<1>1. ASSUME LoginRejected(q) \/ Abort(q) \/ Fail(q) \/ RevokePresented(q) \/ MintSuccessor(q)
             \/ FindUser(q) \/ (\E u \in Users : LoginAccepted(q, u))
      PROVE  Goal
  <2>1. pc'[q] \in {"insert", "unauthorized", "rotate", "mint", "user", "commit", "error"}
    BY <1>1, <1>t DEF LoginRejected, Abort, Fail, RevokePresented, MintSuccessor, FindUser,
       LoginAccepted, Goto
  <2> QED
    BY <2>1
<1>2. ASSUME InsertRow(q) PROVE Goal
  <2>1. PICK t \in Fresh : /\ minted' = [minted EXCEPT ![q] = t]
                           /\ StoredTokens' = StoredTokens \cup {t}
    BY <1>2, InsertedRow
  <2>2. pc'[q] \in {"issued", "error"}
    BY <1>2, <1>t DEF InsertRow, Goto
  <2> QED
    BY <1>t, <2>1, <2>2
<1>3. ASSUME NEW t \in Presentable, Refresh(q, t) PROVE Goal
  <2>1. /\ presented'[q] = t
        /\ table' = table
        /\ \/ pc'[q] \in {"unauthorized", "rotate"}
           \/ pc'[q] = "sweep" /\ t \in StoredTokens /\ table[t].revoked
    BY <1>3, <1>t DEF Refresh, Goto
  <2> QED
    BY <1>p, <2>1
<1>4. ASSUME Commit(q) PROVE Goal
  <2>1. /\ presented[q] \in StoredTokens
        /\ table'[presented[q]].revoked
        /\ StoredTokens' = StoredTokens \cup {minted[q]}
    BY <1>4, CommittedRows
  <2>2. /\ pc'[q] \in {"rotated", "error"}
        /\ presented' = presented /\ minted' = minted
    BY <1>4, <1>t DEF Commit, Goto, locals
  <2> QED
    BY <2>1, <2>2
<1>5. ASSUME StartSweep(q) PROVE Goal
  <2>1. pc[q] = "sweep" /\ pc'[q] = "apply" /\ presented' = presented
    BY <1>5, <1>t DEF StartSweep, Goto
  <2> QED
    BY <1>p, <2>1 DEF Answers
<1>6. ASSUME ApplySweep(q) \/ RevokeOnLogout(q) PROVE Goal
  <2>1. PICK S \in SUBSET StoredTokens : /\ table' = Families!Revoked(S)
                                         /\ ApplySweep(q) => S = snapshot[q]
                                         /\ RevokeOnLogout(q) => S = {presented[q]}
    BY <1>6, RevocationSteps
  <2>2. \A x \in S : table'[x].revoked
    BY <2>1, RevokedFields DEF StoredTokens
  <2>3. CASE ApplySweep(q)
    <3>1. /\ pc[q] = "apply" /\ pc'[q] \in {"reuse", "error"}
          /\ presented' = presented /\ snapshot' = snapshot
      BY <2>3, <1>t DEF ApplySweep, Goto, locals
    <3> QED
      BY <1>p, <2>1, <2>2, <2>3, <3>1 DEF Answers
  <2>4. CASE RevokeOnLogout(q)
    <3>1. pc'[q] \in {"loggedOut", "error"} /\ presented' = presented
      BY <2>4, <1>t DEF RevokeOnLogout, Goto, locals
    <3> QED
      BY <1>p, <2>1, <2>2, <2>4, <3>1
  <2> QED
    BY <1>6, <2>3, <2>4
<1>7. ASSUME NEW t \in Presentable, Logout(q, t) PROVE Goal
  <2>1. pc'[q] \in {"unauthorized", "revoke"}
    BY <1>7, <1>t DEF Logout, Goto
  <2> QED
    BY <2>1
<1> QED
  BY <1>0, <1>1, <1>2, <1>3, <1>4, <1>5, <1>6, <1>7 DEF Acts, Arrive, Progress

\* What a client was told about its tokens stays true, whatever overlaps.
THEOREM AnswersCorrect == Spec => []AnswersStayTrue
<1>1. Init => Answers
  BY DEF Init, Answers
<1> QED
  BY <1>1, InitIndType, StepIndType, InitMintsAreApart, StepMintsAreApart, StepAnswers,
     AnswersSuffice, PTL DEF Spec

-----------------------------------------------------------------------------
\* A spent or expired token gains no rotation: the check of refresh is not
\* repeated inside the transaction, so nothing may pass it later on.
THEOREM SpentTokensCorrect == Spec => SpentTokenGainsNoRotation
<1>1. ASSUME IndType, [Next]_vars, NEW t \in Tokens, table[t].revoked \/ t \in expired
      PROVE  Rotators(t)' \subseteq Rotators(t)
  BY <1>1, StartsRotating DEF Rotators
<1>2. IndType /\ [Next]_vars
      => [\A t \in Tokens :
            table[t].revoked \/ t \in expired => Rotators(t)' \subseteq Rotators(t)]_vars
  BY <1>1
<1> QED
  BY <1>2, InitIndType, StepIndType, PTL DEF Spec, SpentTokenGainsNoRotation

\* Past the look-up of a user are only requests that have found it.
LEMMA StepAdmitted ==
  ASSUME IndType, MintsAreApart, [Next]_vars, NEW u \in Users \ users
  PROVE  AdmittedFor(u)' \subseteq AdmittedFor(u)
<1> SUFFICES ASSUME NEW q \in Requests, q \in AdmittedFor(u)' PROVE q \in AdmittedFor(u)
  BY DEF AdmittedFor
<1>t. /\ pc \in [Requests -> {"idle"} \cup InFlight \cup Final]
      /\ account \in [Requests -> Users \cup {None}]
  BY DEF IndType, TypeOK
<1>q. \/ pc'[q] = "insert" /\ account'[q] = u
      \/ pc'[q] = "commit" /\ table'[presented'[q]].userId = u
  BY DEF AdmittedFor
<1>1. CASE ~Acts(q)
  <2>1. pc'[q] = pc[q] /\ presented'[q] = presented[q]
    BY <1>1, OthersWait
  <2>2. account'[q] = account[q]
    <3>1. ASSUME NEW r \in Requests, Arrive(r) \/ Progress(r) \/ Abort(r) \/ Fail(r)
          PROVE  account'[q] = account[q]
      <4>1. r # q
        BY <1>1, <3>1 DEF Acts
      <4> QED
        BY <1>t, <3>1, <4>1
           DEF Arrive, LoginAccepted, LoginRejected, Refresh, Logout, Progress, InsertRow,
               RevokePresented, MintSuccessor, FindUser, Commit, StartSweep, ApplySweep,
               RevokeOnLogout, Abort, Fail, locals
    <3> QED
      BY <3>1 DEF Next, Expire, DeleteUser, Finished, vars, locals
  <2>3. pc[q] = "commit" => presented[q] \in StoredTokens
    BY DEF IndType, PresentedRowsAreStored, Rotating, InTransaction
  <2> QED
    BY <1>q, <2>1, <2>2, <2>3, RowsPersist DEF AdmittedFor
<1>2. ASSUME NEW v \in Users, LoginAccepted(q, v) PROVE FALSE
  BY <1>2, <1>q, <1>t DEF LoginAccepted, Goto
<1>3. ASSUME FindUser(q) PROVE FALSE
  BY <1>3, <1>q, <1>t DEF FindUser, Goto
<1>4. pc'[q] \in {"insert", "commit"}
  BY <1>q
<1>5. ~LoginRejected(q) /\ \A x \in Presentable : ~Refresh(q, x) /\ ~Logout(q, x)
  BY <1>4, <1>t DEF LoginRejected, Refresh, Logout, Goto
<1>6. ~Abort(q) /\ ~Fail(q)
  BY <1>4, <1>t DEF Abort, Fail, Goto
<1>7. ASSUME Progress(q) PROVE FindUser(q)
  BY <1>4, <1>7, <1>t DEF Progress, InsertRow, RevokePresented, MintSuccessor, Commit, StartSweep,
     ApplySweep, RevokeOnLogout, Goto
<1> QED
  BY <1>1, <1>2, <1>3, <1>5, <1>6, <1>7 DEF Acts, Arrive

\* Rows for a user come from a login or a rotation that has found the user.
LEMMA StepRowsOf ==
  ASSUME IndType, MintsAreApart, [Next]_vars, NEW u \in Users, AdmittedFor(u) = {}
  PROVE  RowsOf(u)' \subseteq RowsOf(u)
<1> SUFFICES ASSUME NEW x \in Tokens, table'[x].userId = u, x \notin StoredTokens PROVE FALSE
  BY RowsPersist DEF RowsOf
<1>1. table[x].userId # u
  <2>1. table[x].familyId = None
    BY DEF StoredTokens, Stored, Families!Stored
  <2>2. table[x] = Families!NoRow
    BY <2>1, NoneIsNoToken DEF IndType, RowsAreComplete
  <2> QED
    BY <2>2, NoneIsNoToken DEF Families!NoRow
<1>2. ASSUME NEW r \in Requests, InsertRow(r) PROVE FALSE
  <2>1. PICK t \in Fresh : /\ table'[t] = Families!NewRow(t, account[r])
                           /\ \A y \in Tokens \ {t} : table'[y] = table[y]
    BY <1>2, InsertedRow
  <2>2. account[r] = u
    BY <1>1, <2>1 DEF Families!NewRow
  <2> QED
    BY <1>2, <2>2 DEF AdmittedFor, InsertRow
<1>3. ASSUME NEW r \in Requests, Commit(r) PROVE FALSE
  <2>1. /\ presented[r] \in StoredTokens
        /\ table'[minted[r]] = Families!NewRow(table[presented[r]].familyId,
                                               table[presented[r]].userId)
        /\ \A y \in Tokens \ {minted[r], presented[r]} : table'[y] = table[y]
    BY <1>3, CommittedRows
  <2>2. table[presented[r]].userId = u
    BY <1>1, <2>1 DEF Families!NewRow
  <2> QED
    BY <1>3, <2>2 DEF AdmittedFor, Commit
<1>4. ASSUME NEW r \in Requests, ApplySweep(r) \/ RevokeOnLogout(r) PROVE FALSE
  BY <1>1, <1>4, RevocationSteps, RevokedFields
<1> QED
  BY <1>1, <1>2, <1>3, <1>4, OtherStepsKeepTable

\* A deleted account gets no rows, but from requests that had found it before.
THEOREM GoneUsersCorrect == Spec => GoneUserGetsNoRows
<1>1. IndType /\ MintsAreApart /\ [Next]_vars
      => [\A u \in Users \ users :
            /\ AdmittedFor(u)' \subseteq AdmittedFor(u)
            /\ AdmittedFor(u) = {} => RowsOf(u)' \subseteq RowsOf(u)]_vars
  BY StepAdmitted, StepRowsOf
<1> QED
  BY <1>1, InitIndType, StepIndType, InitMintsAreApart, StepMintsAreApart, PTL
     DEF Spec, GoneUserGetsNoRows

-----------------------------------------------------------------------------
(***************************************************************************)
(* One request at a time.                                                  *)
(***************************************************************************)
Busy == {q \in Requests : pc[q] \in InFlight}

\* No two requests are in flight.
OneAtATime == IsFiniteSet(Busy) /\ \A q, r \in Busy : q = r

\* What a request in flight has read of the table is still so.
ReadsAreCurrent ==
  \A r \in Requests :
    /\ pc[r] \in Rotating => ~table[presented[r]].revoked
    /\ pc[r] = "apply" => snapshot[r] = ActiveRows(FamilyOf(presented[r]))

SerialInv == IndType /\ MintsAreApart /\ OneAtATime /\ ReadsAreCurrent

-----------------------------------------------------------------------------
LEMMA InitSerial == Init => OneAtATime /\ ReadsAreCurrent
<1> SUFFICES ASSUME Init PROVE OneAtATime /\ ReadsAreCurrent
  OBVIOUS
<1>1. \A r \in Requests : pc[r] = "idle"
  BY DEF Init
<1>2. Busy = {}
  BY <1>1 DEF Busy, InFlight, Rotating, InTransaction
<1> QED
  BY <1>1, <1>2, FS_EmptySet DEF OneAtATime, ReadsAreCurrent, Rotating, InTransaction

\* A request starts when no other is in flight.
LEMMA NobodyBusy ==
  ASSUME MaxInFlight = 1, OneAtATime, NEW r \in Requests, CanStart(r)
  PROVE  Busy = {}
<1>1. IsFiniteSet(Busy) /\ Cardinality(Busy) < 1
  BY DEF OneAtATime, CanStart, Busy
<1>2. Cardinality(Busy) = 0
  BY <1>1, FS_CardinalityType
<1> QED
  BY <1>1, <1>2, FS_EmptySet

\* Only an arriving request gets busy.
LEMMA GetsBusy ==
  ASSUME IndType, [Next]_vars, NEW q \in Busy', q \notin Busy
  PROVE  Arrive(q)
<1>t. pc \in [Requests -> {"idle"} \cup InFlight \cup Final]
  BY DEF IndType, TypeOK
<1>1. Acts(q)
  BY OthersWait DEF Busy
<1>2. ASSUME Progress(q) PROVE q \in Busy
  BY <1>2 DEF Busy, Progress, InsertRow, RevokePresented, MintSuccessor, FindUser, Commit,
     StartSweep, ApplySweep, RevokeOnLogout, InFlight, Rotating, InTransaction
<1>3. ASSUME Abort(q) \/ Fail(q) PROVE q \in Busy
  BY <1>3 DEF Busy, Abort, Fail, InFlight
<1> QED
  BY <1>1, <1>2, <1>3 DEF Acts

LEMMA StepOneAtATime ==
  ASSUME MaxInFlight = 1, IndType, OneAtATime, [Next]_vars
  PROVE  OneAtATime'
<1>1. CASE Busy' \subseteq Busy
  BY <1>1, FS_Subset DEF OneAtATime
<1>2. ASSUME NEW q \in Busy', q \notin Busy PROVE OneAtATime'
  <2>1. Arrive(q)
    BY <1>2, GetsBusy
  <2>2. Busy = {}
    BY <2>1, <1>2, NobodyBusy DEF Arrive, LoginAccepted, LoginRejected, Refresh, Logout, Busy
  <2>3. \A r \in Busy' : r = q
    <3> TAKE r \in Busy'
    <3>1. Arrive(r)
      BY <2>2, GetsBusy
    <3>2. r \in Requests /\ q \in Requests
      BY DEF Busy
    <3>3. pc' = [pc EXCEPT ![r] = pc'[r]]
      BY <3>1 DEF Arrive, LoginAccepted, LoginRejected, Refresh, Logout, Goto, IndType, TypeOK
    <3>4. r # q => pc'[q] = pc[q]
      BY <3>2, <3>3 DEF IndType, TypeOK
    <3> QED
      BY <1>2, <3>2, <3>4 DEF Busy
  <2>4. Busy' = {q}
    BY <1>2, <2>3
  <2> QED
    BY <2>4, FS_Singleton DEF OneAtATime
<1> QED
  BY <1>1, <1>2

\* Who writes is busy, so the table of a busy request is written by it alone.
LEMMA WritersAreBusy ==
  ASSUME IndType, OneAtATime, [Next]_vars, NEW q \in Busy, table' # table
  PROVE  InsertRow(q) \/ Commit(q) \/ ApplySweep(q) \/ RevokeOnLogout(q)
<1>1. PICK r \in Requests : InsertRow(r) \/ Commit(r) \/ ApplySweep(r) \/ RevokeOnLogout(r)
  BY OtherStepsKeepTable
<1>2. r \in Busy
  BY <1>1 DEF Busy, InsertRow, Commit, ApplySweep, RevokeOnLogout, InFlight, Rotating, InTransaction
<1> QED
  BY <1>1, <1>2 DEF OneAtATime

LEMMA WritersFinish ==
  ASSUME IndType, NEW r \in Requests,
         InsertRow(r) \/ Commit(r) \/ ApplySweep(r) \/ RevokeOnLogout(r)
  PROVE  pc'[r] \in Final
BY DEF InsertRow, Commit, ApplySweep, RevokeOnLogout, Goto, Final, IndType, TypeOK

\* A family UPDATE is applied to the rows it has found in the step before.
LEMMA ReachesApply ==
  ASSUME IndType, [Next]_vars, NEW q \in Requests, pc'[q] = "apply"
  PROVE  \/ pc[q] = "apply" /\ snapshot'[q] = snapshot[q] /\ presented'[q] = presented[q]
         \/ StartSweep(q)
<1>t. pc \in [Requests -> {"idle"} \cup InFlight \cup Final]
  BY DEF IndType, TypeOK
<1>1. ASSUME Arrive(q) PROVE FALSE
  BY <1>1, <1>t DEF Arrive, LoginAccepted, LoginRejected, Refresh, Logout, Goto
<1>2. ASSUME Progress(q) PROVE StartSweep(q)
  BY <1>2, <1>t DEF Progress, InsertRow, RevokePresented, MintSuccessor, FindUser, Commit,
     ApplySweep, RevokeOnLogout, Goto
<1>3. ASSUME Abort(q) \/ Fail(q) PROVE FALSE
  BY <1>3, <1>t DEF Abort, Fail, Goto
<1> QED
  BY <1>1, <1>2, <1>3, OthersWait DEF Acts

LEMMA StepReads ==
  ASSUME IndType, OneAtATime, ReadsAreCurrent, [Next]_vars
  PROVE  ReadsAreCurrent'
<1>k. ASSUME NEW q \in Busy, pc'[q] \notin Final PROVE table' = table
  BY <1>k, WritersAreBusy, WritersFinish DEF Busy
<1>1. ASSUME NEW q \in Requests, pc'[q] \in Rotating
      PROVE  ~table'[presented'[q]].revoked
  <2>1. CASE pc[q] \in Rotating /\ presented'[q] = presented[q]
    <3>1. q \in Busy /\ pc'[q] \notin Final
      BY <1>1, <2>1 DEF Busy, InFlight, Rotating, InTransaction, Final
    <3> QED
      BY <2>1, <3>1, <1>k DEF ReadsAreCurrent
  <2> QED
    BY <1>1, <2>1, StartsRotating
<1>2. ASSUME NEW q \in Requests, pc'[q] = "apply"
      PROVE  snapshot'[q] = ActiveRows(FamilyOf(presented[q]))' /\ presented'[q] = presented[q]
  <2>1. CASE pc[q] = "apply" /\ snapshot'[q] = snapshot[q] /\ presented'[q] = presented[q]
    <3>1. q \in Busy /\ pc'[q] \notin Final
      BY <1>2, <2>1 DEF Busy, InFlight, Final
    <3>2. table' = table
      BY <3>1, <1>k
    <3> QED
      BY <2>1, <3>2 DEF ReadsAreCurrent, ActiveRows, Families!ActiveRows, FamilyOf
  <2>2. CASE StartSweep(q)
    <3>1. /\ table' = table /\ presented' = presented
          /\ snapshot' = [snapshot EXCEPT ![q] = ActiveRows(FamilyOf(presented[q]))]
      BY <2>2 DEF StartSweep
    <3>2. snapshot'[q] = ActiveRows(FamilyOf(presented[q]))
      BY <3>1 DEF IndType, TypeOK
    <3> QED
      BY <3>1, <3>2 DEF ActiveRows, Families!ActiveRows, FamilyOf
  <2> QED
    BY <1>2, <2>1, <2>2, ReachesApply
<1> QED
  BY <1>1, <1>2 DEF ReadsAreCurrent

LEMMA InitSerialInv == Init => SerialInv
BY InitIndType, InitMintsAreApart, InitSerial DEF SerialInv

LEMMA StepSerialInv ==
  ASSUME MaxInFlight = 1, SerialInv, [Next]_vars
  PROVE  SerialInv'
BY StepIndType, StepMintsAreApart, StepOneAtATime, StepReads DEF SerialInv

-----------------------------------------------------------------------------
(***************************************************************************)
(* A replay.                                                               *)
(***************************************************************************)
LEMMA ReplayRevokes ==
  ASSUME SerialInv, [Next]_vars, NEW r \in Requests, pc[r] # "reuse", pc'[r] = "reuse"
  PROVE  ActiveRows(FamilyOf(presented[r]))' = {}
<1>t. pc \in [Requests -> {"idle"} \cup InFlight \cup Final]
  BY DEF SerialInv, IndType, TypeOK
<1>1. ApplySweep(r)
  <2>1. Acts(r)
    BY OthersWait DEF SerialInv
  <2>2. ASSUME Arrive(r) PROVE FALSE
    BY <2>2, <1>t DEF Arrive, LoginAccepted, LoginRejected, Refresh, Logout, Goto
  <2>3. ASSUME Abort(r) \/ Fail(r) PROVE FALSE
    BY <2>3, <1>t DEF Abort, Fail, Goto
  <2>4. ASSUME Progress(r) PROVE ApplySweep(r)
    BY <2>4, <1>t DEF Progress, InsertRow, RevokePresented, MintSuccessor, FindUser, Commit,
       StartSweep, RevokeOnLogout, Goto
  <2> QED
    BY <2>1, <2>2, <2>3, <2>4 DEF Acts
<1>2. /\ table' = Families!Revoked(snapshot[r])
      /\ snapshot[r] = ActiveRows(FamilyOf(presented[r]))
      /\ presented' = presented
  BY <1>1 DEF ApplySweep, SerialInv, ReadsAreCurrent, locals
<1>3. snapshot[r] \in SUBSET StoredTokens
  BY DEF SerialInv, IndType, SnapshotsAreStored
<1>4. \A x \in Tokens : table'[x].familyId = table[x].familyId
  BY <1>2, <1>3, RevokedFields DEF SerialInv
<1>5. \A x \in Tokens : table[x].revoked \/ x \in snapshot[r] => table'[x].revoked
  BY <1>2, <1>3, RevokedFields DEF SerialInv
<1>6. presented[r] \in Tokens
  BY <1>1 DEF ApplySweep, SerialInv, IndType, PresentedRowsAreStored, StoredTokens
<1>7. \A x \in Tokens : table'[x].familyId = table'[presented'[r]].familyId => table'[x].revoked
  <2> SUFFICES ASSUME NEW x \in Tokens, table'[x].familyId = table'[presented'[r]].familyId
               PROVE  table'[x].revoked
    OBVIOUS
  <2>1. table[x].familyId = table[presented[r]].familyId
    <3>1. presented'[r] = presented[r]
      BY <1>2
    <3> QED
      BY <1>4, <1>6, <3>1
  <2>2. table[x].revoked \/ x \in snapshot[r]
    BY <1>2, <2>1 DEF ActiveRows, Families!ActiveRows, FamilyOf
  <2> QED
    BY <1>5, <2>2
<1> QED
  BY <1>7 DEF ActiveRows, Families!ActiveRows, FamilyOf

\* auth-domain spec, "Refresh Token Reuse Detection": with one request open at
\* a time, aborted and retried ones included, a replay that has been answered
\* has left no row of its family valid.
THEOREM ReplayCorrect ==
  ASSUME MaxInFlight = 1
  PROVE  Spec => ReplayRevokesEveryRow
<1>1. SerialInv /\ [Next]_vars =>
        [FamilyIsSwept]_vars
  BY ReplayRevokes DEF FamilyIsSwept
<1> QED
  BY <1>1, InitSerialInv, StepSerialInv, PTL DEF Spec, ReplayRevokesEveryRow

-----------------------------------------------------------------------------
(***************************************************************************)
(* The refinement: every step is an operation of the documentation.        *)
(***************************************************************************)
LEMMA StepDocumented ==
  ASSUME SerialInv, [Next]_vars
  PROVE  [Families!DocumentedNext]_table
<1> USE DEF SerialInv
<1>1. ASSUME NEW r \in Requests, InsertRow(r) PROVE Families!DocumentedNext
  <2>1. PICK t \in Fresh : table' = [table EXCEPT ![t] = Families!NewRow(t, account[r])]
    BY <1>1, InsertedRow
  <2>2. t \in Tokens /\ ~Families!Stored(t) /\ account[r] \in Users
    BY <1>1 DEF Fresh, Stored, InsertRow, IndType, AccountsAreUsers
  <2>3. Families!OpenFamily(t, account[r])
    BY <2>1, <2>2 DEF Families!OpenFamily
  <2> QED
    BY <2>2, <2>3 DEF Families!DocumentedNext
<1>2. ASSUME NEW r \in Requests, Commit(r) PROVE Families!DocumentedNext
  <2>1. presented[r] \in StoredTokens /\ minted[r] \in Tokens \ StoredTokens
    BY <1>2, CommittedRows
  <2>2. table' = Families!Rotated(presented[r], minted[r])
    BY <1>2 DEF Commit, Families!Rotated
  <2>3. Families!Rotate(presented[r], minted[r])
    BY <2>1, <2>2 DEF Families!Rotate, StoredTokens, Stored
  <2>4. Families!Active(presented[r])
    BY <1>2, <2>1 DEF Commit, ReadsAreCurrent, Families!Active, StoredTokens, Stored,
       Rotating, InTransaction
  <2> QED
    BY <2>1, <2>3, <2>4 DEF Families!DocumentedNext, StoredTokens
<1>f. ASSUME NEW t \in StoredTokens PROVE table[t].familyId \in Tokens /\ Families!Stored(t)
  BY NoneIsNoToken
     DEF IndType, RowsAreComplete, StoredTokens, Stored, Families!Stored, Families!NoRow
<1>3. ASSUME NEW r \in Requests, ApplySweep(r) PROVE Families!DocumentedNext
  <2>1. presented[r] \in StoredTokens
    BY <1>3 DEF ApplySweep, IndType, PresentedRowsAreStored
  <2>2. table' = Families!Revoked(Families!ActiveRows(FamilyOf(presented[r])))
    BY <1>3 DEF ApplySweep, ReadsAreCurrent, ActiveRows
  <2>3. \A t \in Families!ActiveRows(FamilyOf(presented[r])) :
          Families!Stored(t) /\ table[t].familyId = FamilyOf(presented[r])
    BY <2>1, <1>f, NoneIsNoToken DEF Families!ActiveRows, FamilyOf, Families!Stored
  <2>4. Families!RevokeIn(FamilyOf(presented[r]), Families!ActiveRows(FamilyOf(presented[r])))
    BY <2>2, <2>3 DEF Families!RevokeIn
  <2> QED
    BY <2>1, <2>4, <1>f DEF Families!DocumentedNext, FamilyOf
<1>4. ASSUME NEW r \in Requests, RevokeOnLogout(r) PROVE Families!DocumentedNext
  <2>1. presented[r] \in StoredTokens
    BY <1>4 DEF RevokeOnLogout, IndType, PresentedRowsAreStored
  <2>2. Families!RevokeIn(table[presented[r]].familyId, {presented[r]})
    BY <1>4, <2>1, <1>f DEF RevokeOnLogout, Families!RevokeIn
  <2> QED
    BY <2>1, <2>2, <1>f DEF Families!DocumentedNext, StoredTokens
<1> QED
  BY <1>1, <1>2, <1>3, <1>4, OtherStepsKeepTable

\* With one request open at a time, the table only changes by what the
\* auth-domain spec describes: a login, a rotation of a valid row, a replay that
\* revokes a whole family, a logout that revokes one row.
THEOREM RefinesDocumentedFamilies ==
  ASSUME MaxInFlight = 1
  PROVE  Spec => ImplementsDocumentedFamilies
<1>1. Init => Families!Init
  BY DEF Init, Families!Init
<1> QED
  BY <1>1, InitSerialInv, StepSerialInv, StepDocumented, PTL
     DEF Spec, ImplementsDocumentedFamilies, Families!DocumentedSpec
=============================================================================
