------------------------ MODULE RefreshTokensProofs ------------------------
(***************************************************************************)
(* Proofs about RefreshTokens, for any sets of requests, tokens and users: *)
(* types, the links of the table, the refinement of TokenFamilies, the     *)
(* locks, and the work a request can take.                                 *)
(***************************************************************************)
EXTENDS RefreshTokens, TLAPS

\* The rows that the handlers in flight refer to are in the table.
PresentedRowsAreStored ==
  \A r \in Requests :
    pc[r] \in Rotating \cup {"sweep", "apply", "revoke"} => presented[r] \in StoredTokens

\* A row is either complete or the NoRow of a token the table does not hold.
RowsAreComplete ==
  \A t \in Tokens :
    \/ table[t].familyId \in Tokens /\ table[t].userId \in Users
    \/ table[t] = Families!NoRow

\* The rows a family UPDATE has found are in the table.
SnapshotsAreStored == \A r \in Requests : snapshot[r] \subseteq StoredTokens

\* A rotation past its INSERT has a token to commit.
MintedTokens == \A r \in Requests : pc[r] \in {"user", "commit"} => minted[r] \in Tokens

\* The users that logins in flight have verified.
AccountsAreUsers == \A r \in Requests : pc[r] = "insert" => account[r] \in Users

IndType ==
  /\ TypeOK
  /\ PresentedRowsAreStored
  /\ SnapshotsAreStored
  /\ MintedTokens
  /\ RowsAreComplete
  /\ AccountsAreUsers

-----------------------------------------------------------------------------
LEMMA InitIndType == Init => IndType
  BY NoneIsNoToken, SomeAttempts
     DEF Init, IndType, TypeOK, PresentedRowsAreStored, SnapshotsAreStored,
         MintedTokens, RowsAreComplete, AccountsAreUsers,
         Families!Row, Families!NoRow, InFlight, Rotating, InTransaction

\* Setting revoked_at leaves every row complete, and in the table.
LEMMA RevokedRows ==
  ASSUME IndType, NEW S \in SUBSET StoredTokens, table' = Families!Revoked(S)
  PROVE  /\ table' \in [Tokens -> Families!Row]
         /\ RowsAreComplete'
         /\ StoredTokens' = StoredTokens
<1> USE DEF IndType, TypeOK, RowsAreComplete, Families!Row, Families!NoRow, Families!Revoked,
            StoredTokens, Stored, Families!Stored
<1>1. table' \in [Tokens -> Families!Row]
  <2>1. ASSUME NEW t \in Tokens
        PROVE  (IF t \in S THEN [table[t] EXCEPT !.revoked = TRUE] ELSE table[t]) \in Families!Row
    <3>1. table[t] \in Families!Row
      OBVIOUS
    <3> QED
      BY <3>1
  <2> QED
    BY <2>1
<1>2. \A t \in Tokens : /\ table'[t].familyId = table[t].familyId
                        /\ table'[t].userId = table[t].userId
                        /\ t \notin S => table'[t] = table[t]
  OBVIOUS
<1>3. RowsAreComplete' /\ StoredTokens' = StoredTokens
  <2>1. ASSUME NEW t \in S PROVE table[t].familyId \in Tokens /\ table[t].userId \in Users
    BY NoneIsNoToken
  <2>2. ASSUME NEW t \in Tokens
        PROVE  \/ table'[t].familyId \in Tokens /\ table'[t].userId \in Users
               \/ table'[t] = Families!NoRow
    <3>1. CASE t \in S
      BY <3>1, <2>1, <1>2
    <3>2. CASE t \notin S
      <4>1. table'[t] = table[t]
        BY <3>2, <1>2
      <4> QED
        BY <4>1
    <3> QED
      BY <3>1, <3>2
  <2>3. RowsAreComplete'
    BY <2>2
  <2>4. StoredTokens' = StoredTokens
    BY <1>2
  <2> QED
    BY <2>3, <2>4
<1> QED
  BY <1>1, <1>3

LEMMA StepIndType == IndType /\ [Next]_vars => IndType'
<1> SUFFICES ASSUME IndType, [Next]_vars PROVE IndType'
  OBVIOUS
<1> USE NoneIsNoToken, SomeAttempts
    DEF IndType, TypeOK, Families!Row, Families!NoRow, InFlight, Rotating, InTransaction,
        Final, Goto, locals, StoredTokens, Stored, Families!Stored, RowsAreComplete,
        PresentedRowsAreStored, SnapshotsAreStored, MintedTokens,
        AccountsAreUsers
<1>1. ASSUME NEW r \in Requests, NEW u \in Users, LoginAccepted(r, u) PROVE IndType'
  BY <1>1 DEF LoginAccepted, CanStart
<1>2. ASSUME NEW r \in Requests, LoginRejected(r) PROVE IndType'
  BY <1>2 DEF LoginRejected, CanStart
<1>3. ASSUME NEW r \in Requests, InsertRow(r) PROVE IndType'
  <2>1. PICK t \in Fresh, a \in {"issued", "error"} :
          /\ pc[r] = "insert"
          /\ table' = [table EXCEPT ![t] = Families!NewRow(t, account[r])]
          /\ minted' = [minted EXCEPT ![r] = t]
          /\ pc' = [pc EXCEPT ![r] = a]
    BY <1>3 DEF InsertRow
  <2>2. UNCHANGED <<expired, users, account, presented, attempt, snapshot>>
    BY <1>3 DEF InsertRow
  <2>3. t \in Tokens /\ account[r] \in Users
    BY <2>1 DEF Fresh
  <2>4. table' \in [Tokens -> Families!Row]
    BY <2>1, <2>3 DEF Families!NewRow
  <2>5. TypeOK'
    BY <2>1, <2>2, <2>3, <2>4
  <2>6. RowsAreComplete'
    BY <2>1, <2>3 DEF Families!NewRow
  <2>7. StoredTokens \subseteq StoredTokens'
    BY <2>1, <2>3 DEF Families!NewRow
  <2>8. PresentedRowsAreStored' /\ SnapshotsAreStored' /\ MintedTokens' /\ AccountsAreUsers'
    BY <2>1, <2>2, <2>7
  <2> QED
    BY <2>5, <2>6, <2>8
<1>4. ASSUME NEW r \in Requests, NEW t \in Presentable, Refresh(r, t) PROVE IndType'
  <2>1. /\ presented' = [presented EXCEPT ![r] = t]
        /\ UNCHANGED <<table, expired, users, account, minted, snapshot>>
        /\ pc[r] = "idle"
    BY <1>4 DEF Refresh, CanStart
  <2>2. t \in Tokens \cup {None}
    BY DEF Presentable, Delivered
  <2>3. \/ pc' = [pc EXCEPT ![r] = "unauthorized"]
        \/ pc' = [pc EXCEPT ![r] = "sweep"] /\ t \in StoredTokens
        \/ pc' = [pc EXCEPT ![r] = "rotate"] /\ t \in StoredTokens
    BY <1>4 DEF Refresh
  <2>4. attempt' \in [Requests -> 0 .. MaxAttempts]
    BY <1>4 DEF Refresh
  <2>5. TypeOK'
    BY <2>1, <2>2, <2>3, <2>4
  <2>6. PresentedRowsAreStored'
    BY <2>1, <2>3
  <2> QED
    BY <2>1, <2>3, <2>5, <2>6
<1>5. ASSUME NEW r \in Requests, RevokePresented(r) PROVE IndType'
  BY <1>5 DEF RevokePresented
<1>6. ASSUME NEW r \in Requests, MintSuccessor(r) PROVE IndType'
  BY <1>6 DEF MintSuccessor, Fresh
<1>7. ASSUME NEW r \in Requests, FindUser(r) PROVE IndType'
  BY <1>7 DEF FindUser
<1>8. ASSUME NEW r \in Requests, Commit(r) PROVE IndType'
  <2> DEFINE t == presented[r]
             s == minted[r]
  <2>1. PICK a \in {"rotated", "error"} : pc' = [pc EXCEPT ![r] = a]
    BY <1>8 DEF Commit
  <2>2. /\ pc[r] = "commit"
        /\ table' = [table EXCEPT ![t].revoked = TRUE,
                                  ![t].replacedBy = s,
                                  ![s] = Families!NewRow(table[t].familyId, table[t].userId)]
        /\ UNCHANGED <<expired, users, account, presented, minted, attempt, snapshot>>
    BY <1>8 DEF Commit
  <2>3. t \in Tokens /\ table[t].familyId \in Tokens /\ table[t].userId \in Users
    BY <2>2
  <2>4. s \in Tokens
    BY <2>2
  <2> HIDE DEF t, s
  <2>5. table' \in [Tokens -> Families!Row]
    <3>1. Families!NewRow(table[t].familyId, table[t].userId) \in Families!Row
      BY <2>3 DEF Families!NewRow
    <3>2. [table[t] EXCEPT !.revoked = TRUE, !.replacedBy = s] \in Families!Row
      <4>1. table[t] \in Families!Row
        BY <2>3
      <4> QED
        BY <4>1, <2>4
    <3> QED
      BY <2>2, <2>3, <2>4, <3>1, <3>2
  <2>6. TypeOK'
    BY <2>1, <2>2, <2>5
  <2>7. ASSUME NEW x \in Tokens
        PROVE  \/ table'[x] = table[x]
               \/ table'[x].familyId \in Tokens /\ table'[x].userId \in Users
    <3>1. CASE x = s
      BY <3>1, <2>2, <2>3, <2>5 DEF Families!NewRow
    <3>2. CASE x # s /\ x = t
      <4>1. table'[x] = [table[t] EXCEPT !.revoked = TRUE, !.replacedBy = s]
        BY <3>2, <2>2, <2>3
      <4> QED
        BY <4>1, <2>3
    <3>3. CASE x # s /\ x # t
      BY <3>3, <2>2
    <3> QED
      BY <3>1, <3>2, <3>3
  <2>8. RowsAreComplete' /\ StoredTokens \subseteq StoredTokens'
    BY <2>7
  <2>9. PresentedRowsAreStored'
    BY <2>1, <2>2, <2>8
  <2>10. SnapshotsAreStored'
    BY <2>2, <2>8
  <2>11. MintedTokens' /\ AccountsAreUsers'
    BY <2>1, <2>2
  <2> QED
    BY <2>6, <2>8, <2>9, <2>10, <2>11
<1>9. ASSUME NEW r \in Requests, Abort(r) PROVE IndType'
  BY <1>9 DEF Abort
<1>10. ASSUME NEW r \in Requests, StartSweep(r) PROVE IndType'
  <2>1. FamilyOf(presented[r]) \in Tokens
    BY <1>10 DEF StartSweep, FamilyOf
  <2>2. ActiveRows(FamilyOf(presented[r])) \subseteq StoredTokens
    BY <2>1 DEF ActiveRows, Families!ActiveRows
  <2>3. snapshot' = [snapshot EXCEPT ![r] = ActiveRows(FamilyOf(presented[r]))]
    BY <1>10 DEF StartSweep
  <2>4. /\ pc[r] = "sweep" /\ pc' = [pc EXCEPT ![r] = "apply"]
        /\ UNCHANGED <<table, expired, users, account, presented, minted, attempt>>
    BY <1>10 DEF StartSweep
  <2>5. snapshot' \in [Requests -> SUBSET Tokens] /\ SnapshotsAreStored'
    BY <2>2, <2>3, <2>4
  <2> QED
    BY <2>4, <2>5
<1>11. ASSUME NEW r \in Requests, ApplySweep(r) PROVE IndType'
  <2>1. PICK a \in {"reuse", "error"} : pc' = [pc EXCEPT ![r] = a]
    BY <1>11 DEF ApplySweep
  <2>2. /\ table' = Families!Revoked(snapshot[r])
        /\ UNCHANGED <<expired, users, account, presented, minted, attempt, snapshot>>
    BY <1>11 DEF ApplySweep
  <2>3. snapshot[r] \subseteq StoredTokens
    BY <1>11 DEF ApplySweep
  <2>4. table' \in [Tokens -> Families!Row] /\ RowsAreComplete' /\ StoredTokens' = StoredTokens
    BY <2>2, <2>3, RevokedRows
  <2>5. TypeOK' /\ PresentedRowsAreStored' /\ SnapshotsAreStored' /\ MintedTokens' /\ AccountsAreUsers'
    BY <2>1, <2>2, <2>4
  <2> QED
    BY <2>4, <2>5
<1>12. ASSUME NEW r \in Requests, NEW t \in Presentable, Logout(r, t) PROVE IndType'
  <2>1. /\ presented' = [presented EXCEPT ![r] = t]
        /\ UNCHANGED <<table, expired, users, account, minted, attempt, snapshot>>
        /\ pc[r] = "idle"
    BY <1>12 DEF Logout, CanStart
  <2>2. t \in Tokens \cup {None}
    BY DEF Presentable, Delivered
  <2>3. \/ pc' = [pc EXCEPT ![r] = "unauthorized"]
        \/ pc' = [pc EXCEPT ![r] = "revoke"] /\ t \in StoredTokens
    BY <1>12 DEF Logout
  <2>4. TypeOK'
    BY <2>1, <2>2, <2>3
  <2>5. PresentedRowsAreStored'
    BY <2>1, <2>3
  <2> QED
    BY <2>1, <2>3, <2>4, <2>5
<1>13. ASSUME NEW r \in Requests, RevokeOnLogout(r) PROVE IndType'
  <2>1. PICK a \in {"loggedOut", "error"} : pc' = [pc EXCEPT ![r] = a]
    BY <1>13 DEF RevokeOnLogout
  <2>2. /\ table' = Families!Revoked({presented[r]})
        /\ UNCHANGED <<expired, users, account, presented, minted, attempt, snapshot>>
    BY <1>13 DEF RevokeOnLogout
  <2>3. {presented[r]} \subseteq StoredTokens
    BY <1>13 DEF RevokeOnLogout
  <2>4. table' \in [Tokens -> Families!Row] /\ RowsAreComplete' /\ StoredTokens' = StoredTokens
    BY <2>2, <2>3, RevokedRows
  <2>5. TypeOK' /\ PresentedRowsAreStored' /\ SnapshotsAreStored' /\ MintedTokens' /\ AccountsAreUsers'
    BY <2>1, <2>2, <2>4
  <2> QED
    BY <2>4, <2>5
<1>14. ASSUME NEW r \in Requests, Fail(r) PROVE IndType'
  BY <1>14 DEF Fail
<1>15. ASSUME NEW t \in Tokens, Expire(t) PROVE IndType'
  BY <1>15 DEF Expire
<1>16. ASSUME NEW u \in Users, DeleteUser(u) PROVE IndType'
  BY <1>16 DEF DeleteUser
<1>17. CASE UNCHANGED vars
  BY <1>17 DEF vars
<1> QED
  BY <1>1, <1>2, <1>3, <1>4, <1>5, <1>6, <1>7, <1>8, <1>9, <1>10, <1>11, <1>12, <1>13,
     <1>14, <1>15, <1>16, <1>17 DEF Next, Arrive, Progress, Finished

\* Type correctness: every variable of RefreshTokens keeps its type.
THEOREM TypeCorrect == Spec => []TypeOK
<1>1. IndType => TypeOK
  BY DEF IndType
<1> QED
  BY <1>1, InitIndType, StepIndType, PTL DEF Spec

LEMMA IndTypeInvariant == Spec => []IndType
  BY InitIndType, StepIndType, PTL DEF Spec

-----------------------------------------------------------------------------
(***************************************************************************)
(* Tokens are minted apart: what a rotation is about to commit is no row   *)
(* yet, and no two requests mint one token.                                *)
(***************************************************************************)
NotMinting == {"idle", "insert", "rotate", "mint", "sweep", "apply", "revoke"}

MintsAreApart ==
  /\ \A r \in Requests : pc[r] \in {"user", "commit"} => minted[r] \notin StoredTokens
  /\ \A r, q \in Requests : r # q /\ minted[r] # None => minted[q] # minted[r]
  /\ \A r \in Requests : pc[r] \in NotMinting => minted[r] = None

\* What a login's INSERT changes.
LEMMA InsertedRow ==
  ASSUME IndType, NEW r \in Requests, InsertRow(r)
  PROVE  \E t \in Fresh :
           /\ minted' = [minted EXCEPT ![r] = t]
           /\ table'[t] = Families!NewRow(t, account[r])
           /\ table' = [table EXCEPT ![t] = Families!NewRow(t, account[r])]
           /\ \A x \in Tokens \ {t} : table'[x] = table[x]
           /\ StoredTokens' = StoredTokens \cup {t}
<1>1. PICK t \in Fresh :
        /\ table' = [table EXCEPT ![t] = Families!NewRow(t, account[r])]
        /\ minted' = [minted EXCEPT ![r] = t]
  BY DEF InsertRow
<1>2. t \in Tokens /\ table \in [Tokens -> Families!Row]
  BY DEF Fresh, IndType, TypeOK
<1>3. table'[t] = Families!NewRow(t, account[r]) /\ \A x \in Tokens \ {t} : table'[x] = table[x]
  BY <1>1, <1>2
<1>4. table'[t].familyId # None
  BY <1>2, <1>3, NoneIsNoToken DEF Families!NewRow
<1>5. StoredTokens' = StoredTokens \cup {t}
  BY <1>2, <1>3, <1>4 DEF StoredTokens, Stored, Families!Stored
<1> QED
  BY <1>1, <1>3, <1>5

\* What a committed rotation changes.
LEMMA CommittedRows ==
  ASSUME IndType, MintsAreApart, NEW r \in Requests, Commit(r)
  PROVE  LET t == presented[r]
             s == minted[r]
         IN  /\ t \in StoredTokens /\ s \in Tokens \ StoredTokens
             /\ table'[t].familyId = table[t].familyId
             /\ table'[t].userId = table[t].userId
             /\ table'[t].revoked
             /\ table'[t].replacedBy = s
             /\ table'[s] = Families!NewRow(table[t].familyId, table[t].userId)
             /\ \A x \in Tokens \ {s, t} : table'[x] = table[x]
             /\ StoredTokens' = StoredTokens \cup {s}
<1> DEFINE t == presented[r]
           s == minted[r]
<1>1. pc[r] = "commit"
  BY DEF Commit
<1>2. table' = [table EXCEPT ![t].revoked = TRUE,
                            ![t].replacedBy = s,
                            ![s] = Families!NewRow(table[t].familyId, table[t].userId)]
  BY DEF Commit
<1>3. t \in StoredTokens /\ s \in Tokens \ StoredTokens
  BY <1>1 DEF IndType, PresentedRowsAreStored, MintedTokens, MintsAreApart, Rotating, InTransaction
<1>4. t \in Tokens /\ t # s /\ table \in [Tokens -> Families!Row]
  BY <1>3 DEF IndType, TypeOK, StoredTokens
<1> HIDE DEF t, s
<1>5. table'[t] = [table[t] EXCEPT !.revoked = TRUE, !.replacedBy = s]
  BY <1>2, <1>3, <1>4
<1>6. table[t] \in Families!Row
  BY <1>4
<1>7. /\ table'[t].familyId = table[t].familyId
      /\ table'[t].userId = table[t].userId
      /\ table'[t].revoked
      /\ table'[t].replacedBy = s
  BY <1>5, <1>6 DEF Families!Row
<1>8. table'[s] = Families!NewRow(table[t].familyId, table[t].userId)
  BY <1>2, <1>3, <1>4
<1>9. \A x \in Tokens \ {s, t} : table'[x] = table[x]
  BY <1>2, <1>3, <1>4
<1>10. table'[s].familyId # None
  BY <1>3, <1>8 DEF Families!NewRow, StoredTokens, Stored, Families!Stored
<1>11. StoredTokens' = StoredTokens \cup {s}
  BY <1>3, <1>7, <1>9, <1>10 DEF StoredTokens, Stored, Families!Stored
<1> QED
  BY <1>3, <1>7, <1>8, <1>9, <1>11 DEF t, s

\* What a revocation of the rows of S changes.
LEMMA RevokedFields ==
  ASSUME IndType, NEW S \in SUBSET StoredTokens, table' = Families!Revoked(S)
  PROVE  /\ StoredTokens' = StoredTokens
         /\ \A x \in Tokens : /\ table'[x].familyId = table[x].familyId
                              /\ table'[x].userId = table[x].userId
                              /\ table'[x].replacedBy = table[x].replacedBy
                              /\ table[x].revoked \/ x \in S => table'[x].revoked
                              /\ x \notin S => table'[x] = table[x]
<1>1. StoredTokens' = StoredTokens
  BY RevokedRows
<1>2. ASSUME NEW x \in Tokens
      PROVE  /\ table'[x].familyId = table[x].familyId
             /\ table'[x].userId = table[x].userId
             /\ table'[x].replacedBy = table[x].replacedBy
             /\ table[x].revoked \/ x \in S => table'[x].revoked
             /\ x \notin S => table'[x] = table[x]
  <2>1. table[x] \in Families!Row
    BY DEF IndType, TypeOK
  <2>2. table'[x] = IF x \in S THEN [table[x] EXCEPT !.revoked = TRUE] ELSE table[x]
    BY DEF Families!Revoked
  <2> QED
    BY <2>1, <2>2 DEF Families!Row
<1> QED
  BY <1>1, <1>2

\* The steps that set revoked_at by an UPDATE on its own, and the rows it is.
LEMMA RevocationSteps ==
  ASSUME IndType, NEW r \in Requests, ApplySweep(r) \/ RevokeOnLogout(r)
  PROVE  \E S \in SUBSET StoredTokens :
           /\ table' = Families!Revoked(S)
           /\ ApplySweep(r) => S = snapshot[r]
           /\ RevokeOnLogout(r) => S = {presented[r]}
<1>1. CASE ApplySweep(r)
  <2>1. pc[r] = "apply" /\ table' = Families!Revoked(snapshot[r])
    BY <1>1 DEF ApplySweep
  <2>2. snapshot[r] \in SUBSET StoredTokens
    BY DEF IndType, SnapshotsAreStored
  <2>3. ~RevokeOnLogout(r)
    BY <2>1 DEF RevokeOnLogout
  <2> QED
    BY <2>1, <2>2, <2>3
<1>2. CASE RevokeOnLogout(r)
  <2>1. pc[r] = "revoke" /\ table' = Families!Revoked({presented[r]})
    BY <1>2 DEF RevokeOnLogout
  <2>2. {presented[r]} \in SUBSET StoredTokens
    BY <2>1 DEF IndType, PresentedRowsAreStored
  <2>3. ~ApplySweep(r)
    BY <2>1 DEF ApplySweep
  <2> QED
    BY <2>1, <2>2, <2>3
<1> QED
  BY <1>1, <1>2

\* No other step writes the table.
LEMMA OtherStepsKeepTable ==
  ASSUME [Next]_vars,
         \A r \in Requests : ~InsertRow(r) /\ ~Commit(r) /\ ~ApplySweep(r) /\ ~RevokeOnLogout(r)
  PROVE  table' = table
  BY DEF Next, Arrive, Progress, LoginAccepted, LoginRejected, Refresh, Logout, RevokePresented,
         MintSuccessor, FindUser, Abort, StartSweep, Fail, Expire, DeleteUser, Finished, vars

LEMMA InitMintsAreApart == Init => MintsAreApart
  BY NoneIsNoToken DEF Init, MintsAreApart

LEMMA StepMintsAreApart == IndType /\ MintsAreApart /\ [Next]_vars => MintsAreApart'
<1> SUFFICES ASSUME IndType, MintsAreApart, [Next]_vars PROVE MintsAreApart'
  OBVIOUS
<1> USE NoneIsNoToken DEF NotMinting
<1> DEFINE Apart == \A x, q \in Requests : x # q /\ minted[x] # None => minted[q] # minted[x]
<1>t. /\ pc \in [Requests -> {"idle"} \cup InFlight \cup Final]
      /\ minted \in [Requests -> Tokens \cup {None}]
  BY DEF IndType, TypeOK
<1>k. ASSUME StoredTokens' = StoredTokens, minted' = minted, NEW r \in Requests, NEW a,
             pc' = [pc EXCEPT ![r] = a],
             a \in {"user", "commit"} => minted[r] \notin StoredTokens,
             a \in NotMinting => minted[r] = None
      PROVE  MintsAreApart'
  BY <1>k, <1>t DEF MintsAreApart
<1>z. ASSUME StoredTokens' = StoredTokens, NEW r \in Requests, NEW a,
             minted' = [minted EXCEPT ![r] = None], pc' = [pc EXCEPT ![r] = a],
             a \notin {"user", "commit"}
      PROVE  MintsAreApart'
  BY <1>z, <1>t DEF MintsAreApart
<1>f. ASSUME NEW t \in Fresh, NEW r \in Requests, minted' = [minted EXCEPT ![r] = t]
      PROVE  Apart'
  BY <1>f, <1>t DEF MintsAreApart, Fresh
<1>s. table' = table => StoredTokens' = StoredTokens
  BY DEF StoredTokens, Stored, Families!Stored
<1>1. ASSUME NEW r \in Requests, NEW u \in Users, LoginAccepted(r, u) PROVE MintsAreApart'
  <2>1. pc[r] = "idle" /\ pc' = [pc EXCEPT ![r] = "insert"] /\ minted' = minted /\ table' = table
    BY <1>1 DEF LoginAccepted, CanStart, Goto
  <2> QED
    BY <2>1, <1>s, <1>k DEF MintsAreApart
<1>2. ASSUME NEW r \in Requests, LoginRejected(r) PROVE MintsAreApart'
  <2>1. pc' = [pc EXCEPT ![r] = "unauthorized"] /\ minted' = minted /\ table' = table
    BY <1>2 DEF LoginRejected, Goto, locals
  <2> QED
    BY <2>1, <1>s, <1>k
<1>3. ASSUME NEW r \in Requests, InsertRow(r) PROVE MintsAreApart'
  <2>1. PICK t \in Fresh : /\ minted' = [minted EXCEPT ![r] = t]
                           /\ StoredTokens' = StoredTokens \cup {t}
    BY <1>3, InsertedRow
  <2>2. PICK a \in {"issued", "error"} : pc' = [pc EXCEPT ![r] = a]
    BY <1>3 DEF InsertRow, Goto
  <2>3. Apart'
    BY <2>1, <1>f
  <2>4. \A q \in Requests : pc'[q] \in {"user", "commit"} => minted'[q] \notin StoredTokens'
    BY <2>1, <2>2, <1>t DEF MintsAreApart, Fresh
  <2>5. \A q \in Requests : pc'[q] \in NotMinting => minted'[q] = None
    BY <2>1, <2>2, <1>t DEF MintsAreApart
  <2> QED
    BY <2>3, <2>4, <2>5 DEF MintsAreApart
<1>4. ASSUME NEW r \in Requests, NEW t \in Presentable, Refresh(r, t) PROVE MintsAreApart'
  <2>1. pc[r] = "idle" /\ minted' = minted /\ table' = table
    BY <1>4 DEF Refresh, CanStart
  <2>2. PICK a \in {"unauthorized", "sweep", "rotate"} : pc' = [pc EXCEPT ![r] = a]
    BY <1>4 DEF Refresh, Goto
  <2> QED
    BY <2>1, <2>2, <1>s, <1>k DEF MintsAreApart
<1>5. ASSUME NEW r \in Requests, RevokePresented(r) PROVE MintsAreApart'
  <2>1. pc[r] = "rotate" /\ pc' = [pc EXCEPT ![r] = "mint"] /\ minted' = minted /\ table' = table
    BY <1>5 DEF RevokePresented, Goto, locals
  <2> QED
    BY <2>1, <1>s, <1>k DEF MintsAreApart
<1>6. ASSUME NEW r \in Requests, MintSuccessor(r) PROVE MintsAreApart'
  <2>1. PICK t \in Fresh : minted' = [minted EXCEPT ![r] = t]
    BY <1>6 DEF MintSuccessor
  <2>2. pc' = [pc EXCEPT ![r] = "user"] /\ StoredTokens' = StoredTokens
    BY <1>6, <1>s DEF MintSuccessor, Goto
  <2>3. t \notin StoredTokens
    BY DEF Fresh, StoredTokens
  <2>4. Apart'
    BY <2>1, <1>f
  <2> QED
    BY <2>1, <2>2, <2>3, <2>4, <1>t DEF MintsAreApart
<1>7. ASSUME NEW r \in Requests, FindUser(r) PROVE MintsAreApart'
  <2>1. pc[r] = "user" /\ StoredTokens' = StoredTokens
    BY <1>7, <1>s DEF FindUser
  <2>2. \/ pc' = [pc EXCEPT ![r] = "commit"] /\ minted' = minted
        \/ pc' = [pc EXCEPT ![r] = "unauthorized"] /\ minted' = [minted EXCEPT ![r] = None]
    BY <1>7 DEF FindUser, Goto
  <2> QED
    BY <2>1, <2>2, <1>k, <1>z DEF MintsAreApart
<1>8. ASSUME NEW r \in Requests, Commit(r) PROVE MintsAreApart'
  <2>1. StoredTokens' = StoredTokens \cup {minted[r]} /\ minted[r] \in Tokens
    BY <1>8, CommittedRows
  <2>2. PICK a \in {"rotated", "error"} : pc' = [pc EXCEPT ![r] = a]
    BY <1>8 DEF Commit, Goto
  <2>3. minted' = minted
    BY <1>8 DEF Commit, locals
  <2> QED
    BY <2>1, <2>2, <2>3, <1>t DEF MintsAreApart
<1>9. ASSUME NEW r \in Requests, Abort(r) PROVE MintsAreApart'
  <2>1. PICK a \in {"rotate", "error"} : pc' = [pc EXCEPT ![r] = a]
    BY <1>9 DEF Abort, Goto
  <2>2. minted' = [minted EXCEPT ![r] = None] /\ table' = table
    BY <1>9 DEF Abort
  <2>3. a \notin {"user", "commit"}
    OBVIOUS
  <2>4. StoredTokens' = StoredTokens
    BY <2>2, <1>s
  <2> QED
    BY <2>1, <2>2, <2>3, <2>4, <1>z
<1>10. ASSUME NEW r \in Requests, StartSweep(r) PROVE MintsAreApart'
  <2>1. pc[r] = "sweep" /\ pc' = [pc EXCEPT ![r] = "apply"] /\ minted' = minted /\ table' = table
    BY <1>10 DEF StartSweep, Goto
  <2> QED
    BY <2>1, <1>s, <1>k DEF MintsAreApart
<1>11. ASSUME NEW r \in Requests, ApplySweep(r) PROVE MintsAreApart'
  <2>1. PICK a \in {"reuse", "error"} : pc' = [pc EXCEPT ![r] = a]
    BY <1>11 DEF ApplySweep, Goto
  <2>2. StoredTokens' = StoredTokens
    BY <1>11, RevocationSteps, RevokedFields
  <2>3. minted' = minted
    BY <1>11 DEF ApplySweep, locals
  <2> QED
    BY <2>1, <2>2, <2>3, <1>k
<1>12. ASSUME NEW r \in Requests, NEW t \in Presentable, Logout(r, t) PROVE MintsAreApart'
  <2>1. pc[r] = "idle" /\ minted' = minted /\ table' = table
    BY <1>12 DEF Logout, CanStart
  <2>2. PICK a \in {"unauthorized", "revoke"} : pc' = [pc EXCEPT ![r] = a]
    BY <1>12 DEF Logout, Goto
  <2> QED
    BY <2>1, <2>2, <1>s, <1>k DEF MintsAreApart
<1>13. ASSUME NEW r \in Requests, RevokeOnLogout(r) PROVE MintsAreApart'
  <2>1. PICK a \in {"loggedOut", "error"} : pc' = [pc EXCEPT ![r] = a]
    BY <1>13 DEF RevokeOnLogout, Goto
  <2>2. StoredTokens' = StoredTokens
    BY <1>13, RevocationSteps, RevokedFields
  <2>3. minted' = minted
    BY <1>13 DEF RevokeOnLogout, locals
  <2> QED
    BY <2>1, <2>2, <2>3, <1>k
<1>14. ASSUME NEW r \in Requests, Fail(r) PROVE MintsAreApart'
  <2>1. /\ pc' = [pc EXCEPT ![r] = "error"] /\ minted' = [minted EXCEPT ![r] = None]
        /\ table' = table
    BY <1>14 DEF Fail, Goto
  <2>2. StoredTokens' = StoredTokens
    BY <2>1, <1>s
  <2>3. "error" \notin {"user", "commit"}
    OBVIOUS
  <2> QED
    BY <2>1, <2>2, <2>3, <1>z
<1>15. CASE UNCHANGED <<pc, minted, table>>
  BY <1>15, <1>s DEF MintsAreApart
<1>16. ASSUME NEW t \in Tokens, Expire(t) PROVE UNCHANGED <<pc, minted, table>>
  BY <1>16 DEF Expire, locals
<1>17. ASSUME NEW u \in Users, DeleteUser(u) PROVE UNCHANGED <<pc, minted, table>>
  BY <1>17 DEF DeleteUser, locals
<1> QED
  BY <1>1, <1>2, <1>3, <1>4, <1>5, <1>6, <1>7, <1>8, <1>9, <1>10, <1>11, <1>12, <1>13,
     <1>14, <1>15, <1>16, <1>17 DEF Next, Arrive, Progress, Finished, vars

-----------------------------------------------------------------------------
(***************************************************************************)
(* The chains of replaced_by.                                              *)
(***************************************************************************)

\* LinksStayInFamily, with the revoked row in the table too.
Links ==
  \A x \in Tokens : table[x].replacedBy # None =>
    /\ x \in StoredTokens
    /\ table[x].revoked
    /\ table[x].replacedBy \in StoredTokens \ {x}
    /\ table[table[x].replacedBy].familyId = table[x].familyId
    /\ table[table[x].replacedBy].userId = table[x].userId

LEMMA LinksSuffice == Links => LinksStayInFamily
  BY DEF Links, LinksStayInFamily, StoredTokens

LEMMA StepLinks == IndType /\ MintsAreApart /\ Links /\ [Next]_vars => Links'
<1> SUFFICES ASSUME IndType, MintsAreApart, Links, [Next]_vars PROVE Links'
  OBVIOUS
<1>1. ASSUME NEW r \in Requests, InsertRow(r) PROVE Links'
  <2>1. PICK t \in Fresh : /\ table'[t] = Families!NewRow(t, account[r])
                           /\ \A y \in Tokens \ {t} : table'[y] = table[y]
                           /\ StoredTokens' = StoredTokens \cup {t}
    BY <1>1, InsertedRow
  <2>2. t \in Tokens \ StoredTokens
    BY DEF Fresh, StoredTokens
  <2>3. table'[t].replacedBy = None
    BY <2>1 DEF Families!NewRow
  <2>4. StoredTokens \subseteq Tokens \ {t}
    BY <2>2 DEF StoredTokens
  <2> QED
    BY <2>1, <2>3, <2>4 DEF Links
<1>2. ASSUME NEW r \in Requests, Commit(r) PROVE Links'
  <2> DEFINE t == presented[r]
             n == minted[r]
  <2>1. /\ t \in StoredTokens /\ n \in Tokens \ StoredTokens
        /\ table'[t].familyId = table[t].familyId
        /\ table'[t].userId = table[t].userId
        /\ table'[t].revoked
        /\ table'[t].replacedBy = n
        /\ table'[n] = Families!NewRow(table[t].familyId, table[t].userId)
        /\ \A y \in Tokens \ {n, t} : table'[y] = table[y]
        /\ StoredTokens' = StoredTokens \cup {n}
    BY <1>2, CommittedRows
  <2> HIDE DEF t, n
  <2>2. /\ table'[n].familyId = table[t].familyId
        /\ table'[n].userId = table[t].userId
        /\ table'[n].replacedBy = None
    BY <2>1 DEF Families!NewRow
  <2>3. StoredTokens \subseteq Tokens \ {n}
    BY <2>1 DEF StoredTokens
  <2>4. \A y \in StoredTokens : /\ table'[y].familyId = table[y].familyId
                                /\ table'[y].userId = table[y].userId
    BY <2>1, <2>3
  <2>5. ASSUME NEW x \in Tokens, table'[x].replacedBy # None
        PROVE  /\ x \in StoredTokens'
               /\ table'[x].revoked
               /\ table'[x].replacedBy \in StoredTokens' \ {x}
               /\ table'[table'[x].replacedBy].familyId = table'[x].familyId
               /\ table'[table'[x].replacedBy].userId = table'[x].userId
    <3>1. x # n
      BY <2>2, <2>5
    <3>2. CASE x = t
      BY <2>1, <2>2, <3>1, <3>2
    <3>3. CASE x # t
      <4>1. table'[x] = table[x]
        BY <2>1, <3>1, <3>3
      <4>2. /\ x \in StoredTokens
            /\ table[x].revoked
            /\ table[x].replacedBy \in StoredTokens \ {x}
            /\ table[table[x].replacedBy].familyId = table[x].familyId
            /\ table[table[x].replacedBy].userId = table[x].userId
        BY <2>5, <4>1 DEF Links
      <4> QED
        BY <2>1, <2>4, <4>1, <4>2
    <3> QED
      BY <3>2, <3>3
  <2> QED
    BY <2>5 DEF Links
<1>3. ASSUME NEW r \in Requests, ApplySweep(r) \/ RevokeOnLogout(r) PROVE Links'
  <2>1. PICK S \in SUBSET StoredTokens : table' = Families!Revoked(S)
    BY <1>3, RevocationSteps
  <2>2. /\ StoredTokens' = StoredTokens
        /\ \A y \in Tokens : /\ table'[y].familyId = table[y].familyId
                             /\ table'[y].userId = table[y].userId
                             /\ table'[y].replacedBy = table[y].replacedBy
                             /\ table[y].revoked => table'[y].revoked
    BY <2>1, RevokedFields
  <2>3. StoredTokens \subseteq Tokens
    BY DEF StoredTokens
  <2> QED
    BY <2>2, <2>3 DEF Links
<1>4. CASE table' = table
  BY <1>4 DEF Links, StoredTokens, Stored, Families!Stored
<1> QED
  BY <1>1, <1>2, <1>3, <1>4, OtherStepsKeepTable

LEMMA InitLinks == Init => Links
  BY DEF Init, Links, Families!NoRow

\* What replaced_by leads to, for every number of overlapping requests.
THEOREM LinksCorrect == Spec => []LinksStayInFamily
  BY InitIndType, StepIndType, InitMintsAreApart, StepMintsAreApart, InitLinks, StepLinks,
     LinksSuffice, PTL DEF Spec

LEMMA StepChainsEnd == IndType /\ MintsAreApart /\ ChainsEnd /\ [Next]_vars => ChainsEnd'
<1> SUFFICES ASSUME IndType, MintsAreApart, ChainsEnd, [Next]_vars,
                    NEW S \in SUBSET StoredTokens', S # {}
             PROVE  \E y \in S : table'[y].replacedBy \notin S
  BY DEF ChainsEnd
<1>n. None \notin S
  BY NoneIsNoToken DEF StoredTokens
<1>o. ASSUME S \subseteq StoredTokens PROVE \E y \in S : table[y].replacedBy \notin S
  BY <1>o DEF ChainsEnd
<1>1. ASSUME NEW r \in Requests, InsertRow(r) PROVE \E y \in S : table'[y].replacedBy \notin S
  <2>1. PICK t \in Fresh : /\ table'[t] = Families!NewRow(t, account[r])
                           /\ \A y \in Tokens \ {t} : table'[y] = table[y]
                           /\ StoredTokens' = StoredTokens \cup {t}
    BY <1>1, InsertedRow
  <2>2. CASE t \in S
    BY <1>n, <2>1, <2>2 DEF Families!NewRow
  <2>3. CASE t \notin S
    <3>1. S \subseteq StoredTokens
      BY <2>1, <2>3
    <3> QED
      BY <1>o, <2>1, <2>3, <3>1 DEF StoredTokens
  <2> QED
    BY <2>2, <2>3
<1>2. ASSUME NEW r \in Requests, Commit(r) PROVE \E y \in S : table'[y].replacedBy \notin S
  <2> DEFINE t == presented[r]
             n == minted[r]
  <2>1. /\ table'[t].replacedBy = n
        /\ table'[n] = Families!NewRow(table[t].familyId, table[t].userId)
        /\ \A y \in Tokens \ {n, t} : table'[y] = table[y]
        /\ StoredTokens' = StoredTokens \cup {n}
    BY <1>2, CommittedRows
  <2> HIDE DEF t, n
  <2>2. CASE n \in S
    BY <1>n, <2>1, <2>2 DEF Families!NewRow
  <2>3. CASE n \notin S
    <3>1. S \subseteq StoredTokens
      BY <2>1, <2>3
    <3>2. PICK y \in S : table[y].replacedBy \notin S
      BY <1>o, <3>1
    <3>3. y \in Tokens \ {n}
      BY <2>3, <3>1 DEF StoredTokens
    <3>4. table'[y].replacedBy \in {table[y].replacedBy, n}
      BY <2>1, <3>3
    <3> QED
      BY <2>3, <3>2, <3>4
  <2> QED
    BY <2>2, <2>3
<1>3. ASSUME NEW r \in Requests, ApplySweep(r) \/ RevokeOnLogout(r)
      PROVE  \E y \in S : table'[y].replacedBy \notin S
  <2>1. PICK R \in SUBSET StoredTokens : table' = Families!Revoked(R)
    BY <1>3, RevocationSteps
  <2>2. /\ StoredTokens' = StoredTokens
        /\ \A y \in Tokens : table'[y].replacedBy = table[y].replacedBy
    BY <2>1, RevokedFields
  <2> QED
    BY <1>o, <2>2 DEF StoredTokens
<1>4. CASE table' = table
  BY <1>4, <1>o DEF StoredTokens, Stored, Families!Stored
<1> QED
  BY <1>1, <1>2, <1>3, <1>4, OtherStepsKeepTable

\* No number of overlapping rotations closes a cycle of replaced_by.
THEOREM ChainsCorrect == Spec => []ChainsEnd
<1>1. Init => ChainsEnd
  BY DEF Init, ChainsEnd, StoredTokens, Stored, Families!Stored, Families!NoRow
<1> QED
  BY <1>1, InitIndType, StepIndType, InitMintsAreApart, StepMintsAreApart, StepChainsEnd,
     PTL DEF Spec

-----------------------------------------------------------------------------
(***************************************************************************)
(* Refinement: every step is an operation of TokenFamilies, or a stutter.  *)
(***************************************************************************)

\* Rows are never lost, moved to another family or user, or un-revoked.
LEMMA RowsPersist ==
  ASSUME IndType, MintsAreApart, [Next]_vars
  PROVE  /\ StoredTokens \subseteq StoredTokens'
         /\ \A x \in StoredTokens : /\ table'[x].familyId = table[x].familyId
                                    /\ table'[x].userId = table[x].userId
                                    /\ table[x].revoked => table'[x].revoked
<1>1. ASSUME NEW r \in Requests, InsertRow(r)
      PROVE  /\ StoredTokens \subseteq StoredTokens'
             /\ \A x \in StoredTokens : table'[x] = table[x]
  <2>1. PICK t \in Fresh : /\ \A y \in Tokens \ {t} : table'[y] = table[y]
                           /\ StoredTokens' = StoredTokens \cup {t}
    BY <1>1, InsertedRow
  <2> QED
    BY <2>1 DEF Fresh, StoredTokens
<1>2. ASSUME NEW r \in Requests, Commit(r)
      PROVE  /\ StoredTokens \subseteq StoredTokens'
             /\ \A x \in StoredTokens : /\ table'[x].familyId = table[x].familyId
                                        /\ table'[x].userId = table[x].userId
                                        /\ table[x].revoked => table'[x].revoked
  <2> DEFINE t == presented[r]
             n == minted[r]
  <2>1. /\ n \in Tokens \ StoredTokens
        /\ table'[t].familyId = table[t].familyId
        /\ table'[t].userId = table[t].userId
        /\ table'[t].revoked
        /\ \A y \in Tokens \ {n, t} : table'[y] = table[y]
        /\ StoredTokens' = StoredTokens \cup {n}
    BY <1>2, CommittedRows
  <2> HIDE DEF t, n
  <2>2. StoredTokens \subseteq Tokens \ {n}
    BY <2>1 DEF StoredTokens
  <2> QED
    BY <2>1, <2>2
<1>3. ASSUME NEW r \in Requests, ApplySweep(r) \/ RevokeOnLogout(r)
      PROVE  /\ StoredTokens \subseteq StoredTokens'
             /\ \A x \in StoredTokens : /\ table'[x].familyId = table[x].familyId
                                        /\ table'[x].userId = table[x].userId
                                        /\ table[x].revoked => table'[x].revoked
  <2>1. PICK S \in SUBSET StoredTokens : table' = Families!Revoked(S)
    BY <1>3, RevocationSteps
  <2> QED
    BY <2>1, RevokedFields DEF StoredTokens
<1>4. CASE table' = table
  BY <1>4 DEF StoredTokens, Stored, Families!Stored
<1> QED
  BY <1>1, <1>2, <1>3, <1>4, OtherStepsKeepTable

Acts(r) == Arrive(r) \/ Progress(r) \/ Abort(r) \/ Fail(r)

\* A step is a step of one request, and leaves the others where they are.
LEMMA OthersWait ==
  ASSUME IndType, [Next]_vars, NEW q \in Requests, ~Acts(q)
  PROVE  /\ pc'[q] = pc[q]
         /\ presented'[q] = presented[q]
         /\ minted'[q] = minted[q]
         /\ snapshot'[q] = snapshot[q]
<1> DEFINE Waits == /\ pc'[q] = pc[q]
                    /\ presented'[q] = presented[q]
                    /\ minted'[q] = minted[q]
                    /\ snapshot'[q] = snapshot[q]
<1>t. /\ pc \in [Requests -> {"idle"} \cup InFlight \cup Final]
      /\ presented \in [Requests -> Tokens \cup {None}]
      /\ minted \in [Requests -> Tokens \cup {None}]
      /\ snapshot \in [Requests -> SUBSET Tokens]
  BY DEF IndType, TypeOK
<1>1. ASSUME NEW r \in Requests, Arrive(r) PROVE Waits
  <2>1. r # q
    BY <1>1 DEF Acts
  <2> QED
    BY <1>t, <1>1, <2>1 DEF Arrive, LoginAccepted, LoginRejected, Refresh, Logout, Goto, locals
<1>2. ASSUME NEW r \in Requests, Progress(r) PROVE Waits
  <2>1. r # q
    BY <1>2 DEF Acts
  <2> QED
    BY <1>t, <1>2, <2>1 DEF Progress, InsertRow, RevokePresented, MintSuccessor, FindUser, Commit,
       StartSweep, ApplySweep, RevokeOnLogout, Goto, locals
<1>3. ASSUME NEW r \in Requests, Abort(r) \/ Fail(r) PROVE Waits
  <2>1. r # q
    BY <1>3 DEF Acts
  <2> QED
    BY <1>t, <1>3, <2>1 DEF Abort, Fail, Goto
<1>4. CASE UNCHANGED <<pc, locals>>
  BY <1>4 DEF locals
<1> QED
  BY <1>1, <1>2, <1>3, <1>4 DEF Next, Expire, DeleteUser, Finished, vars, locals

\* A family UPDATE has found rows of the family of the replayed token only.
SweepsStayInFamily ==
  \A r \in Requests : pc[r] = "apply" =>
    \A t \in snapshot[r] : FamilyOf(t) = FamilyOf(presented[r])

LEMMA StepSweepsStayInFamily ==
  IndType /\ MintsAreApart /\ SweepsStayInFamily /\ [Next]_vars => SweepsStayInFamily'
<1> SUFFICES ASSUME IndType, MintsAreApart, SweepsStayInFamily, [Next]_vars,
                    NEW q \in Requests, pc'[q] = "apply", NEW t \in snapshot'[q]
             PROVE  table'[t].familyId = table'[presented'[q]].familyId
  BY DEF SweepsStayInFamily, FamilyOf
<1>t. pc \in [Requests -> {"idle"} \cup InFlight \cup Final] /\ snapshot \in [Requests -> SUBSET Tokens]
  BY DEF IndType, TypeOK
<1>1. CASE pc[q] = "apply" /\ snapshot'[q] = snapshot[q] /\ presented'[q] = presented[q]
  <2>1. t \in StoredTokens /\ presented[q] \in StoredTokens
    BY <1>1 DEF IndType, SnapshotsAreStored, PresentedRowsAreStored
  <2>2. table[t].familyId = table[presented[q]].familyId
    BY <1>1 DEF SweepsStayInFamily, FamilyOf
  <2> QED
    BY <1>1, <2>1, <2>2, RowsPersist
<1>2. CASE StartSweep(q)
  <2>1. /\ table' = table /\ presented' = presented
        /\ snapshot' = [snapshot EXCEPT ![q] = ActiveRows(FamilyOf(presented[q]))]
    BY <1>2 DEF StartSweep
  <2> QED
    BY <2>1, <1>t DEF ActiveRows, Families!ActiveRows, FamilyOf
<1>3. ASSUME Acts(q) PROVE StartSweep(q)
  <2>1. ASSUME Arrive(q) PROVE FALSE
    BY <2>1, <1>t DEF Arrive, LoginAccepted, LoginRejected, Refresh, Logout, Goto
  <2>2. ASSUME Progress(q) PROVE StartSweep(q)
    BY <2>2, <1>t DEF Progress, InsertRow, RevokePresented, MintSuccessor, FindUser, Commit,
       ApplySweep, RevokeOnLogout, Goto
  <2>3. ASSUME Abort(q) \/ Fail(q) PROVE FALSE
    BY <2>3, <1>t DEF Abort, Fail, Goto
  <2> QED
    BY <1>3, <2>1, <2>2, <2>3 DEF Acts
<1> QED
  BY <1>1, <1>2, <1>3, OthersWait

LEMMA StepRefinesTokenFamilies ==
  ASSUME IndType, MintsAreApart, SweepsStayInFamily, [Next]_vars
  PROVE  [Families!Next]_table
<1>1. ASSUME NEW r \in Requests, InsertRow(r) PROVE Families!Next
  <2>1. PICK t \in Fresh : table' = [table EXCEPT ![t] = Families!NewRow(t, account[r])]
    BY <1>1, InsertedRow
  <2>2. t \in Tokens /\ ~Families!Stored(t) /\ account[r] \in Users
    BY <1>1 DEF Fresh, Stored, InsertRow, IndType, AccountsAreUsers
  <2>3. Families!OpenFamily(t, account[r])
    BY <2>1, <2>2 DEF Families!OpenFamily
  <2> QED
    BY <2>2, <2>3 DEF Families!Next
<1>2. ASSUME NEW r \in Requests, Commit(r) PROVE Families!Next
  <2>1. presented[r] \in StoredTokens /\ minted[r] \in Tokens \ StoredTokens
    BY <1>2, CommittedRows
  <2>2. table' = Families!Rotated(presented[r], minted[r])
    BY <1>2 DEF Commit, Families!Rotated
  <2>3. Families!Rotate(presented[r], minted[r])
    BY <2>1, <2>2 DEF Families!Rotate, StoredTokens, Stored
  <2> QED
    BY <2>1, <2>3 DEF Families!Next, StoredTokens
<1>3. ASSUME NEW r \in Requests, ApplySweep(r) \/ RevokeOnLogout(r) PROVE Families!Next
  <2>1. PICK S \in SUBSET StoredTokens : /\ table' = Families!Revoked(S)
                                         /\ ApplySweep(r) => S = snapshot[r]
                                         /\ RevokeOnLogout(r) => S = {presented[r]}
    BY <1>3, RevocationSteps
  <2>2. pc[r] \in {"apply", "revoke"}
    BY <1>3 DEF ApplySweep, RevokeOnLogout
  <2>3. presented[r] \in StoredTokens
    BY <2>2 DEF IndType, PresentedRowsAreStored
  <2>4. FamilyOf(presented[r]) \in Tokens
    BY <2>3, NoneIsNoToken
       DEF IndType, RowsAreComplete, StoredTokens, Stored, Families!Stored, FamilyOf,
           Families!NoRow
  <2>5. \A t \in S : Families!Stored(t) /\ table[t].familyId = FamilyOf(presented[r])
    BY <1>3, <2>1 DEF SweepsStayInFamily, StoredTokens, Stored, ApplySweep, FamilyOf
  <2>6. Families!RevokeIn(FamilyOf(presented[r]), S)
    BY <2>1, <2>5 DEF Families!RevokeIn
  <2>7. S \in SUBSET Tokens
    BY DEF StoredTokens
  <2> QED
    BY <2>4, <2>6, <2>7 DEF Families!Next
<1> QED
  BY <1>1, <1>2, <1>3, OtherStepsKeepTable

\* The interleaved handlers implement the atomic operations of TokenFamilies.
THEOREM RefinesTokenFamilies == Spec => ImplementsTokenFamilies
<1>1. Init => Families!Init /\ SweepsStayInFamily
  BY DEF Init, Families!Init, SweepsStayInFamily
<1> QED
  BY <1>1, InitIndType, StepIndType, InitMintsAreApart, StepMintsAreApart,
     StepSweepsStayInFamily, StepRefinesTokenFamilies, PTL
     DEF Spec, ImplementsTokenFamilies, Families!Spec

-----------------------------------------------------------------------------
(***************************************************************************)
(* The work of a request is bounded.  Each of its steps takes it forward,  *)
(* the repetition of an aborted transaction included, and no step of       *)
(* another request takes it back: what fairness adds is only that the      *)
(* steps are taken.                                                        *)
(***************************************************************************)
\* The statements a handler still has to run, from each label.
Statements == [insert |-> 1, revoke |-> 1, sweep |-> 2, apply |-> 1,
               rotate |-> 4, mint |-> 3, user |-> 2, commit |-> 1]

\* Statements left, with those of the attempts that may follow this one.
Work(r) ==
  IF pc[r] \in Rotating THEN Statements[pc[r]] + 4 * (MaxAttempts - attempt[r])
  ELSE IF pc[r] \in InFlight THEN Statements[pc[r]]
  ELSE 0

\* Another request, the clock or the removal of an account is at work.
Rests(r) == /\ pc'[r] = pc[r]
            /\ presented'[r] = presented[r]
            /\ minted'[r] = minted[r]
            /\ snapshot'[r] = snapshot[r]
            /\ attempt'[r] = attempt[r]

\* A refresh has begun its first attempt, and no more than MaxAttempts.
AttemptsCount == \A r \in Requests : pc[r] \in Rotating => attempt[r] >= 1

WorkFits == \A r \in Requests : Work(r) \in 0 .. 4 * MaxAttempts
WorkOnlyShrinks ==
  [][\A r \in Requests : pc[r] # "idle" => Work(r)' < Work(r) \/ Rests(r)]_vars

\* Two transactions never hold the lock of one row.
LocksAreExclusive ==
  \A r, q \in Requests :
    r # q /\ pc[r] \in InTransaction /\ pc[q] \in InTransaction => presented[r] # presented[q]

LEMMA StatementsAre ==
  /\ Statements["insert"] = 1 /\ Statements["revoke"] = 1
  /\ Statements["sweep"] = 2 /\ Statements["apply"] = 1
  /\ Statements["rotate"] = 4 /\ Statements["mint"] = 3
  /\ Statements["user"] = 2 /\ Statements["commit"] = 1
BY DEF Statements

\* The work that each label stands for.
LEMMA WorkIs ==
  ASSUME NEW r \in Requests
  PROVE  LET left == 4 * (MaxAttempts - attempt[r]) IN
         /\ pc[r] = "insert" => Work(r) = 1
         /\ pc[r] = "revoke" => Work(r) = 1
         /\ pc[r] = "sweep" => Work(r) = 2
         /\ pc[r] = "apply" => Work(r) = 1
         /\ pc[r] = "rotate" => Work(r) = 4 + left
         /\ pc[r] = "mint" => Work(r) = 3 + left
         /\ pc[r] = "user" => Work(r) = 2 + left
         /\ pc[r] = "commit" => Work(r) = 1 + left
         /\ pc[r] \in Final \cup {"idle"} => Work(r) = 0
BY StatementsAre DEF Work, Rotating, InTransaction, InFlight, Final

\* ... and after a step.
LEMMA NextWorkIs ==
  ASSUME NEW r \in Requests
  PROVE  LET left == 4 * (MaxAttempts - attempt'[r]) IN
         /\ pc'[r] = "apply" => Work(r)' = 1
         /\ pc'[r] = "rotate" => Work(r)' = 4 + left
         /\ pc'[r] = "mint" => Work(r)' = 3 + left
         /\ pc'[r] = "user" => Work(r)' = 2 + left
         /\ pc'[r] = "commit" => Work(r)' = 1 + left
         /\ pc'[r] \in Final => Work(r)' = 0
BY StatementsAre DEF Work, Rotating, InTransaction, InFlight, Final

LEMMA CountsFit == ASSUME IndType, AttemptsCount PROVE WorkFits
<1> SUFFICES ASSUME NEW r \in Requests PROVE Work(r) \in 0 .. 4 * MaxAttempts
  BY DEF WorkFits
<1>1. /\ MaxAttempts \in Nat /\ MaxAttempts >= 1 /\ attempt[r] \in 0 .. MaxAttempts
      /\ pc[r] \in {"idle"} \cup InFlight \cup Final
      /\ pc[r] \in {"rotate", "mint", "user", "commit"} => attempt[r] >= 1
  BY SomeAttempts DEF IndType, TypeOK, AttemptsCount, Rotating, InTransaction
<1>2. 4 * MaxAttempts >= 4 + 4 * (MaxAttempts - 1) /\ 4 * (MaxAttempts - attempt[r]) \in Nat
  BY <1>1
<1>3. attempt[r] >= 1 => 4 * (MaxAttempts - attempt[r]) <= 4 * MaxAttempts - 4
  BY <1>1
<1> QED
  BY <1>1, <1>2, <1>3, WorkIs DEF InFlight, Rotating, InTransaction

LEMMA AttemptsAtFirst == Init => AttemptsCount /\ LocksAreExclusive
BY DEF Init, AttemptsCount, LocksAreExclusive, Rotating, InTransaction

\* Where a step takes its request.
GoesOn(r) ==
  \/ pc[r] \in InFlight /\ pc'[r] \in Final
  \/ pc[r] = "sweep" /\ pc'[r] = "apply"
  \/ pc[r] = "rotate" /\ pc'[r] = "mint" /\ attempt'[r] = attempt[r]
  \/ pc[r] = "mint" /\ pc'[r] = "user" /\ attempt'[r] = attempt[r]
  \/ pc[r] = "user" /\ pc'[r] = "commit" /\ attempt'[r] = attempt[r]
  \/ /\ pc[r] \in Rotating /\ pc'[r] = "rotate"
     /\ attempt[r] < MaxAttempts /\ attempt'[r] = attempt[r] + 1

LEMMA ActsGoOn ==
  ASSUME IndType, NEW r \in Requests, Acts(r), pc[r] # "idle"
  PROVE  GoesOn(r)
<1>1. /\ pc \in [Requests -> {"idle"} \cup InFlight \cup Final]
      /\ attempt \in [Requests -> 0 .. MaxAttempts]
  BY DEF IndType, TypeOK
<1>2. CASE Arrive(r)
  BY <1>2 DEF Arrive, LoginAccepted, LoginRejected, Refresh, Logout, CanStart
<1>3. CASE InsertRow(r) \/ Commit(r) \/ ApplySweep(r) \/ RevokeOnLogout(r) \/ Fail(r)
  <2>1. pc[r] \in InFlight
    BY <1>3
       DEF InsertRow, Commit, ApplySweep, RevokeOnLogout, Fail, InFlight, Rotating, InTransaction
  <2>2. pc'[r] \in Final
    BY <1>1, <1>3 DEF InsertRow, Commit, ApplySweep, RevokeOnLogout, Fail, Goto, Final
  <2> QED
    BY <2>1, <2>2 DEF GoesOn
<1>4. CASE StartSweep(r) \/ RevokePresented(r) \/ MintSuccessor(r)
  BY <1>1, <1>4 DEF StartSweep, RevokePresented, MintSuccessor, Goto, locals, GoesOn
<1>5. CASE FindUser(r)
  BY <1>1, <1>5 DEF FindUser, Goto, GoesOn, Final, InFlight, Rotating, InTransaction
<1>6. CASE Abort(r)
  BY <1>1, <1>6 DEF Abort, Goto, GoesOn, Final, InFlight
<1> QED
  BY <1>2, <1>3, <1>4, <1>5, <1>6 DEF Acts, Progress

LEMMA GoingOnIsWork ==
  ASSUME IndType, IndType', NEW r \in Requests, GoesOn(r)
  PROVE  Work(r)' < Work(r)
<1>1. /\ MaxAttempts \in Nat /\ attempt[r] \in 0 .. MaxAttempts /\ attempt'[r] \in 0 .. MaxAttempts
  BY SomeAttempts DEF IndType, TypeOK
<1>2. CASE pc[r] \in InFlight /\ pc'[r] \in Final
  BY <1>1, <1>2, WorkIs, NextWorkIs DEF InFlight, Rotating, InTransaction
<1>3. CASE \/ pc[r] = "sweep" /\ pc'[r] = "apply"
           \/ pc[r] = "rotate" /\ pc'[r] = "mint" /\ attempt'[r] = attempt[r]
           \/ pc[r] = "mint" /\ pc'[r] = "user" /\ attempt'[r] = attempt[r]
           \/ pc[r] = "user" /\ pc'[r] = "commit" /\ attempt'[r] = attempt[r]
  BY <1>1, <1>3, WorkIs, NextWorkIs
<1>4. CASE /\ pc[r] \in Rotating /\ pc'[r] = "rotate"
           /\ attempt[r] < MaxAttempts /\ attempt'[r] = attempt[r] + 1
  BY <1>1, <1>4, WorkIs, NextWorkIs DEF Rotating, InTransaction
<1> QED
  BY <1>2, <1>3, <1>4 DEF GoesOn

LEMMA OthersRest ==
  ASSUME IndType, NEW r \in Requests, Acts(r), NEW q \in Requests, q # r
  PROVE  Rests(q)
<1>1. /\ pc \in [Requests -> {"idle"} \cup InFlight \cup Final]
      /\ attempt \in [Requests -> 0 .. MaxAttempts]
      /\ presented \in [Requests -> Tokens \cup {None}]
      /\ minted \in [Requests -> Tokens \cup {None}]
      /\ snapshot \in [Requests -> SUBSET Tokens]
  BY DEF IndType, TypeOK
<1>2. CASE Arrive(r)
  BY <1>1, <1>2 DEF Arrive, LoginAccepted, LoginRejected, Refresh, Logout, Goto, locals, Rests
<1>3. CASE Progress(r)
  BY <1>1, <1>3
     DEF Progress, InsertRow, RevokePresented, MintSuccessor, FindUser, Commit, StartSweep,
         ApplySweep, RevokeOnLogout, Goto, locals, Rests
<1>4. CASE Abort(r) \/ Fail(r)
  BY <1>1, <1>4 DEF Abort, Fail, Goto, Rests
<1> QED
  BY <1>2, <1>3, <1>4 DEF Acts

\* Who takes a lock found it free, and its first attempt was counted.
LEMMA ActsKeepLocks ==
  ASSUME IndType, AttemptsCount, NEW r \in Requests, Acts(r)
  PROVE  /\ pc'[r] \in Rotating => attempt'[r] >= 1
         /\ pc'[r] \in InTransaction =>
              /\ presented'[r] = presented[r]
              /\ pc[r] \in InTransaction \/ ~Locked(presented[r])
<1>1. /\ pc \in [Requests -> {"idle"} \cup InFlight \cup Final]
      /\ attempt \in [Requests -> 0 .. MaxAttempts]
      /\ pc[r] \in Rotating => attempt[r] >= 1
  BY DEF IndType, TypeOK, AttemptsCount
<1>2. CASE Arrive(r)
  BY <1>1, <1>2, SomeAttempts
     DEF Arrive, LoginAccepted, LoginRejected, Refresh, Logout, Goto, Rotating, InTransaction
<1>3. CASE \/ InsertRow(r) \/ Commit(r) \/ ApplySweep(r)
           \/ RevokeOnLogout(r) \/ Fail(r) \/ StartSweep(r)
  BY <1>1, <1>3
     DEF InsertRow, Commit, ApplySweep, RevokeOnLogout, Fail, StartSweep, Goto, Rotating,
         InTransaction
<1>4. CASE RevokePresented(r) \/ MintSuccessor(r) \/ FindUser(r)
  BY <1>1, <1>4
     DEF RevokePresented, MintSuccessor, FindUser, Goto, locals, Rotating, InTransaction
<1>5. CASE Abort(r)
  BY <1>1, <1>5 DEF Abort, Goto, Rotating, InTransaction
<1> QED
  BY <1>2, <1>3, <1>4, <1>5 DEF Acts, Progress

LEMMA StepWorks ==
  ASSUME IndType, AttemptsCount, LocksAreExclusive, [Next]_vars
  PROVE  /\ AttemptsCount' /\ LocksAreExclusive'
         /\ \A r \in Requests : pc[r] # "idle" => Work(r)' < Work(r) \/ Rests(r)
<1>1. ASSUME NEW r \in Requests, Acts(r)
      PROVE  /\ AttemptsCount' /\ LocksAreExclusive'
             /\ \A q \in Requests : pc[q] # "idle" => Work(q)' < Work(q) \/ Rests(q)
  <2>1. \A q \in Requests : q # r => Rests(q)
    BY <1>1, OthersRest
  <2>2. AttemptsCount'
    BY <1>1, <2>1, ActsKeepLocks DEF AttemptsCount, Rests
  <2>3. LocksAreExclusive'
    BY <1>1, <2>1, ActsKeepLocks DEF LocksAreExclusive, Locked, Rests
  <2>4. pc[r] # "idle" => Work(r)' < Work(r)
    BY <1>1, StepIndType, ActsGoOn, GoingOnIsWork
  <2> QED
    BY <2>1, <2>2, <2>3, <2>4
<1>2. CASE UNCHANGED <<pc, locals>>
  BY <1>2 DEF locals, AttemptsCount, LocksAreExclusive, Rests
<1> QED
  BY <1>1, <1>2 DEF Next, Acts, Expire, DeleteUser, Finished, vars, locals

\* A request in flight never owes more than four statements per attempt, and
\* never takes one back: it can be kept waiting, never kept busy.  Once it is
\* answered nothing changes it.
THEOREM WorkIsBounded == Spec => []WorkFits /\ WorkOnlyShrinks
  BY InitIndType, StepIndType, AttemptsAtFirst, StepWorks, CountsFit, PTL
     DEF Spec, WorkOnlyShrinks

\* Two transactions never hold the lock of one row, whatever aborts or fails:
\* who waits for a row waits for one transaction, and that one for nothing.
THEOREM LocksCorrect == Spec => []LocksAreExclusive
  BY InitIndType, StepIndType, AttemptsAtFirst, StepWorks, PTL DEF Spec
=============================================================================
