--------------------------- MODULE BrowserProofs ---------------------------
(***************************************************************************)
(* Proofs about BrowserSession, for any numbers of requests, tokens and    *)
(* accounts, and of requests the server works on at a time, when the       *)
(* browser awaits one answer before it sends the next request.             *)
(***************************************************************************)
EXTENDS BrowserSession, RefreshAnswersProofs

\* A family is named by a row; a rotation stays in it; a request that has not
\* begun presents nothing.
FamiliesAreRows == \A t \in StoredTokens : table[t].familyId \in StoredTokens
SuccessorsStay == \A r \in Requests : pc[r] = "rotated" => FamilyOf(minted[r]) = FamilyOf(presented[r])
IdleIsBlank == \A r \in Requests : pc[r] = "idle" => presented[r] = None

ServerInv ==
  /\ IndType /\ MintsAreApart /\ Answers
  /\ FamiliesAreRows /\ SuccessorsStay /\ IdleIsBlank

\* At most one answer is awaited, and arrived ones are answers.
OneOpen ==
  /\ IsFiniteSet(Open) /\ \A q, r \in Open : q = r
  /\ arrived \subseteq {r \in Requests : pc[r] \in Final}
  /\ lost \subseteq Requests

\* The tokens the browser holds: its cookie, and what the open request carries.
Holds(t) == t # None /\ (t = jar \/ \E r \in Open : presented[r] = t)

\* t is the only token of its family that the browser has and that is valid.
IsTheLast(t) == \A s \in Received : Families!Active(s) /\ FamilyOf(s) = FamilyOf(t) => s = t

\* The browser has not logged out of the family of t.
NotLeft(t) == \A r \in arrived : pc[r] = "loggedOut" => FamilyOf(t) # FamilyOf(presented[r])

CookieInv ==
  /\ \A t : Holds(t) => t \in Received /\ IsTheLast(t) /\ NotLeft(t)
  /\ \A r \in Open : pc[r] = "issued" =>
       /\ \A t \in Received : FamilyOf(t) # FamilyOf(minted[r])
       /\ NotLeft(minted[r])
  /\ \A t \in Received : Families!Active(t) => NotLeft(t)

\* Without a mishap, the cookie is valid but for the time between a rotation or
\* a logout and the arrival of its answer.
Calm ==
  ~Mishap =>
    /\ \A r \in Requests : pc[r] \notin {"sweep", "apply", "reuse"}
    /\ jar # None /\ (\A r \in Open : pc[r] \notin {"rotated", "loggedOut"}) =>
         ~table[jar].revoked
    /\ \A r \in Open : pc[r] \in {"issued", "rotated"} => ~table[minted[r]].revoked

-----------------------------------------------------------------------------
(***************************************************************************)
(* What the server keeps.                                                  *)
(***************************************************************************)

\* An answer is final.
LEMMA FinalStays ==
  ASSUME IndType, [Next]_vars, NEW q \in Requests, pc[q] \in Final
  PROVE  pc'[q] = pc[q] /\ presented'[q] = presented[q] /\ minted'[q] = minted[q]
<1>1. ASSUME Arrive(q) PROVE FALSE
  BY <1>1 DEF Arrive, LoginAccepted, LoginRejected, Refresh, Logout, CanStart, Final
<1>2. ASSUME Progress(q) PROVE FALSE
  BY <1>2 DEF Progress, InsertRow, RevokePresented, MintSuccessor, FindUser, Commit,
     StartSweep, ApplySweep, RevokeOnLogout, Final
<1>3. ASSUME Abort(q) \/ Fail(q) PROVE FALSE
  BY <1>3 DEF Abort, Fail, InFlight, Rotating, InTransaction, Final
<1> QED
  BY <1>1, <1>2, <1>3, OthersWait DEF Acts

LEMMA CommittedFamily ==
  ASSUME IndType, MintsAreApart, NEW r \in Requests, Commit(r)
  PROVE  /\ presented[r] \in StoredTokens
         /\ StoredTokens' = StoredTokens \cup {minted[r]}
         /\ table'[presented[r]].familyId = table[presented[r]].familyId
         /\ table'[minted[r]].familyId = table[presented[r]].familyId
<1>1. /\ presented[r] \in StoredTokens
      /\ StoredTokens' = StoredTokens \cup {minted[r]}
      /\ table'[presented[r]].familyId = table[presented[r]].familyId
      /\ table'[minted[r]] = Families!NewRow(table[presented[r]].familyId,
                                             table[presented[r]].userId)
  BY CommittedRows
<1>2. \A f, u : Families!NewRow(f, u).familyId = f
  BY DEF Families!NewRow
<1> QED
  BY <1>1, <1>2

LEMMA StepFamilies ==
  ASSUME IndType, MintsAreApart, FamiliesAreRows, [Next]_vars
  PROVE  FamiliesAreRows'
<1> SUFFICES ASSUME NEW x \in StoredTokens' PROVE table'[x].familyId \in StoredTokens'
  BY DEF FamiliesAreRows
<1>1. CASE x \in StoredTokens
  BY <1>1, RowsPersist DEF FamiliesAreRows
<1>2. ASSUME x \notin StoredTokens, NEW r \in Requests, InsertRow(r)
      PROVE  table'[x].familyId \in StoredTokens'
  <2>1. PICK t \in Fresh : /\ table'[t] = Families!NewRow(t, account[r])
                           /\ StoredTokens' = StoredTokens \cup {t}
    BY <1>2, InsertedRow
  <2> QED
    BY <1>2, <2>1 DEF Families!NewRow
<1>3. ASSUME x \notin StoredTokens, NEW r \in Requests, Commit(r)
      PROVE  table'[x].familyId \in StoredTokens'
  <2>1. /\ presented[r] \in StoredTokens
        /\ StoredTokens' = StoredTokens \cup {minted[r]}
        /\ table'[minted[r]].familyId = table[presented[r]].familyId
    BY <1>3, CommittedFamily
  <2> QED
    BY <1>3, <2>1, RowsPersist DEF FamiliesAreRows
<1>4. ASSUME NEW r \in Requests, ApplySweep(r) \/ RevokeOnLogout(r)
      PROVE  StoredTokens' = StoredTokens
  BY <1>4, RevocationSteps, RevokedFields
<1>5. ASSUME table' = table PROVE StoredTokens' = StoredTokens
  BY <1>5 DEF StoredTokens, Stored, Families!Stored
<1> QED
  BY <1>1, <1>2, <1>3, <1>4, <1>5, OtherStepsKeepTable

\* Only a commit answers a refresh with a new token.
LEMMA ReachesRotated ==
  ASSUME IndType, [Next]_vars, NEW q \in Requests, pc'[q] = "rotated", pc[q] # "rotated"
  PROVE  Commit(q)
<1>t. pc \in [Requests -> {"idle"} \cup InFlight \cup Final]
  BY DEF IndType, TypeOK
<1>1. ASSUME Arrive(q) PROVE FALSE
  BY <1>1, <1>t DEF Arrive, LoginAccepted, LoginRejected, Refresh, Logout, Goto
<1>2. ASSUME Progress(q) PROVE Commit(q)
  BY <1>2, <1>t DEF Progress, InsertRow, RevokePresented, MintSuccessor, FindUser,
     StartSweep, ApplySweep, RevokeOnLogout, Goto
<1>3. ASSUME Abort(q) \/ Fail(q) PROVE FALSE
  BY <1>3, <1>t DEF Abort, Fail, Goto
<1> QED
  BY <1>1, <1>2, <1>3, OthersWait DEF Acts

LEMMA ReachesIssued ==
  ASSUME IndType, [Next]_vars, NEW q \in Requests, pc'[q] = "issued", pc[q] # "issued"
  PROVE  InsertRow(q)
<1>t. pc \in [Requests -> {"idle"} \cup InFlight \cup Final]
  BY DEF IndType, TypeOK
<1>1. ASSUME Arrive(q) PROVE FALSE
  BY <1>1, <1>t DEF Arrive, LoginAccepted, LoginRejected, Refresh, Logout, Goto
<1>2. ASSUME Progress(q) PROVE InsertRow(q)
  BY <1>2, <1>t DEF Progress, Commit, RevokePresented, MintSuccessor, FindUser,
     StartSweep, ApplySweep, RevokeOnLogout, Goto
<1>3. ASSUME Abort(q) \/ Fail(q) PROVE FALSE
  BY <1>3, <1>t DEF Abort, Fail, Goto
<1> QED
  BY <1>1, <1>2, <1>3, OthersWait DEF Acts

LEMMA StepSuccessors ==
  ASSUME IndType, MintsAreApart, Answers, SuccessorsStay, [Next]_vars
  PROVE  SuccessorsStay'
<1> SUFFICES ASSUME NEW q \in Requests, pc'[q] = "rotated"
             PROVE  table'[minted'[q]].familyId = table'[presented'[q]].familyId
  BY DEF SuccessorsStay, FamilyOf
<1>1. CASE pc[q] = "rotated"
  <2>1. presented'[q] = presented[q] /\ minted'[q] = minted[q]
    BY <1>1, FinalStays DEF Final
  <2>2. presented[q] \in StoredTokens /\ minted[q] \in StoredTokens
    BY <1>1 DEF Answers
  <2> QED
    BY <1>1, <2>1, <2>2, RowsPersist DEF SuccessorsStay, FamilyOf
<1>2. CASE Commit(q)
  <2>1. /\ table'[presented[q]].familyId = table[presented[q]].familyId
        /\ table'[minted[q]].familyId = table[presented[q]].familyId
    BY <1>2, CommittedFamily
  <2>2. presented' = presented /\ minted' = minted
    BY <1>2 DEF Commit, locals
  <2> QED
    BY <2>1, <2>2
<1> QED
  BY <1>1, <1>2, ReachesRotated

LEMMA StepBlank ==
  ASSUME IndType, IdleIsBlank, [Next]_vars
  PROVE  IdleIsBlank'
<1> SUFFICES ASSUME NEW q \in Requests, pc'[q] = "idle" PROVE presented'[q] = None
  BY DEF IdleIsBlank
<1>t. pc \in [Requests -> {"idle"} \cup InFlight \cup Final]
  BY DEF IndType, TypeOK
<1>1. ASSUME Arrive(q) PROVE FALSE
  BY <1>1, <1>t DEF Arrive, LoginAccepted, LoginRejected, Refresh, Logout, Goto
<1>2. ASSUME Progress(q) PROVE FALSE
  BY <1>2, <1>t DEF Progress, InsertRow, Commit, RevokePresented, MintSuccessor, FindUser,
     StartSweep, ApplySweep, RevokeOnLogout, Goto
<1>3. ASSUME Abort(q) \/ Fail(q) PROVE FALSE
  BY <1>3, <1>t DEF Abort, Fail, Goto
<1> QED
  BY <1>1, <1>2, <1>3, OthersWait DEF Acts, IdleIsBlank

LEMMA InitServer == Init => ServerInv
<1> SUFFICES ASSUME Init PROVE ServerInv
  OBVIOUS
<1>1. IndType /\ MintsAreApart
  BY InitIndType, InitMintsAreApart
<1>2. StoredTokens = {}
  BY DEF Init, StoredTokens, Stored, Families!Stored, Families!NoRow
<1> QED
  BY <1>1, <1>2
     DEF Init, ServerInv, Answers, FamiliesAreRows, SuccessorsStay, IdleIsBlank

LEMMA StepServer ==
  ASSUME ServerInv, [Next]_vars
  PROVE  ServerInv'
BY StepIndType, StepMintsAreApart, StepAnswers, StepFamilies, StepSuccessors, StepBlank
   DEF ServerInv

-----------------------------------------------------------------------------
(***************************************************************************)
(* The browser is one of the clients.                                      *)
(***************************************************************************)
LEMMA ReceivedAreDelivered ==
  ASSUME OneOpen, CookieInv
  PROVE  Received \subseteq Delivered /\ jar \in Presentable
<1>1. Received \subseteq Delivered
  BY DEF Received, Delivered, OneOpen
<1>2. jar \in Received \cup {None}
  BY DEF CookieInv, Holds
<1> QED
  BY <1>1, <1>2 DEF Presentable

LEMMA SessionIsNext ==
  ASSUME OneOpen, CookieInv, [SessionNext]_sessionVars
  PROVE  [Next]_vars
<1>1. ASSUME NEW r \in Requests, Send(r) PROVE Next
  BY <1>1, ReceivedAreDelivered DEF Send, Next, Arrive
<1>2. CASE ServerStep
  BY <1>2 DEF ServerStep, Next
<1>3. ASSUME NEW r \in Requests, Receive(r) \/ Lose(r) PROVE UNCHANGED vars
  BY <1>3 DEF Receive, Lose
<1>4. CASE DropCookie \/ SessionFinished \/ UNCHANGED sessionVars
  BY <1>4 DEF DropCookie, SessionFinished, sessionVars
<1> QED
  BY <1>1, <1>2, <1>3, <1>4 DEF SessionNext

-----------------------------------------------------------------------------
(***************************************************************************)
(* One answer at a time.                                                   *)
(***************************************************************************)
\* The server begins no request of its own.
LEMMA ServerBegins ==
  ASSUME IndType, ServerStep
  PROVE  /\ presented' = presented
         /\ \A q \in Requests : pc[q] = "idle" => pc'[q] = "idle"
<1>t. pc \in [Requests -> {"idle"} \cup InFlight \cup Final]
  BY DEF IndType, TypeOK
<1>1. ASSUME NEW r \in Requests, Progress(r)
      PROVE  presented' = presented /\ pc[r] # "idle" /\ pc' = [pc EXCEPT ![r] = pc'[r]]
  BY <1>1, <1>t DEF Progress, InsertRow, RevokePresented, MintSuccessor, FindUser, Commit,
     StartSweep, ApplySweep, RevokeOnLogout, Goto, locals
<1>2. ASSUME NEW r \in Requests, Abort(r) \/ Fail(r)
      PROVE  presented' = presented /\ pc[r] # "idle" /\ pc' = [pc EXCEPT ![r] = pc'[r]]
  BY <1>2, <1>t DEF Abort, Fail, Goto, InFlight, Rotating, InTransaction
<1>3. ASSUME NEW r \in Requests, pc[r] # "idle", pc' = [pc EXCEPT ![r] = pc'[r]]
      PROVE  \A q \in Requests : pc[q] = "idle" => pc'[q] = "idle"
  BY <1>3, <1>t
<1>4. ASSUME NEW t, Expire(t) \/ DeleteUser(t) PROVE presented' = presented /\ pc' = pc
  BY <1>4 DEF Expire, DeleteUser, locals
<1> QED
  BY <1>1, <1>2, <1>3, <1>4 DEF ServerStep

LEMMA SendsAlone ==
  ASSUME MaxOpen = 1, OneOpen, NEW r \in Requests, Send(r)
  PROVE  Open = {}
<1>1. IsFiniteSet(Open) /\ Cardinality(Open) < 1
  BY DEF OneOpen, Send
<1>2. Cardinality(Open) = 0
  BY <1>1, FS_CardinalityType
<1> QED
  BY <1>1, <1>2, FS_EmptySet

\* What a tab sends is the cookie, or nothing.
LEMMA WhatIsSent ==
  ASSUME IndType, NEW r \in Requests, Send(r)
  PROVE  /\ pc[r] = "idle"
         /\ table' = table /\ minted' = minted /\ UNCHANGED browserVars
         /\ \A q \in Requests \ {r} : pc'[q] = pc[q] /\ presented'[q] = presented[q]
         /\ presented'[r] \in {jar, presented[r]}
         /\ pc'[r] # "issued"
<1> DEFINE Sent == /\ pc[r] = "idle"
                   /\ table' = table /\ minted' = minted
                   /\ \A q \in Requests \ {r} : pc'[q] = pc[q] /\ presented'[q] = presented[q]
                   /\ presented'[r] \in {jar, presented[r]}
                   /\ pc'[r] # "issued"
<1>t. /\ pc \in [Requests -> {"idle"} \cup InFlight \cup Final]
      /\ presented \in [Requests -> Tokens \cup {None}]
  BY DEF IndType, TypeOK
<1>1. ASSUME NEW u, LoginAccepted(r, u) PROVE Sent
  BY <1>1, <1>t DEF LoginAccepted, CanStart, Goto
<1>p. ASSUME NEW l, pc' = [pc EXCEPT ![r] = l]
      PROVE  pc'[r] = l /\ \A q \in Requests \ {r} : pc'[q] = pc[q]
  BY <1>p, <1>t
<1>s. ASSUME presented' = [presented EXCEPT ![r] = jar]
      PROVE  presented'[r] = jar /\ \A q \in Requests \ {r} : presented'[q] = presented[q]
  BY <1>s, <1>t
<1>2. ASSUME LoginRejected(r) PROVE Sent
  <2>1. /\ pc[r] = "idle" /\ pc' = [pc EXCEPT ![r] = "unauthorized"]
        /\ table' = table /\ minted' = minted /\ presented' = presented
    BY <1>2 DEF LoginRejected, CanStart, Goto, locals
  <2> QED
    BY <2>1, <1>p
<1>3. ASSUME Refresh(r, jar) PROVE Sent
  <2>1. /\ pc[r] = "idle" /\ table' = table /\ minted' = minted
        /\ presented' = [presented EXCEPT ![r] = jar]
    BY <1>3 DEF Refresh, CanStart
  <2>2. PICK l \in {"unauthorized", "sweep", "rotate"} : pc' = [pc EXCEPT ![r] = l]
    BY <1>3 DEF Refresh, Goto
  <2> QED
    BY <2>1, <2>2, <1>p, <1>s
<1>4. ASSUME Logout(r, jar) PROVE Sent
  <2>1. /\ pc[r] = "idle" /\ table' = table /\ minted' = minted
        /\ presented' = [presented EXCEPT ![r] = jar]
    BY <1>4 DEF Logout, CanStart
  <2>2. PICK l \in {"unauthorized", "revoke"} : pc' = [pc EXCEPT ![r] = l]
    BY <1>4 DEF Logout, Goto
  <2> QED
    BY <2>1, <2>2, <1>p, <1>s
<1> QED
  BY <1>1, <1>2, <1>3, <1>4 DEF Send

LEMMA InitOneOpen == SessionInit => OneOpen
<1> SUFFICES ASSUME SessionInit PROVE OneOpen
  OBVIOUS
<1>1. Open = {}
  BY DEF SessionInit, Init, Open
<1> QED
  BY <1>1, FS_EmptySet DEF SessionInit, OneOpen

LEMMA StepOneOpen ==
  ASSUME MaxOpen = 1, IndType, OneOpen, CookieInv, [SessionNext]_sessionVars
  PROVE  OneOpen'
<1>n. [Next]_vars
  BY SessionIsNext
<1>1. /\ arrived' \subseteq {r \in Requests : pc'[r] \in Final}
      /\ lost' \subseteq Requests
  <2>1. \A r \in arrived : r \in Requests /\ pc'[r] \in Final
    BY <1>n, FinalStays DEF OneOpen
  <2>2. ASSUME NEW r \in Requests, Receive(r)
        PROVE  arrived' = arrived \cup {r} /\ pc'[r] \in Final /\ lost' = lost
    BY <2>2 DEF Receive, vars
  <2>3. ASSUME NEW r \in Requests, Lose(r) PROVE arrived' = arrived /\ lost' = lost \cup {r}
    BY <2>3 DEF Lose
  <2>4. CASE arrived' = arrived /\ lost' = lost
    BY <2>1, <2>4 DEF OneOpen
  <2> QED
    BY <2>1, <2>2, <2>3, <2>4
       DEF OneOpen, SessionNext, Send, DropCookie, ServerStep, SessionFinished, sessionVars,
           browserVars
<1>2. CASE Open' \subseteq Open
  BY <1>1, <1>2, FS_Subset DEF OneOpen
<1>3. ASSUME NEW r \in Requests, Send(r) PROVE OneOpen'
  <2>1. Open = {}
    BY <1>3, SendsAlone
  <2>2. \A q \in Requests \ {r} : pc'[q] = pc[q]
    BY <1>3, WhatIsSent
  <2>3. Open' \subseteq {r}
    BY <1>3, <2>1, <2>2 DEF Open, Send, browserVars
  <2>4. IsFiniteSet(Open')
    BY <2>3, FS_Singleton, FS_Subset
  <2> QED
    BY <1>1, <2>3, <2>4 DEF OneOpen
<1>4. ASSUME NEW r \in Requests, Receive(r) \/ Lose(r) PROVE Open' \subseteq Open
  BY <1>4 DEF Receive, Lose, Open, vars
<1>5. CASE ServerStep
  BY <1>2, <1>5, ServerBegins DEF ServerStep, browserVars, Open
<1>6. CASE DropCookie \/ SessionFinished \/ UNCHANGED sessionVars
  BY <1>2, <1>6 DEF DropCookie, SessionFinished, sessionVars, browserVars, vars, Open
<1> QED
  BY <1>2, <1>3, <1>4, <1>5, <1>6 DEF SessionNext

-----------------------------------------------------------------------------
(***************************************************************************)
(* The cookie.                                                             *)
(***************************************************************************)

\* The tokens of answers that have arrived are stored, and stay what they are.
LEMMA ReceivedStay ==
  ASSUME ServerInv, OneOpen, [Next]_vars
  PROVE  /\ Received \subseteq StoredTokens
         /\ \A r \in arrived : /\ pc'[r] = pc[r]
                               /\ presented'[r] = presented[r]
                               /\ minted'[r] = minted[r]
         /\ \A r \in arrived : pc[r] = "loggedOut" => presented[r] \in StoredTokens
         /\ arrived' = arrived => Received' = Received
<1>1. Received \subseteq StoredTokens
  BY DEF ServerInv, Answers, Received, OneOpen
<1>2. \A r \in arrived : /\ pc'[r] = pc[r]
                         /\ presented'[r] = presented[r]
                         /\ minted'[r] = minted[r]
  BY FinalStays DEF OneOpen, ServerInv
<1>3. \A r \in arrived : pc[r] = "loggedOut" => presented[r] \in StoredTokens
  BY DEF ServerInv, Answers, OneOpen
<1>4. arrived' = arrived => Received' = Received
  BY <1>2 DEF Received
<1> QED
  BY <1>1, <1>2, <1>3, <1>4

\* Valid rows were valid before.
LEMMA ValidBefore ==
  ASSUME IndType, MintsAreApart, [Next]_vars, NEW s \in StoredTokens, Families!Active(s)'
  PROVE  Families!Active(s)
BY RowsPersist DEF Families!Active, StoredTokens, Stored

LEMMA LeftStays ==
  ASSUME ServerInv, OneOpen, [Next]_vars, arrived' = arrived, NEW t \in StoredTokens, NotLeft(t)
  PROVE  NotLeft(t)'
<1>1. \A r \in arrived : /\ pc'[r] = pc[r] /\ presented'[r] = presented[r]
                         /\ pc[r] = "loggedOut" => presented[r] \in StoredTokens
  BY ReceivedStay
<1>2. \A x \in StoredTokens : table'[x].familyId = table[x].familyId
  BY RowsPersist DEF ServerInv
<1>3. ASSUME NEW r \in arrived, pc'[r] = "loggedOut"
      PROVE  table'[t].familyId # table'[presented'[r]].familyId
  <2>1. /\ pc[r] = "loggedOut" /\ presented'[r] = presented[r]
        /\ presented[r] \in StoredTokens
    BY <1>1, <1>3
  <2>2. table[t].familyId # table[presented[r]].familyId
    BY <2>1 DEF NotLeft, FamilyOf
  <2> QED
    BY <1>2, <2>1, <2>2
<1> QED
  BY <1>3 DEF NotLeft, FamilyOf

LEMMA LastStays ==
  ASSUME ServerInv, OneOpen, [Next]_vars, arrived' = arrived,
         NEW t \in Received, IsTheLast(t), NotLeft(t)
  PROVE  t \in Received' /\ IsTheLast(t)' /\ NotLeft(t)'
<1>1. /\ Received' = Received /\ Received \subseteq StoredTokens
      /\ \A r \in arrived : /\ pc'[r] = pc[r] /\ presented'[r] = presented[r]
                            /\ pc[r] = "loggedOut" => presented[r] \in StoredTokens
  BY ReceivedStay
<1>2. \A x \in StoredTokens : table'[x].familyId = table[x].familyId
  BY RowsPersist DEF ServerInv
<1>3. IsTheLast(t)'
  BY <1>1, <1>2, ValidBefore DEF IsTheLast, FamilyOf, ServerInv
<1>4. NotLeft(t)'
  BY <1>1, LeftStays
<1> QED
  BY <1>1, <1>3, <1>4

\* A new family is none that the browser knows.
LEMMA IssuedApart ==
  ASSUME ServerInv, OneOpen, [Next]_vars, arrived' = arrived, NEW r \in Requests, InsertRow(r)
  PROVE  /\ \A t \in Received' : FamilyOf(t)' # FamilyOf(minted[r])'
         /\ NotLeft(minted[r])'
<1>1. PICK f \in Fresh : /\ minted' = [minted EXCEPT ![r] = f]
                        /\ table'[f] = Families!NewRow(f, account[r])
                        /\ \A x \in Tokens \ {f} : table'[x] = table[x]
  BY InsertedRow DEF ServerInv
<1>2. minted'[r] = f
  BY <1>1 DEF ServerInv, IndType, TypeOK
<1>3. table'[f].familyId = f
  BY <1>1 DEF Families!NewRow
<1>4. f \notin StoredTokens
  BY DEF Fresh, StoredTokens, Stored
<1>5. ASSUME NEW x \in StoredTokens PROVE table'[x].familyId # f
  <2>1. table[x].familyId \in StoredTokens
    BY DEF ServerInv, FamiliesAreRows
  <2>2. table'[x].familyId = table[x].familyId
    BY RowsPersist DEF ServerInv
  <2> QED
    BY <2>1, <2>2, <1>4
<1>6. Received' = Received /\ Received \subseteq StoredTokens
  BY ReceivedStay
<1>7. \A t \in Received' : FamilyOf(t)' # FamilyOf(minted[r])'
  BY <1>2, <1>3, <1>5, <1>6 DEF FamilyOf
<1>8. \A q \in arrived : pc'[q] = "loggedOut" => table'[presented'[q]].familyId # f
  BY <1>5, ReceivedStay
<1>9. NotLeft(minted[r])'
  BY <1>2, <1>3, <1>8 DEF NotLeft, FamilyOf
<1> QED
  BY <1>7, <1>9

LEMMA ServerKeepsCookie ==
  ASSUME ServerInv, OneOpen, CookieInv, ServerStep, [Next]_vars
  PROVE  CookieInv'
<1>1. /\ arrived' = arrived /\ jar' = jar /\ lost' = lost /\ presented' = presented
      /\ Open' \subseteq Open
  BY ServerBegins DEF ServerStep, browserVars, Open, ServerInv
<1>2. ASSUME NEW t, Holds(t)' PROVE t \in Received' /\ IsTheLast(t)' /\ NotLeft(t)'
  <2>1. Holds(t)
    BY <1>1, <1>2 DEF Holds
  <2> QED
    BY <1>1, <2>1, LastStays DEF CookieInv
<1>3. ASSUME NEW r \in Open', pc'[r] = "issued"
      PROVE  /\ \A t \in Received' : FamilyOf(t)' # FamilyOf(minted[r])'
             /\ NotLeft(minted[r])'
  <2>0. r \in Requests
    BY DEF Open
  <2>1. CASE pc[r] = "issued"
    <3>1. minted'[r] = minted[r] /\ minted[r] \in StoredTokens
      BY <2>0, <2>1, FinalStays DEF Final, ServerInv, Answers
    <3>2. /\ \A t \in Received : FamilyOf(t) # FamilyOf(minted[r])
          /\ NotLeft(minted[r])
      BY <1>1, <2>1 DEF CookieInv
    <3>3. \A t \in Received' : FamilyOf(t)' # FamilyOf(minted[r])'
      BY <1>1, <3>1, <3>2, ReceivedStay, RowsPersist DEF FamilyOf, ServerInv
    <3>4. NotLeft(minted[r])'
      <4>1. PICK m \in StoredTokens : m = minted[r]
        BY <3>1
      <4>2. NotLeft(m)'
        BY <1>1, <3>2, <4>1, LeftStays DEF NotLeft, FamilyOf
      <4> QED
        BY <3>1, <4>1, <4>2 DEF NotLeft, FamilyOf
    <3> QED
      BY <3>3, <3>4
  <2>2. CASE pc[r] # "issued"
    BY <1>1, <1>3, <2>0, <2>2, ReachesIssued, IssuedApart DEF ServerInv
  <2> QED
    BY <2>1, <2>2
<1>4. ASSUME NEW t \in Received', Families!Active(t)' PROVE NotLeft(t)'
  <2>1. t \in Received /\ t \in StoredTokens
    BY <1>1, ReceivedStay
  <2>2. Families!Active(t)
    BY <1>4, <2>1, ValidBefore DEF ServerInv
  <2> QED
    BY <1>1, <2>1, <2>2, LeftStays DEF CookieInv
<1> QED
  BY <1>2, <1>3, <1>4 DEF CookieInv

LEMMA SendKeepsCookie ==
  ASSUME MaxOpen = 1, ServerInv, OneOpen, CookieInv, NEW r \in Requests, Send(r), [Next]_vars
  PROVE  CookieInv'
<1>1. Open = {}
  BY SendsAlone
<1>2. /\ pc[r] = "idle" /\ table' = table /\ minted' = minted /\ UNCHANGED browserVars
      /\ \A q \in Requests \ {r} : pc'[q] = pc[q] /\ presented'[q] = presented[q]
      /\ presented'[r] \in {jar, None}
      /\ pc'[r] # "issued"
  BY WhatIsSent DEF ServerInv, IdleIsBlank
<1>3. arrived' = arrived /\ jar' = jar
  BY <1>2 DEF browserVars
<1>4. Open' \subseteq {r}
  BY <1>1, <1>2 DEF Open, browserVars
<1>5. ASSUME NEW t, Holds(t)' PROVE t \in Received' /\ IsTheLast(t)' /\ NotLeft(t)'
  <2>1. Holds(t)
    BY <1>2, <1>3, <1>4, <1>5 DEF Holds
  <2> QED
    BY <1>3, <2>1, LastStays DEF CookieInv
<1>6. \A q \in Open' : pc'[q] # "issued"
  BY <1>2, <1>4
<1>7. ASSUME NEW t \in Received', Families!Active(t)' PROVE NotLeft(t)'
  <2>1. t \in Received /\ t \in StoredTokens
    BY <1>3, ReceivedStay
  <2>2. Families!Active(t)
    BY <1>7, <2>1, ValidBefore DEF ServerInv
  <2> QED
    BY <1>3, <2>1, <2>2, LeftStays DEF CookieInv
<1> QED
  BY <1>5, <1>6, <1>7 DEF CookieInv

\* Losing an answer or the cookie leaves less to be said.
LEMMA LosingKeepsCookie ==
  ASSUME ServerInv, OneOpen, CookieInv, UNCHANGED vars, arrived' = arrived,
         jar' \in {jar, None}, Open' \subseteq Open
  PROVE  CookieInv'
<1>1. /\ table' = table /\ pc' = pc /\ presented' = presented /\ minted' = minted
  BY DEF vars
<1>2. /\ Received' = Received
      /\ \A t : IsTheLast(t) => IsTheLast(t)'
      /\ \A t : NotLeft(t) => NotLeft(t)'
  BY <1>1 DEF Received, IsTheLast, NotLeft, FamilyOf, Families!Active, Families!Stored
<1>3. \A t : Holds(t)' => Holds(t)
  BY <1>1 DEF Holds
<1>4. \A r : NotLeft(minted[r]) => NotLeft(minted[r])'
  BY <1>1 DEF NotLeft, FamilyOf
<1>5. \A t : Families!Active(t)' => Families!Active(t)
  BY <1>1 DEF Families!Active, Families!Stored
<1>6. \A t : Holds(t)' => t \in Received' /\ IsTheLast(t)' /\ NotLeft(t)'
  BY <1>2, <1>3 DEF CookieInv
<1>7. \A r \in Open' : pc'[r] = "issued" =>
        /\ \A t \in Received' : FamilyOf(t)' # FamilyOf(minted[r])'
        /\ NotLeft(minted[r])'
  BY <1>1, <1>2, <1>4 DEF CookieInv, FamilyOf
<1>8. \A t \in Received' : Families!Active(t)' => NotLeft(t)'
  BY <1>2, <1>5 DEF CookieInv
<1> QED
  BY <1>6, <1>7, <1>8 DEF CookieInv

\* An answer that arrives: the cookie is the new token, the one before it has
\* been revoked, or there is none.
LEMMA ReceiveKeepsCookie ==
  ASSUME ServerInv, OneOpen, CookieInv, NEW r \in Requests, Receive(r)
  PROVE  CookieInv'
<1>1. /\ pc[r] \in Final /\ r \in Open /\ jar' = CookieAfter(r)
      /\ arrived' = arrived \cup {r} /\ lost' = lost
      /\ table' = table /\ pc' = pc /\ presented' = presented /\ minted' = minted
  BY DEF Receive, vars
<1>2. Open' = {}
  BY <1>1 DEF Open, OneOpen
<1>3. Received' = Received \cup (IF pc[r] \in {"issued", "rotated"} THEN {minted[r]} ELSE {})
  BY <1>1 DEF Received
<1>4. \A t : /\ (t # None /\ t = CookieAfter(r)) <=> Holds(t)'
             /\ FamilyOf(t)' = FamilyOf(t)
             /\ Families!Active(t)' <=> Families!Active(t)
  BY <1>1, <1>2 DEF Holds, FamilyOf, Families!Active, Families!Stored
<1>5. \A t : NotLeft(t)' <=> NotLeft(t) /\ (pc[r] = "loggedOut" => FamilyOf(t) # FamilyOf(presented[r]))
  BY <1>1 DEF NotLeft, FamilyOf
<1>6. \A t : IsTheLast(t)' <=>
         /\ IsTheLast(t)
         /\ pc[r] \in {"issued", "rotated"} /\ Families!Active(minted[r])
              /\ FamilyOf(minted[r]) = FamilyOf(t) => minted[r] = t
  BY <1>3, <1>4 DEF IsTheLast
<1>7. ASSUME pc[r] = "issued" PROVE CookieInv'
  <2>1. /\ \A t \in Received : FamilyOf(t) # FamilyOf(minted[r])
        /\ NotLeft(minted[r])
        /\ CookieAfter(r) = minted[r]
    BY <1>1, <1>7 DEF CookieInv, CookieAfter
  <2>2. IsTheLast(minted[r])
    BY <2>1 DEF IsTheLast
  <2>3. \A t : Holds(t)' => t \in Received' /\ IsTheLast(t)' /\ NotLeft(t)'
    BY <1>3, <1>4, <1>5, <1>6, <1>7, <2>1, <2>2
  <2>4. \A t \in Received' : Families!Active(t)' => NotLeft(t)'
    BY <1>3, <1>4, <1>5, <1>7, <2>1 DEF CookieInv
  <2> QED
    BY <1>2, <2>3, <2>4 DEF CookieInv
<1>8. ASSUME pc[r] = "rotated" PROVE CookieInv'
  <2>1. /\ presented[r] \in StoredTokens /\ table[presented[r]].revoked
        /\ FamilyOf(minted[r]) = FamilyOf(presented[r])
        /\ CookieAfter(r) = minted[r]
    BY <1>1, <1>8 DEF ServerInv, Answers, SuccessorsStay, CookieAfter
  <2>2. IsTheLast(presented[r]) /\ NotLeft(presented[r])
    BY <1>1, <2>1, NoneIsNoToken DEF CookieInv, Holds, StoredTokens
  <2>3. ~Families!Active(presented[r])
    BY <2>1 DEF Families!Active
  <2>4. IsTheLast(minted[r]) /\ NotLeft(minted[r])
    BY <2>1, <2>2, <2>3 DEF IsTheLast, NotLeft
  <2>5. \A t : Holds(t)' => t \in Received' /\ IsTheLast(t)' /\ NotLeft(t)'
    BY <1>3, <1>4, <1>5, <1>6, <1>8, <2>1, <2>4
  <2>6. \A t \in Received' : Families!Active(t)' => NotLeft(t)'
    BY <1>3, <1>4, <1>5, <1>8, <2>4 DEF CookieInv
  <2> QED
    BY <1>2, <2>5, <2>6 DEF CookieInv
<1>9. ASSUME pc[r] = "loggedOut" PROVE CookieInv'
  <2>1. /\ presented[r] \in StoredTokens /\ table[presented[r]].revoked
        /\ CookieAfter(r) = None
    BY <1>1, <1>9 DEF ServerInv, Answers, CookieAfter
  <2>2. IsTheLast(presented[r])
    BY <1>1, <2>1, NoneIsNoToken DEF CookieInv, Holds, StoredTokens
  <2>3. \A t \in Received : Families!Active(t) => FamilyOf(t) # FamilyOf(presented[r])
    BY <2>1, <2>2 DEF IsTheLast, Families!Active
  <2>4. \A t \in Received' : Families!Active(t)' => NotLeft(t)'
    BY <1>3, <1>4, <1>5, <1>9, <2>3 DEF CookieInv
  <2>5. \A t : ~Holds(t)'
    BY <1>4, <2>1
  <2> QED
    BY <1>2, <2>4, <2>5 DEF CookieInv
<1>10. ASSUME pc[r] \notin {"issued", "rotated", "loggedOut"} PROVE CookieInv'
  <2>1. CookieAfter(r) = jar
    BY <1>10 DEF CookieAfter
  <2>2. \A t : Holds(t)' => t \in Received' /\ IsTheLast(t)' /\ NotLeft(t)'
    BY <1>3, <1>4, <1>5, <1>6, <1>10, <2>1 DEF CookieInv, Holds
  <2>3. \A t \in Received' : Families!Active(t)' => NotLeft(t)'
    BY <1>3, <1>4, <1>5, <1>10 DEF CookieInv
  <2> QED
    BY <1>2, <2>2, <2>3 DEF CookieInv
<1> QED
  BY <1>7, <1>8, <1>9, <1>10

LEMMA StepCookie ==
  ASSUME MaxOpen = 1, ServerInv, OneOpen, CookieInv, [SessionNext]_sessionVars
  PROVE  CookieInv'
<1>n. [Next]_vars
  BY SessionIsNext
<1>1. ASSUME NEW r \in Requests, Send(r) PROVE CookieInv'
  BY <1>n, <1>1, SendKeepsCookie
<1>2. ASSUME NEW r \in Requests, Receive(r) PROVE CookieInv'
  BY <1>2, ReceiveKeepsCookie
<1>3. ASSUME NEW r \in Requests, Lose(r) PROVE CookieInv'
  <2>1. UNCHANGED vars /\ arrived' = arrived /\ jar' = jar /\ Open' \subseteq Open
    BY <1>3 DEF Lose, Open, vars
  <2> QED
    BY <2>1, LosingKeepsCookie
<1>4. CASE DropCookie
  <2>1. UNCHANGED vars /\ arrived' = arrived /\ jar' = None /\ Open' \subseteq Open
    BY <1>4 DEF DropCookie, Open, vars
  <2> QED
    BY <2>1, LosingKeepsCookie
<1>5. CASE ServerStep
  BY <1>n, <1>5, ServerKeepsCookie
<1>6. CASE SessionFinished \/ UNCHANGED sessionVars
  <2>1. UNCHANGED vars /\ arrived' = arrived /\ jar' = jar /\ Open' \subseteq Open
    BY <1>6 DEF SessionFinished, sessionVars, browserVars, Open, vars
  <2> QED
    BY <2>1, LosingKeepsCookie
<1> QED
  BY <1>1, <1>2, <1>3, <1>4, <1>5, <1>6 DEF SessionNext

-----------------------------------------------------------------------------
(***************************************************************************)
(* False alarms.                                                           *)
(***************************************************************************)

\* What went wrong stays wrong.
LEMMA MishapStays ==
  ASSUME IndType, OneOpen, [Next]_vars, [SessionNext]_sessionVars, Mishap
  PROVE  Mishap'
<1>1. lost \subseteq lost'
  BY DEF SessionNext, Send, Receive, Lose, DropCookie, ServerStep, SessionFinished, sessionVars,
     browserVars
<1>2. \A r \in Requests : pc[r] = "error" => pc'[r] = "error"
  BY FinalStays DEF Final
<1> QED
  BY <1>1, <1>2 DEF Mishap

\* Who is at work, without a mishap, is the open request.
LEMMA WorkIsOpen ==
  ASSUME OneOpen, ~Mishap, NEW q \in Requests, pc[q] \in InFlight
  PROVE  q \in Open
<1>1. q \notin lost
  BY DEF Mishap
<1>2. q \notin arrived /\ pc[q] # "idle"
  BY DEF OneOpen, InFlight, Rotating, InTransaction, Final
<1> QED
  BY <1>1, <1>2 DEF Open

\* The server answers a request it has begun to rotate with no alarm.
LEMMA NoAlarmInBetween ==
  ASSUME IndType, ServerStep, NEW q \in Requests, pc'[q] \in {"sweep", "apply", "reuse"}
  PROVE  pc[q] \in {"sweep", "apply", "reuse"}
<1>t. pc \in [Requests -> {"idle"} \cup InFlight \cup Final]
  BY DEF IndType, TypeOK
<1>1. ASSUME NEW r \in Requests, Progress(r), pc[r] \notin {"sweep", "apply"}
      PROVE  pc[q] \in {"sweep", "apply", "reuse"}
  BY <1>1, <1>t DEF Progress, InsertRow, RevokePresented, MintSuccessor, FindUser, Commit,
     StartSweep, ApplySweep, RevokeOnLogout, Goto
<1>2. ASSUME NEW r \in Requests, Abort(r) \/ Fail(r)
      PROVE  pc[q] \in {"sweep", "apply", "reuse"}
  BY <1>2, <1>t DEF Abort, Fail, Goto
<1>3. ASSUME NEW r \in Requests, Progress(r), pc[r] \in {"sweep", "apply"}
      PROVE  pc[q] \in {"sweep", "apply", "reuse"}
  BY <1>3, <1>t DEF Progress, InsertRow, RevokePresented, MintSuccessor, FindUser, Commit,
     StartSweep, ApplySweep, RevokeOnLogout, Goto
<1>4. ASSUME NEW t, Expire(t) \/ DeleteUser(t) PROVE pc' = pc
  BY <1>4 DEF Expire, DeleteUser
<1> QED
  BY <1>1, <1>2, <1>3, <1>4 DEF ServerStep

LEMMA SendIsCalm ==
  ASSUME MaxOpen = 1, ServerInv, OneOpen, CookieInv, Calm, ~Mishap, NEW r \in Requests, Send(r)
  PROVE  Calm'
<1>1. Open = {}
  BY SendsAlone
<1>2. jar # None => ~table[jar].revoked
  BY <1>1 DEF Calm
<1>3. /\ table' = table /\ minted' = minted /\ jar' = jar
      /\ \A q \in Requests \ {r} : pc'[q] = pc[q]
  BY WhatIsSent DEF ServerInv, browserVars
<1>4. pc'[r] \in {"insert", "unauthorized", "rotate", "revoke"}
  <2>t. pc \in [Requests -> {"idle"} \cup InFlight \cup Final]
    BY DEF ServerInv, IndType, TypeOK
  <2>1. ASSUME NEW u, LoginAccepted(r, u) PROVE pc'[r] = "insert"
    BY <2>1, <2>t DEF LoginAccepted, Goto
  <2>2. ASSUME LoginRejected(r) PROVE pc'[r] = "unauthorized"
    BY <2>2, <2>t DEF LoginRejected, Goto
  <2>3. ASSUME Refresh(r, jar) PROVE pc'[r] \in {"unauthorized", "rotate"}
    <3>1. ~(jar \in StoredTokens /\ table[jar].revoked)
      BY <1>2, NoneIsNoToken DEF StoredTokens
    <3> QED
      BY <2>3, <2>t, <3>1 DEF Refresh, Goto
  <2>4. ASSUME Logout(r, jar) PROVE pc'[r] \in {"unauthorized", "revoke"}
    BY <2>4, <2>t DEF Logout, Goto
  <2> QED
    BY <2>1, <2>2, <2>3, <2>4 DEF Send
<1>5. Open' \subseteq {r}
  BY <1>1, <1>3 DEF Open, Send, browserVars
<1>6. \A q \in Requests : pc'[q] \notin {"sweep", "apply", "reuse"}
  BY <1>3, <1>4 DEF Calm
<1> QED
  BY <1>2, <1>3, <1>4, <1>5, <1>6 DEF Calm

LEMMA ReceiveIsCalm ==
  ASSUME OneOpen, Calm, ~Mishap, NEW r \in Requests, Receive(r)
  PROVE  Calm'
<1>1. /\ r \in Open /\ jar' = CookieAfter(r)
      /\ table' = table /\ pc' = pc /\ minted' = minted
      /\ Open' = {}
  BY DEF Receive, vars, Open, OneOpen
<1>2. ASSUME pc[r] \in {"issued", "rotated"} PROVE jar' # None => ~table'[jar'].revoked
  BY <1>1, <1>2 DEF CookieAfter, Calm
<1>3. ASSUME pc[r] = "loggedOut" PROVE jar' = None
  BY <1>1, <1>3 DEF CookieAfter
<1>4. ASSUME pc[r] \notin {"issued", "rotated", "loggedOut"}
      PROVE  jar' # None => ~table'[jar'].revoked
  <2>1. jar' = jar
    BY <1>1, <1>4 DEF CookieAfter
  <2>2. \A q \in Open : q = r
    BY <1>1 DEF OneOpen
  <2> QED
    BY <1>1, <1>4, <2>1, <2>2 DEF Calm
<1> QED
  BY <1>1, <1>2, <1>3, <1>4 DEF Calm

LEMMA ServerIsCalm ==
  ASSUME ServerInv, OneOpen, CookieInv, Calm, ~Mishap, ~Mishap', ServerStep, [Next]_vars
  PROVE  Calm'
<1>1. jar' = jar /\ Open' \subseteq Open
  BY ServerBegins DEF ServerStep, browserVars, Open, ServerInv
<1>2. \A q \in Requests : pc'[q] \notin {"sweep", "apply", "reuse"}
  BY NoAlarmInBetween DEF Calm, ServerInv
<1>3. ASSUME NEW q \in Requests, pc[q] \in InFlight PROVE q \in Open
  BY <1>3, WorkIsOpen
<1>w. ASSUME NEW q \in Requests, InsertRow(q) \/ Commit(q) \/ ApplySweep(q) \/ RevokeOnLogout(q)
      PROVE  /\ pc[q] \in InFlight /\ q \in Open /\ ~ApplySweep(q)
             /\ pc'[q] \in {"issued", "rotated", "loggedOut"} /\ q \in Open'
  <2>1. pc[q] \in InFlight /\ ~ApplySweep(q)
    BY <1>w DEF InsertRow, Commit, ApplySweep, RevokeOnLogout, InFlight, Rotating,
       InTransaction, Calm
  <2>2. pc'[q] \in {"issued", "rotated", "loggedOut", "error"}
    BY <1>w, <2>1 DEF InsertRow, Commit, RevokeOnLogout, Goto, ServerInv, IndType, TypeOK
  <2>3. pc'[q] # "error"
    BY DEF Mishap
  <2>4. q \in Open
    BY <1>3, <2>1
  <2>5. q \in Open'
    BY <2>2, <2>4 DEF Open, ServerStep, browserVars
  <2> QED
    BY <2>1, <2>2, <2>3, <2>4, <2>5
<1>4. ASSUME jar # None, \A q \in Open' : pc'[q] \notin {"rotated", "loggedOut"}
      PROVE  ~table'[jar].revoked
  <2>1. ASSUME NEW q \in Open PROVE pc[q] \notin {"rotated", "loggedOut"}
    <3>1. ASSUME pc[q] \in {"rotated", "loggedOut"} PROVE FALSE
      <4>1. q \in Requests /\ pc'[q] = pc[q]
        BY <3>1, FinalStays DEF Final, Open, ServerInv
      <4>2. q \in Open'
        BY <3>1, <4>1 DEF Open, ServerStep, browserVars
      <4> QED
        BY <1>4, <3>1, <4>1, <4>2
    <3> QED
      BY <3>1
  <2>2. ~table[jar].revoked
    BY <1>4, <2>1 DEF Calm
  <2>3. jar \in StoredTokens
    BY <1>4, ReceivedStay DEF CookieInv, Holds
  <2>4. ASSUME NEW q \in Requests, InsertRow(q) PROVE table'[jar] = table[jar]
    <3>1. PICK f \in Fresh : \A x \in Tokens \ {f} : table'[x] = table[x]
      BY <2>4, InsertedRow DEF ServerInv
    <3> QED
      BY <2>3, <3>1 DEF Fresh, StoredTokens, Stored
  <2>5. ASSUME NEW q \in Requests, Commit(q) \/ RevokeOnLogout(q) PROVE FALSE
    <3>1. pc'[q] \in {"rotated", "loggedOut", "error"}
      BY <2>5 DEF Commit, RevokeOnLogout, Goto, ServerInv, IndType, TypeOK
    <3> QED
      BY <1>4, <1>w, <2>5, <3>1
  <2> QED
    BY <1>w, <2>2, <2>4, <2>5, OtherStepsKeepTable
<1>5. ASSUME NEW x \in Open', pc'[x] \in {"issued", "rotated"}
      PROVE  ~table'[minted'[x]].revoked
  <2>0. x \in Requests /\ x \in Open
    BY <1>1 DEF Open
  <2>1. CASE pc[x] \in {"issued", "rotated"}
    <3>1. minted'[x] = minted[x] /\ ~table[minted[x]].revoked
      BY <2>0, <2>1, FinalStays DEF Final, ServerInv, Calm
    <3>2. ASSUME NEW q \in Requests,
                 InsertRow(q) \/ Commit(q) \/ ApplySweep(q) \/ RevokeOnLogout(q)
          PROVE  FALSE
      <4>1. pc[q] \in InFlight /\ q = x
        BY <1>w, <2>0, <3>2 DEF OneOpen
      <4> QED
        BY <2>1, <4>1 DEF InFlight, Rotating, InTransaction
    <3>3. table' = table
      BY <3>2, OtherStepsKeepTable
    <3> QED
      BY <3>1, <3>3
  <2>2. CASE InsertRow(x)
    <3>1. PICK f \in Fresh : /\ minted' = [minted EXCEPT ![x] = f]
                            /\ table'[f] = Families!NewRow(f, account[x])
      BY <2>0, <2>2, InsertedRow DEF ServerInv
    <3>2. minted'[x] = f
      BY <2>0, <3>1 DEF ServerInv, IndType, TypeOK
    <3> QED
      BY <3>1, <3>2 DEF Families!NewRow
  <2>3. CASE Commit(x)
    <3>1. table'[minted[x]] = Families!NewRow(table[presented[x]].familyId,
                                             table[presented[x]].userId)
      BY <2>0, <2>3, CommittedRows DEF ServerInv
    <3>2. minted' = minted
      BY <2>3 DEF Commit, locals
    <3> QED
      BY <3>1, <3>2 DEF Families!NewRow
  <2> QED
    BY <1>5, <2>0, <2>1, <2>2, <2>3, ReachesIssued, ReachesRotated DEF ServerInv
<1> QED
  BY <1>1, <1>2, <1>4, <1>5 DEF Calm

LEMMA StepCalm ==
  ASSUME MaxOpen = 1, ServerInv, OneOpen, CookieInv, Calm, [SessionNext]_sessionVars
  PROVE  Calm'
<1>n. [Next]_vars
  BY SessionIsNext
<1> SUFFICES ASSUME ~Mishap' PROVE Calm'
  BY DEF Calm
<1>m. ~Mishap
  BY <1>n, MishapStays DEF ServerInv
<1>1. ASSUME NEW r \in Requests, Send(r) PROVE Calm'
  BY <1>1, <1>m, SendIsCalm
<1>2. ASSUME NEW r \in Requests, Receive(r) PROVE Calm'
  BY <1>2, <1>m, ReceiveIsCalm
<1>3. ASSUME NEW r \in Requests, Lose(r) PROVE Calm'
  BY <1>3 DEF Lose, Mishap
<1>4. CASE DropCookie \/ SessionFinished \/ UNCHANGED sessionVars
  <2>1. /\ table' = table /\ pc' = pc /\ minted' = minted /\ jar' \in {jar, None}
        /\ Open' = Open
    BY <1>4 DEF DropCookie, SessionFinished, sessionVars, browserVars, vars, Open
  <2> QED
    BY <1>m, <2>1 DEF Calm
<1>5. CASE ServerStep
  BY <1>5, <1>m, <1>n, ServerIsCalm
<1> QED
  BY <1>1, <1>2, <1>3, <1>4, <1>5 DEF SessionNext

-----------------------------------------------------------------------------
BrowserInv == ServerInv /\ OneOpen /\ CookieInv /\ Calm

LEMMA InitBrowser == SessionInit => BrowserInv
<1> SUFFICES ASSUME SessionInit PROVE BrowserInv
  OBVIOUS
<1>1. /\ \A r \in Requests : pc[r] = "idle"
      /\ jar = None /\ arrived = {} /\ lost = {} /\ Open = {}
  BY DEF SessionInit, Init, Open
<1>2. Received = {} /\ \A t : ~Holds(t)
  BY <1>1 DEF Received, Holds
<1>3. CookieInv /\ Calm
  BY <1>1, <1>2 DEF CookieInv, Calm
<1> QED
  BY <1>3, InitServer, InitOneOpen DEF BrowserInv, SessionInit

LEMMA StepBrowser ==
  ASSUME MaxOpen = 1, BrowserInv, [SessionNext]_sessionVars
  PROVE  BrowserInv'
<1>1. [Next]_vars
  BY SessionIsNext DEF BrowserInv
<1> QED
  BY <1>1, StepServer, StepOneOpen, StepCookie, StepCalm DEF BrowserInv, ServerInv

LEMMA BrowserSuffices ==
  ASSUME BrowserInv
  PROVE  NoFalseAlarm /\ CookieIsTheLastToken /\ LogoutEndsTheSession
<1>1. NoFalseAlarm
  BY DEF BrowserInv, Calm, NoFalseAlarm
<1>2. CookieIsTheLastToken
  BY DEF BrowserInv, CookieInv, Holds, IsTheLast, CookieIsTheLastToken
<1>3. LogoutEndsTheSession
  BY DEF BrowserInv, CookieInv, NotLeft, LogoutEndsTheSession
<1> QED
  BY <1>1, <1>2, <1>3

\* A browser that awaits one answer at a time is one of the clients of
\* RefreshTokens: what is proved of them holds of the composition.
THEOREM BrowserIsAClient ==
  ASSUME MaxOpen = 1
  PROVE  SessionSpec => Spec
<1>1. BrowserInv /\ [SessionNext]_sessionVars => [Next]_vars
  BY SessionIsNext DEF BrowserInv
<1>2. SessionInit => Init
  BY DEF SessionInit
<1> QED
  BY <1>1, <1>2, InitBrowser, StepBrowser, PTL DEF SessionSpec, Spec

\* Reuse detection accuses the owner of the session only after an error or a
\* lost answer, however many requests the server still works on.
THEOREM NoFalseAlarmCorrect ==
  ASSUME MaxOpen = 1
  PROVE  SessionSpec => []NoFalseAlarm
BY InitBrowser, StepBrowser, BrowserSuffices, PTL DEF SessionSpec

\* Whatever is lost, no token that the browser received outlives its successor.
THEOREM CookieCorrect ==
  ASSUME MaxOpen = 1
  PROVE  SessionSpec => []CookieIsTheLastToken
BY InitBrowser, StepBrowser, BrowserSuffices, PTL DEF SessionSpec

\* After a logout has been answered, the browser has no valid token of that
\* session, lost rotations notwithstanding.
THEOREM LogoutCorrect ==
  ASSUME MaxOpen = 1
  PROVE  SessionSpec => []LogoutEndsTheSession
BY InitBrowser, StepBrowser, BrowserSuffices, PTL DEF SessionSpec
=============================================================================
