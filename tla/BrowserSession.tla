--------------------------- MODULE BrowserSession --------------------------
(***************************************************************************)
(* The rt cookie of one browser against the handlers of RefreshTokens:     *)
(* src/src/auth/auth.controller.ts decides which answers set the cookie    *)
(* and which clear it.  Tabs send requests that carry the cookie of that   *)
(* moment; answers arrive in any order, or never.                          *)
(*                                                                         *)
(* MaxOpen bounds the requests the browser has open, from sending one      *)
(* until its answer has arrived or the browser has given up on it; the     *)
(* server may still be at work on the latter (MaxInFlight).                *)
(***************************************************************************)
EXTENDS RefreshTokens

CONSTANT MaxOpen  \* how many answers the browser awaits at a time

ASSUME SomeOpen == MaxOpen \in Nat

VARIABLES
  jar,      \* the rt cookie, None when the browser has none
  arrived,  \* the requests whose answer the browser has received
  lost      \* the requests whose answer will never reach it

browserVars == <<jar, arrived, lost>>
sessionVars == <<vars, browserVars>>

Open == {r \in Requests : pc[r] # "idle" /\ r \notin arrived \cup lost}

SessionInit ==
  /\ Init
  /\ jar = None
  /\ arrived = {}
  /\ lost = {}

\* A tab sends a request with the cookie it has; a login needs none.
Send(r) ==
  /\ Cardinality(Open) < MaxOpen
  /\ \/ \E u \in Users : LoginAccepted(r, u)
     \/ LoginRejected(r)
     \/ Refresh(r, jar)
     \/ Logout(r, jar)
  /\ UNCHANGED browserVars

\* A faulty variant: refresh answers without setting the new cookie.
CookieAfter_RefreshKeeps(r) ==
  CASE pc[r] = "issued" -> minted[r]
    [] pc[r] = "loggedOut" -> None
    [] OTHER -> jar

\* The Set-Cookie headers.  A handler that throws sets none: the controller
\* tests clearCookie only on a returned result, and no result of refresh
\* has it set.
CookieAfter(r) ==
  CASE pc[r] \in {"issued", "rotated"} -> minted[r]
    [] pc[r] = "loggedOut" -> None
    [] OTHER -> jar

Receive(r) ==
  /\ pc[r] \in Final
  /\ r \in Open
  /\ jar' = CookieAfter(r)
  /\ arrived' = arrived \cup {r}
  /\ UNCHANGED <<vars, lost>>

Lose(r) ==
  /\ r \in Open
  /\ lost' = lost \cup {r}
  /\ UNCHANGED <<vars, jar, arrived>>

\* The cookie's Max-Age, the lifetime of its token, runs out.
DropCookie ==
  /\ jar \in expired
  /\ jar' = None
  /\ UNCHANGED <<vars, arrived, lost>>

ServerStep ==
  /\ \/ \E r \in Requests : Progress(r) \/ Abort(r) \/ Fail(r)
     \/ \E t \in Tokens : Expire(t)
     \/ \E u \in Users : DeleteUser(u)
  /\ UNCHANGED browserVars

SessionFinished ==
  /\ \A r \in Requests : pc[r] \in Final /\ r \notin Open
  /\ UNCHANGED sessionVars

SessionNext ==
  \/ \E r \in Requests : Send(r) \/ Receive(r) \/ Lose(r)
  \/ DropCookie
  \/ ServerStep
  \/ SessionFinished

SessionSpec == SessionInit /\ [][SessionNext]_sessionVars

-----------------------------------------------------------------------------
\* The tokens the browser has received.
Received == {minted[r] : r \in {q \in arrived : pc[q] \in {"issued", "rotated"}}}

\* A request that ended in a way the browser could not see: a 500, or an
\* answer that did not arrive.
Mishap == \E r \in Requests : pc[r] = "error" \/ r \in lost

(***************************************************************************)
(* A browser that sends one request at a time:                             *)
(***************************************************************************)

\* Reuse detection does not accuse the browser that owns the session: it
\* answers a replay only after an answer was lost or an error returned.
NoFalseAlarm == (\E r \in Requests : pc[r] = "reuse") => Mishap

\* Whatever is lost, a family of which the browser still holds a valid token
\* has it in the cookie or was left by a later login or logout: no token it
\* was given by a rotation outlives its successor.
CookieIsTheLastToken ==
  \A t \in Received :
    Families!Active(t) => \/ jar = t
                 \/ jar = None
                 \/ FamilyOf(jar) # FamilyOf(t)

\* Once the answer to a logout has arrived, no token the browser received
\* from that session is valid, even if an earlier rotation was lost.
LogoutEndsTheSession ==
  \A r \in arrived : pc[r] = "loggedOut" =>
    \A t \in Received : Families!Active(t) => FamilyOf(t) # FamilyOf(presented[r])

(***************************************************************************)
(* auth-domain spec, "Refresh Token Rotation" and "Reuse Detection": the   *)
(* 401 to an expired or a replayed cookie clears it.                       *)
(***************************************************************************)
RefusedRefreshClearsCookie ==
  [][\A r \in Requests :
       r \in arrived' \ arrived /\ pc[r] = "reuse" => jar' = None]_sessionVars
=============================================================================
