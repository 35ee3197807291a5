--------------------------- MODULE ContactProofs ---------------------------
(***************************************************************************)
(* Proofs about ContactPipeline, for any number of submissions and         *)
(* crashes: what the listener has done so far can be told from the row it  *)
(* is at, and no failure makes it do more, or go on for ever.              *)
(***************************************************************************)
EXTENDS ContactPipeline, TLAPS

\* Nothing of the mail of kind k has happened.
Nothing(c, k) == mails[c][k] = 0 /\ \A s \in Statuses : audit[c][k][s] = 0

\* The mail of kind k is dealt with, as AttemptsAreAudited has it.
Covered(c, k) == Rows(c, k) = 1 \/ (Rows(c, k) = 2 /\ audit[c][k]["failed"] >= 1)

\* What holds of a mail at all times.
Bounded(c, k) ==
  /\ mails[c][k] <= 1
  /\ audit[c][k]["accepted"] <= mails[c][k]
  /\ Rows(c, k) <= 2

\* Listeners exist for answered submissions only.
AnswerShape(c) ==
  /\ request[c] = "error" => job[c] = "none"
  /\ job[c] # "none" => request[c] = "created"

\* Where the listener is tells what it has done for the mail it is at, for
\* the mail before it and for the mail after it.
ListenerShape(c) ==
  /\ job[c] \in {"none", "queued", "call"} => Nothing(c, kind[c])
  /\ job[c] \in {"none", "queued"} => kind[c] = "notification"
  /\ job[c] = "record" => /\ Rows(c, kind[c]) = 0
                          /\ outcome[c] = "accepted" => mails[c][kind[c]] = 1
  /\ job[c] = "recover" => Rows(c, kind[c]) <= 1
  /\ kind[c] = "notification" => Nothing(c, "reply")
  /\ kind[c] = "reply" => Covered(c, "notification")
  /\ job[c] = "done" => kind[c] = "reply" /\ Covered(c, "reply")

Shape(c) == AnswerShape(c) /\ ListenerShape(c) /\ \A k \in Kinds : Bounded(c, k)

Inv == TypeOK /\ \A c \in Contacts : Shape(c)

\* What a submission is: a step that leaves it alone keeps its shape.
Same(c) ==
  /\ request'[c] = request[c] /\ job'[c] = job[c] /\ kind'[c] = kind[c]
  /\ outcome'[c] = outcome[c] /\ mails'[c] = mails[c] /\ audit'[c] = audit[c]

LEMMA SameShape == ASSUME NEW c \in Contacts, Shape(c), Same(c) PROVE Shape(c)'
  BY DEF Shape, AnswerShape, ListenerShape, Bounded, Covered, Rows, Nothing, Same

LEMMA InitInv == Init => Inv
<1> SUFFICES ASSUME Init PROVE Inv
  OBVIOUS
<1>1. TypeOK
  BY SomeCrashes DEF Init, TypeOK, Kinds, Statuses, Answered, Running, Ended
<1>2. \A c \in Contacts : Shape(c)
  BY DEF Init, Shape, AnswerShape, ListenerShape, Bounded, Covered, Rows, Nothing, Kinds, Statuses
<1> QED
  BY <1>1, <1>2 DEF Inv

\* The statements of the POST: no mail is touched.
LEMMA StepRequest ==
  ASSUME Inv, NEW c \in Contacts, Submit(c) \/ Store(c) \/ StoreFails(c) \/ Emit(c)
  PROVE  Inv'
<1>t. TypeOK /\ UNCHANGED <<mailVars, crashes>>
  BY DEF Inv, Submit, Store, StoreFails, Emit
<1>1. TypeOK'
  BY <1>t DEF TypeOK, Submit, Store, StoreFails, Emit, mailVars, Answered, Running
<1>2. ASSUME NEW d \in Contacts PROVE Shape(d)'
  <2>1. Shape(d)
    BY DEF Inv
  <2>2. CASE d # c
    BY <1>t, <2>1, <2>2, SameShape
       DEF TypeOK, Submit, Store, StoreFails, Emit, mailVars, Same
  <2>3. CASE d = c
    <3>1. UNCHANGED <<kind, outcome, mails, audit>>
      BY <1>t DEF mailVars
    <3>2. AnswerShape(c)' /\ job[c] = "none" /\ job'[c] \in {"none", "queued"}
      BY <1>t, <2>1, <2>3 DEF TypeOK, Submit, Store, StoreFails, Emit, Shape, AnswerShape
    <3> QED
      BY <2>1, <2>3, <3>1, <3>2
         DEF Shape, ListenerShape, Bounded, Covered, Rows, Nothing
  <2> QED
    BY <2>2, <2>3
<1> QED
  BY <1>1, <1>2 DEF Inv

\* The start of the listener.
LEMMA StepDispatch ==
  ASSUME Inv, NEW c \in Contacts, Dispatch(c)
  PROVE  Inv'
<1>t. TypeOK /\ UNCHANGED <<contacts, request, kind, outcome, mails, audit, crashes>>
  BY DEF Inv, Dispatch, mailVars
<1>1. TypeOK'
  BY <1>t DEF TypeOK, Dispatch, Running, Ended
<1>2. ASSUME NEW d \in Contacts PROVE Shape(d)'
  <2>1. Shape(d)
    BY DEF Inv
  <2>2. CASE d # c
    BY <1>t, <2>1, <2>2, SameShape DEF TypeOK, Dispatch, Same
  <2>3. CASE d = c
    <3>1. job[c] = "queued" /\ job'[c] \in {"call", "dropped", "rejected"}
      BY <1>t DEF TypeOK, Dispatch
    <3> QED
      BY <1>t, <2>1, <2>3, <3>1
         DEF Shape, AnswerShape, ListenerShape, Bounded, Covered, Rows, Nothing
  <2> QED
    BY <2>2, <2>3
<1> QED
  BY <1>1, <1>2 DEF Inv

\* The mail is sent, once: the listener comes to this statement with nothing
\* done for the mail it is at.
LEMMA StepCallResend ==
  ASSUME Inv, NEW c \in Contacts, CallResend(c)
  PROVE  Inv'
<1>t. /\ TypeOK
      /\ UNCHANGED <<contacts, request, kind, audit, crashes>>
      /\ kind[c] \in Kinds
  BY DEF Inv, CallResend, TypeOK
<1>1. PICK accepted \in BOOLEAN :
        /\ mails' = IF accepted THEN [mails EXCEPT ![c][kind[c]] = @ + 1] ELSE mails
        /\ outcome' = [outcome EXCEPT ![c] = IF accepted THEN "accepted" ELSE "failed"]
        /\ \/ job' = [job EXCEPT ![c] = "record"]
           \/ job' = [job EXCEPT ![c] = "recover"]
  BY DEF CallResend
<1>2. mails' \in [Contacts -> [Kinds -> Nat]]
  BY <1>t, <1>1 DEF TypeOK
<1>3. TypeOK'
  BY <1>t, <1>1, <1>2 DEF TypeOK, Statuses, Running
<1>4. ASSUME NEW d \in Contacts PROVE Shape(d)'
  <2>1. Shape(d)
    BY DEF Inv
  <2>2. CASE d # c
    BY <1>t, <1>1, <2>1, <2>2, SameShape DEF TypeOK, Same
  <2>3. CASE d = c
    <3>1. job[c] = "call" /\ Nothing(c, kind[c]) /\ job'[c] \in {"record", "recover"}
      BY <1>t, <1>1, <2>1, <2>3 DEF TypeOK, CallResend, Shape, ListenerShape
    <3>2. /\ \A k \in Kinds \ {kind[c]} : mails'[c][k] = mails[c][k]
          /\ mails'[c][kind[c]] \in {0, 1}
          /\ outcome'[c] = "accepted" => mails'[c][kind[c]] = 1
      BY <1>t, <1>1, <3>1 DEF TypeOK, Nothing
    <3>3. AnswerShape(c)'
      BY <1>t, <2>1, <2>3, <3>1 DEF Shape, AnswerShape
    <3>4. ListenerShape(c)'
      BY <1>t, <2>1, <2>3, <3>1, <3>2
         DEF TypeOK, Shape, ListenerShape, Covered, Rows, Nothing, Kinds, Statuses
    <3>5. ASSUME NEW k \in Kinds PROVE Bounded(c, k)'
      <4>1. Bounded(c, k)
        BY <2>1, <2>3 DEF Shape
      <4>2. CASE k = kind[c]
        BY <1>t, <3>1, <3>2, <4>2 DEF Bounded, Rows, Nothing, Statuses
      <4>3. CASE k # kind[c]
        BY <1>t, <3>2, <4>1, <4>3 DEF Bounded, Rows
      <4> QED
        BY <4>2, <4>3
    <3> QED
      BY <2>3, <3>3, <3>4, <3>5 DEF Shape
  <2> QED
    BY <2>2, <2>3
<1> QED
  BY <1>3, <1>4 DEF Inv

\* What saving an audit row does to the table.
LEMMA SavedRow ==
  ASSUME TypeOK, NEW c \in Contacts, NEW s \in Statuses, NEW stored \in BOOLEAN,
         SaveAudit(c, s, stored)
  PROVE  /\ audit' \in [Contacts -> [Kinds -> [Statuses -> Nat]]]
         /\ \A d \in Contacts \ {c} : audit'[d] = audit[d]
         /\ \A k \in Kinds \ {kind[c]} : audit'[c][k] = audit[c][k]
         /\ \A x \in Statuses : audit'[c][kind[c]][x] =
              audit[c][kind[c]][x] + (IF stored /\ x = s THEN 1 ELSE 0)
<1>t. audit \in [Contacts -> [Kinds -> [Statuses -> Nat]]] /\ kind[c] \in Kinds
  BY DEF TypeOK
<1>1. CASE ~stored
  BY <1>t, <1>1 DEF SaveAudit
<1>2. CASE stored
  BY <1>t, <1>2 DEF SaveAudit
<1> QED
  BY <1>1, <1>2

\* Going on to the next mail, from one that is dealt with.
LEMMA NextMailShape ==
  ASSUME TypeOK, NEW c \in Contacts, NEW k \in Kinds, k = kind[c],
         ListenerShape(c), NextMail(c), UNCHANGED mails,
         \A j \in Kinds \ {k} : audit'[c][j] = audit[c][j],
         Covered(c, k)'
  PROVE  /\ ListenerShape(c)'
         /\ job'[c] \in {"call", "done"}
         /\ job' \in [Contacts -> {"none"} \cup Running \cup Ended]
         /\ kind' \in [Contacts -> Kinds]
         /\ \A d \in Contacts \ {c} : job'[d] = job[d] /\ kind'[d] = kind[d]
<1>1. CASE k = "notification"
  <2>1. kind' = [kind EXCEPT ![c] = "reply"] /\ job' = [job EXCEPT ![c] = "call"]
    BY <1>1 DEF NextMail
  <2>2. /\ kind' \in [Contacts -> Kinds] /\ job' \in [Contacts -> {"none"} \cup Running \cup Ended]
        /\ kind'[c] = "reply" /\ job'[c] = "call"
        /\ \A d \in Contacts \ {c} : job'[d] = job[d] /\ kind'[d] = kind[d]
    BY <2>1 DEF TypeOK, Kinds, Running
  <2>3. Nothing(c, "reply")'
    BY <1>1 DEF ListenerShape, Nothing, Kinds
  <2> QED
    BY <1>1, <2>2, <2>3 DEF ListenerShape
<1>2. CASE k = "reply"
  <2>1. kind' = kind /\ job' = [job EXCEPT ![c] = "done"]
    BY <1>2 DEF NextMail
  <2>2. /\ kind' \in [Contacts -> Kinds] /\ job' \in [Contacts -> {"none"} \cup Running \cup Ended]
        /\ kind'[c] = "reply" /\ job'[c] = "done"
        /\ \A d \in Contacts \ {c} : job'[d] = job[d] /\ kind'[d] = kind[d]
    BY <1>2, <2>1 DEF TypeOK, Ended
  <2>3. Covered(c, "notification")'
    BY <1>2 DEF ListenerShape, Covered, Rows, Kinds
  <2> QED
    BY <1>2, <2>2, <2>3 DEF ListenerShape
<1> QED
  BY <1>1, <1>2 DEF Kinds

\* One save of an audit row, in the try block or in the catch block: with
\* status s, and the label of the listener when the save rejects.
Saves(c, s, label) ==
  /\ UNCHANGED <<contacts, request, outcome, mails, crashes>>
  /\ \E stored \in BOOLEAN, resolved \in BOOLEAN :
       /\ resolved => stored
       /\ SaveAudit(c, s, stored)
       /\ IF resolved THEN NextMail(c)
          ELSE job' = [job EXCEPT ![c] = label] /\ UNCHANGED kind

\* A save keeps the invariant if the row that it may store fits the others.
LEMMA StepSaves ==
  ASSUME Inv, NEW c \in Contacts, NEW s \in Statuses, NEW label \in {"recover", "rejected"},
         Saves(c, s, label),
         job[c] \in {"record", "recover"},
         s = "accepted" => mails[c][kind[c]] = 1,
         Rows(c, kind[c]) <= (IF label = "recover" THEN 0 ELSE 1),
         label = "rejected" => s = "failed"
  PROVE  Inv'
<1>t. TypeOK /\ kind[c] \in Kinds
  BY DEF Inv, TypeOK
<1>1. PICK stored \in BOOLEAN, resolved \in BOOLEAN :
        /\ resolved => stored
        /\ SaveAudit(c, s, stored)
        /\ IF resolved THEN NextMail(c)
           ELSE job' = [job EXCEPT ![c] = label] /\ UNCHANGED kind
  BY DEF Saves
<1>2. /\ audit' \in [Contacts -> [Kinds -> [Statuses -> Nat]]]
      /\ \A d \in Contacts \ {c} : audit'[d] = audit[d]
      /\ \A k \in Kinds \ {kind[c]} : audit'[c][k] = audit[c][k]
      /\ \A x \in Statuses : audit'[c][kind[c]][x] =
           audit[c][kind[c]][x] + (IF stored /\ x = s THEN 1 ELSE 0)
  BY <1>t, <1>1, SavedRow
<1>3. UNCHANGED <<contacts, request, outcome, mails, crashes>>
  BY DEF Saves
<1>s. Shape(c)
  BY DEF Inv
<1>k. PICK k \in Kinds : k = kind[c]
  BY <1>t
<1>4. /\ \A x \in Statuses : audit[c][k][x] \in Nat
      /\ mails[c][k] \in Nat
      /\ Rows(c, k) \in {0, 1}
      /\ s = "accepted" => Rows(c, k) = 0
  <2>1. (\A x \in Statuses : audit[c][k][x] \in Nat) /\ mails[c][k] \in Nat
    BY <1>t DEF TypeOK
  <2>2. Rows(c, k) \in Nat
    BY <2>1 DEF Rows, Statuses
  <2>3. Rows(c, k) <= (IF label = "recover" THEN 0 ELSE 1)
    BY <1>k
  <2> QED
    BY <2>1, <2>2, <2>3
<1>5. /\ Rows(c, k)' <= Rows(c, k) + 1
      /\ stored => Covered(c, k)'
      /\ Bounded(c, k)'
  <2>1. Bounded(c, k)
    BY <1>s DEF Shape
  <2>2. Rows(c, k)' = Rows(c, k) + (IF stored THEN 1 ELSE 0)
    BY <1>2, <1>4, <1>k DEF Rows, Statuses
  <2>3. stored => Covered(c, k)'
    BY <1>2, <1>4, <1>k, <2>2 DEF Covered, Rows, Statuses
  <2>4. audit'[c][k]["accepted"] <= mails[c][k]
    <3>1. CASE s = "accepted" /\ stored
      <4>1. audit[c][k]["accepted"] = 0
        BY <1>4, <1>k, <3>1 DEF Rows, Statuses
      <4> QED
        BY <1>2, <1>k, <3>1, <4>1 DEF Statuses
    <3>2. CASE ~(s = "accepted" /\ stored)
      BY <1>2, <1>4, <1>k, <2>1, <3>2 DEF Bounded, Statuses
    <3> QED
      BY <3>1, <3>2
  <2> QED
    BY <1>3, <1>4, <2>1, <2>2, <2>3, <2>4 DEF Bounded, Rows, Statuses
<1>6. /\ ListenerShape(c)'
      /\ job'[c] # "none"
      /\ job' \in [Contacts -> {"none"} \cup Running \cup Ended]
      /\ kind' \in [Contacts -> Kinds]
      /\ \A d \in Contacts \ {c} : job'[d] = job[d] /\ kind'[d] = kind[d]
  <2>1. CASE resolved
    BY <1>1, <1>2, <1>3, <1>5, <1>k, <1>s, <1>t, <2>1, NextMailShape DEF Shape
  <2>2. CASE ~resolved
    <3>1. /\ job' = [job EXCEPT ![c] = label]
          /\ UNCHANGED <<kind, mails, outcome>>
      BY <1>1, <1>3, <2>2
    <3>2. /\ kind[c] = "notification" => Nothing(c, "reply")'
          /\ kind[c] = "reply" => Covered(c, "notification")'
      BY <1>2, <1>k, <1>s, <3>1 DEF Shape, ListenerShape, Nothing, Covered, Rows, Kinds, Statuses
    <3>3. label = "recover" => Rows(c, k)' <= 1
      BY <1>4, <1>5, <1>k DEF Rows, Statuses
    <3> QED
      BY <1>k, <1>t, <3>1, <3>2, <3>3
         DEF TypeOK, ListenerShape, Running, Ended, Rows
  <2> QED
    BY <2>1, <2>2
<1>7. TypeOK'
  BY <1>2, <1>3, <1>6, <1>t DEF TypeOK
<1>8. ASSUME NEW d \in Contacts PROVE Shape(d)'
  <2>1. CASE d # c
    BY <1>2, <1>3, <1>6, <2>1, SameShape DEF Inv, Same
  <2>2. CASE d = c
    <3>1. AnswerShape(c)'
      BY <1>3, <1>6, <1>s DEF Shape, AnswerShape
    <3>2. \A j \in Kinds \ {k} : Bounded(c, j)'
      BY <1>2, <1>3, <1>k, <1>s DEF Shape, Bounded, Rows
    <3> QED
      BY <1>5, <1>6, <2>2, <3>1, <3>2 DEF Shape
  <2> QED
    BY <2>1, <2>2
<1> QED
  BY <1>7, <1>8 DEF Inv

\* The audit row of the try block: nothing is stored yet for this mail, and
\* the status is what Resend said.
LEMMA StepRecord ==
  ASSUME Inv, NEW c \in Contacts, Record(c)
  PROVE  Inv'
<1>1. /\ outcome[c] \in Statuses /\ job[c] = "record"
      /\ Saves(c, outcome[c], "recover")
  BY DEF Inv, TypeOK, Record, Saves
<1>2. /\ outcome[c] = "accepted" => mails[c][kind[c]] = 1
      /\ Rows(c, kind[c]) = 0
  BY <1>1 DEF Inv, Shape, ListenerShape
<1> QED
  BY <1>1, <1>2, StepSaves

\* The audit row of the catch block: one more row at most, a failed one.
LEMMA StepRecover ==
  ASSUME Inv, NEW c \in Contacts, Recover(c)
  PROVE  Inv'
<1>1. job[c] = "recover" /\ Saves(c, "failed", "rejected") /\ "failed" \in Statuses
  BY DEF Inv, TypeOK, Recover, Saves, Statuses
<1>2. Rows(c, kind[c]) <= 1
  BY <1>1 DEF Inv, Shape, ListenerShape
<1> QED
  BY <1>1, <1>2, StepSaves

\* A crash forgets listeners, and leaves rows and mails.
LEMMA StepCrash == ASSUME Inv, Crash PROVE Inv'
<1>t. /\ TypeOK
      /\ UNCHANGED <<contacts, kind, outcome, mails, audit>>
  BY DEF Inv, Crash, mailVars
<1>1. TypeOK'
  BY <1>t, SomeCrashes DEF TypeOK, Crash, Answered, Running, Ended
<1>2. ASSUME NEW c \in Contacts PROVE Shape(c)'
  <2>1. Shape(c)
    BY DEF Inv
  <2>2. /\ job'[c] = job[c] \/ (job'[c] = "lost" /\ job[c] \in Running)
        /\ \/ request'[c] = request[c]
           \/ request'[c] = "error" /\ request[c] \in {"saving", "stored"}
    BY DEF Crash
  <2>3. AnswerShape(c)'
    BY <2>1, <2>2 DEF Shape, AnswerShape, Running
  <2> QED
    BY <1>t, <2>1, <2>2, <2>3 DEF Shape, ListenerShape, Bounded, Covered, Rows, Nothing
<1> QED
  BY <1>1, <1>2 DEF Inv

\* A deleted submission keeps its mails and its audit; and a system that has
\* stopped keeps everything.
LEMMA StepRest ==
  ASSUME Inv, (\E c \in Contacts : DeleteContact(c)) \/ UNCHANGED vars
  PROVE  Inv'
<1>1. UNCHANGED <<request, job, kind, outcome, mails, audit, crashes>> /\ contacts' \subseteq contacts
  BY DEF DeleteContact, mailVars, vars
<1>2. TypeOK'
  BY <1>1 DEF Inv, TypeOK
<1>3. \A c \in Contacts : Shape(c)'
  BY <1>1, SameShape DEF Inv, Same
<1> QED
  BY <1>2, <1>3 DEF Inv

LEMMA StepInv == Inv /\ [Next]_vars => Inv'
<1> SUFFICES ASSUME Inv, [Next]_vars PROVE Inv'
  OBVIOUS
<1>1. ASSUME NEW c \in Contacts, Submit(c) \/ Progress(c) PROVE Inv'
  BY <1>1, StepRequest, StepDispatch, StepCallResend, StepRecord, StepRecover DEF Progress
<1> QED
  BY <1>1, StepCrash, StepRest DEF Next, Finished

LEMMA SpecInv == Spec => []Inv
  BY InitInv, StepInv, PTL DEF Spec

\* The variables have their types, however many submissions and crashes.
THEOREM TypeCorrect == Spec => []TypeOK
<1>1. Inv => TypeOK
  BY DEF Inv
<1> QED
  BY <1>1, SpecInv, PTL

\* Nobody gets the same mail twice.
THEOREM MailsCorrect == Spec => []NoMailTwice
<1>1. Inv => NoMailTwice
  BY DEF Inv, Shape, Bounded, NoMailTwice
<1> QED
  BY <1>1, SpecInv, PTL

\* The audit claims no mail that Resend did not accept.
THEOREM AuditCorrect == Spec => []AuditClaimsNoUnsentMail
<1>1. Inv => AuditClaimsNoUnsentMail
  BY DEF Inv, Shape, Bounded, AuditClaimsNoUnsentMail
<1> QED
  BY <1>1, SpecInv, PTL

\* A listener that ended well has left a row for each of its mails.
THEOREM AttemptsCorrect == Spec => []AttemptsAreAudited
<1>1. Inv => AttemptsAreAudited
  BY DEF Inv, Shape, ListenerShape, Covered, AttemptsAreAudited, Kinds
<1> QED
  BY <1>1, SpecInv, PTL

\* The visitor is answered only after the owner's notification left a row.
THEOREM OrderCorrect == Spec => []ReplyFollowsNotification
<1>1. ASSUME Inv, NEW c \in Contacts, Attempted(c, "reply") PROVE Rows(c, "notification") > 0
  <2>1. kind[c] \in Kinds /\ ListenerShape(c)
    BY <1>1 DEF Inv, TypeOK, Shape
  <2>2. kind[c] # "notification"
    <3>1. "reply" \in Kinds /\ \A s \in Statuses : audit[c]["reply"][s] \in Nat
      BY <1>1 DEF Inv, TypeOK, Kinds
    <3> QED
      BY <1>1, <2>1, <3>1 DEF Attempted, ListenerShape, Nothing
  <2> QED
    BY <2>1, <2>2 DEF ListenerShape, Covered, Kinds
<1>2. Inv => ReplyFollowsNotification
  BY <1>1 DEF ReplyFollowsNotification
<1> QED
  BY <1>2, SpecInv, PTL

\* Mail failures never reach the client.
THEOREM AnswersCorrect == Spec => []MailsNeverChangeAnswers
<1>1. Inv => MailsNeverChangeAnswers
  BY DEF Inv, Shape, AnswerShape, MailsNeverChangeAnswers
<1> QED
  BY <1>1, SpecInv, PTL

-----------------------------------------------------------------------------
(***************************************************************************)
(* What liveness rests on.  The work of a submission is bounded: its steps *)
(* take it forward, no failure takes it back, and at every moment it is    *)
(* either dealt with, on its way, or ended by a failure that says so.      *)
(***************************************************************************)
\* The steps left to a listener: for each mail the call, its row, and the
\* row of the catch block.
Left(c) ==
  IF job[c] = "queued" THEN 7
  ELSE (IF job[c] = "call" THEN 3
        ELSE IF job[c] = "record" THEN 2
        ELSE IF job[c] = "recover" THEN 1
        ELSE 0)
       + (IF job[c] \in Running /\ kind[c] = "notification" THEN 3 ELSE 0)

\* The steps left to a submission.
Work(c) ==
  IF request[c] = "idle" THEN 10
  ELSE IF request[c] = "saving" THEN 9
  ELSE IF request[c] = "stored" THEN 8
  ELSE Left(c)

WorkFits == \A c \in Contacts : Work(c) \in 0 .. 10
WorkOnlyShrinks == [][\A c \in Contacts : Work(c)' < Work(c) \/ Same(c)]_vars

\* A submission that was answered and whose notification was not tried is
\* about to be tried, or a failure has ended its listener.
NoneIsForgotten ==
  \A c \in Contacts :
    request[c] = "created" =>
      \/ Attempted(c, "notification")
      \/ job[c] \in {"queued", "call"} /\ kind[c] = "notification"
      \/ job[c] \in {"lost", "dropped", "rejected"}

LEMMA WorkIs ==
  ASSUME Inv, NEW c \in Contacts
  PROVE  LET more == IF kind[c] = "notification" THEN 3 ELSE 0 IN
         /\ request[c] = "idle" => Work(c) = 10
         /\ request[c] = "saving" => Work(c) = 9
         /\ request[c] = "stored" => Work(c) = 8
         /\ request[c] \in Answered /\ job[c] = "queued" => Work(c) = 7
         /\ request[c] \in Answered /\ job[c] = "call" => Work(c) = 3 + more
         /\ request[c] \in Answered /\ job[c] = "record" => Work(c) = 2 + more
         /\ request[c] \in Answered /\ job[c] = "recover" => Work(c) = 1 + more
         /\ request[c] \in Answered /\ job[c] \in {"none"} \cup Ended => Work(c) = 0
BY DEF Work, Left, Answered, Running, Ended

LEMMA NextWorkIs ==
  ASSUME NEW c \in Contacts
  PROVE  LET more == IF kind'[c] = "notification" THEN 3 ELSE 0 IN
         /\ request'[c] = "saving" => Work(c)' = 9
         /\ request'[c] = "stored" => Work(c)' = 8
         /\ request'[c] \in Answered /\ job'[c] = "queued" => Work(c)' = 7
         /\ request'[c] \in Answered /\ job'[c] = "call" => Work(c)' = 3 + more
         /\ request'[c] \in Answered /\ job'[c] = "record" => Work(c)' = 2 + more
         /\ request'[c] \in Answered /\ job'[c] = "recover" => Work(c)' = 1 + more
         /\ request'[c] \in Answered /\ job'[c] \in {"none"} \cup Ended => Work(c)' = 0
BY DEF Work, Left, Answered, Running, Ended

\* Where a step takes its submission.
GoesOn(c) ==
  \/ request[c] = "idle" /\ request'[c] = "saving"
  \/ request[c] = "saving" /\ request'[c] = "stored"
  \/ request[c] \in {"saving", "stored"} /\ request'[c] = "error" /\ job'[c] = "none"
  \/ request[c] = "stored" /\ request'[c] = "created" /\ job'[c] = "queued"
  \/ /\ request[c] = "created" /\ request'[c] = "created"
     /\ \/ job[c] \in Running /\ job'[c] \in Ended
        \/ job[c] = "queued" /\ job'[c] = "call"
        \/ job[c] = "call" /\ job'[c] \in {"record", "recover"} /\ kind'[c] = kind[c]
        \/ job[c] = "record" /\ job'[c] = "recover" /\ kind'[c] = kind[c]
        \/ /\ job[c] \in {"record", "recover"} /\ job'[c] = "call"
           /\ kind[c] = "notification" /\ kind'[c] = "reply"

LEMMA GoingOnIsWork ==
  ASSUME Inv, NEW c \in Contacts, GoesOn(c)
  PROVE  Work(c)' < Work(c)
BY WorkIs, NextWorkIs DEF GoesOn, Running, Ended, Answered

LEMMA StepsGoOn ==
  ASSUME Inv, NEW c \in Contacts, Submit(c) \/ Progress(c)
  PROVE  GoesOn(c) /\ \A d \in Contacts : d # c => Same(d)
<1>1. TypeOK /\ AnswerShape(c)
  BY DEF Inv, Shape
<1>2. CASE Submit(c) \/ Store(c) \/ StoreFails(c) \/ Emit(c)
  BY <1>1, <1>2
     DEF TypeOK, AnswerShape, Submit, Store, StoreFails, Emit, mailVars, GoesOn, Same
<1>3. CASE Dispatch(c)
  BY <1>1, <1>3 DEF TypeOK, AnswerShape, Dispatch, mailVars, GoesOn, Same, Running, Ended
<1>4. CASE CallResend(c)
  BY <1>1, <1>4 DEF TypeOK, AnswerShape, CallResend, GoesOn, Same
<1>5. CASE Record(c)
  BY <1>1, <1>5
     DEF TypeOK, AnswerShape, Record, SaveAudit, NextMail, GoesOn, Same, Running, Ended, Kinds
<1>6. CASE Recover(c)
  BY <1>1, <1>6
     DEF TypeOK, AnswerShape, Recover, SaveAudit, NextMail, GoesOn, Same, Running, Ended, Kinds
<1> QED
  BY <1>2, <1>3, <1>4, <1>5, <1>6 DEF Progress

\* A crash ends what it meets and leaves the rest as it is.
LEMMA CrashEnds ==
  ASSUME Inv, Crash, NEW c \in Contacts
  PROVE  GoesOn(c) \/ Same(c)
BY DEF Inv, TypeOK, Shape, AnswerShape, Crash, mailVars, GoesOn, Same, Answered, Running, Ended

LEMMA StepWorks ==
  ASSUME Inv, [Next]_vars, NEW c \in Contacts
  PROVE  Work(c)' < Work(c) \/ Same(c)
<1>1. CASE UNCHANGED <<request, job, mailVars>>
  BY <1>1 DEF mailVars, Same
<1> QED
  BY <1>1, StepsGoOn, CrashEnds, GoingOnIsWork DEF Next, DeleteContact, Finished, vars, mailVars

\* However many submissions and crashes: a submission takes ten steps at most,
\* each of its own steps brings it nearer to its end, and a crash only ends it.
THEOREM WorkIsBounded == Spec => []WorkFits /\ WorkOnlyShrinks
<1>1. Inv => WorkFits
  <2> SUFFICES ASSUME Inv, NEW c \in Contacts PROVE Work(c) \in 0 .. 10
    BY DEF WorkFits
  <2>1. /\ request[c] \in {"idle", "saving", "stored"} \cup Answered
        /\ job[c] \in {"none"} \cup Running \cup Ended
    BY DEF Inv, TypeOK
  <2> QED
    BY <2>1, WorkIs DEF Running
<1>2. Inv /\ [Next]_vars => [\A c \in Contacts : Work(c)' < Work(c) \/ Same(c)]_vars
  BY StepWorks
<1> QED
  BY <1>1, <1>2, SpecInv, PTL DEF Spec, WorkOnlyShrinks

\* An answer of 201 goes with an event.
HasListener(c) == request[c] = "created" => job[c] # "none"

LEMMA StepHasListener ==
  ASSUME Inv, [Next]_vars, NEW c \in Contacts, HasListener(c)
  PROVE  HasListener(c)'
<1>1. CASE GoesOn(c)
  BY <1>1 DEF GoesOn, HasListener, Running, Ended
<1>2. CASE Same(c)
  BY <1>2 DEF Same, HasListener
<1>3. CASE UNCHANGED <<request, job, mailVars>>
  BY <1>3 DEF HasListener
<1>4. GoesOn(c) \/ Same(c) \/ UNCHANGED <<request, job, mailVars>>
  BY StepsGoOn, CrashEnds DEF Next, DeleteContact, Finished, vars, mailVars
<1> QED
  BY <1>1, <1>2, <1>3, <1>4

\* The safe half of SubmissionsAreNotified: no answered submission is left
\* behind by anything but a failure of its own listener.
THEOREM NobodyIsForgotten == Spec => []NoneIsForgotten
<1> DEFINE Listened == \A c \in Contacts : HasListener(c)
<1>1. ASSUME Inv, Listened, NEW c \in Contacts, request[c] = "created"
      PROVE  \/ Attempted(c, "notification")
             \/ job[c] \in {"queued", "call"} /\ kind[c] = "notification"
             \/ job[c] \in {"lost", "dropped", "rejected"}
  <2>1. /\ job[c] \in Running \cup Ended /\ kind[c] \in Kinds /\ ListenerShape(c)
        /\ \A s \in Statuses : audit[c]["notification"][s] \in Nat
    BY <1>1 DEF Inv, TypeOK, Shape, HasListener, Kinds
  <2>2. CASE kind[c] = "reply"
    <3>1. Rows(c, "notification") > 0
      BY <2>1, <2>2 DEF ListenerShape, Covered
    <3> QED
      BY <2>1, <3>1 DEF Attempted, Rows, Statuses
  <2>3. CASE kind[c] = "notification"
    BY <2>1, <2>3 DEF ListenerShape, Attempted, Running, Ended
  <2> QED
    BY <2>1, <2>2, <2>3 DEF Kinds
<1>2. Inv /\ Listened => NoneIsForgotten
  BY <1>1 DEF NoneIsForgotten
<1>3. Init => Listened
  BY DEF Init, HasListener
<1>4. Inv /\ Listened /\ [Next]_vars => Listened'
  BY StepHasListener
<1> QED
  BY <1>2, <1>3, <1>4, SpecInv, PTL DEF Spec
=============================================================================
