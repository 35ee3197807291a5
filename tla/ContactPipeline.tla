-------------------------- MODULE ContactPipeline --------------------------
(***************************************************************************)
(* The public contact form: ContactService.create stores the submission    *)
(* and answers, an in-process event starts ContactEmailListener, and       *)
(* EmailService sends the owner's notification and then the visitor's      *)
(* auto-reply through Resend, with an audit row in sent_emails for each.   *)
(*                                                                         *)
(* The event lives in the memory of the process: there is no outbox, and   *)
(* nothing is resumed after a crash.  Every save can fail before or after  *)
(* the row is stored, and Resend can accept a mail whose answer is lost.   *)
(***************************************************************************)
EXTENDS Naturals, FiniteSets

CONSTANTS
  Contacts,    \* the submissions of a behaviour
  MaxCrashes   \* how often the process dies

ASSUME SomeCrashes == MaxCrashes \in Nat

Kinds == {"notification", "reply"}
Statuses == {"accepted", "failed"}

VARIABLES
  contacts,   \* the rows of contacts
  request,    \* per submission: where its POST is, or how it was answered
  job,        \* per submission: where its listener is
  kind,       \* per submission: the mail its listener is at
  outcome,    \* per submission: what Resend answered for that mail
  mails,      \* per submission and kind: how many mails Resend has accepted
  audit,      \* per submission, kind and status: rows of sent_emails
  crashes

vars == <<contacts, request, job, kind, outcome, mails, audit, crashes>>
mailVars == <<kind, outcome, mails, audit>>

Answered == {"created", "error"}
Running == {"queued", "call", "record", "recover"}
Ended == {"done", "dropped", "rejected", "lost"}

-----------------------------------------------------------------------------
Init ==
  /\ contacts = {}
  /\ request = [c \in Contacts |-> "idle"]
  /\ job     = [c \in Contacts |-> "none"]
  /\ kind    = [c \in Contacts |-> "notification"]
  /\ outcome = [c \in Contacts |-> "failed"]
  /\ mails   = [c \in Contacts |-> [k \in Kinds |-> 0]]
  /\ audit   = [c \in Contacts |-> [k \in Kinds |-> [s \in Statuses |-> 0]]]
  /\ crashes = 0

\* POST /contacts: the handler calls save.
Submit(c) ==
  /\ request[c] = "idle"
  /\ request' = [request EXCEPT ![c] = "saving"]
  /\ UNCHANGED <<contacts, job, mailVars, crashes>>

\* The INSERT commits; the handler has not been resumed yet.
Store(c) ==
  /\ request[c] = "saving"
  /\ contacts' = contacts \cup {c}
  /\ request' = [request EXCEPT ![c] = "stored"]
  /\ UNCHANGED <<job, mailVars, crashes>>

\* The INSERT, or its acknowledgement, fails: a 500, and no event.
StoreFails(c) ==
  /\ request[c] \in {"saving", "stored"}
  /\ request' = [request EXCEPT ![c] = "error"]
  /\ UNCHANGED <<contacts, job, mailVars, crashes>>

\* A faulty variant: the listener is awaited before the answer.
Emit_Awaited(c) ==
  /\ request[c] = "stored"
  /\ \/ job[c] = "none" /\ job' = [job EXCEPT ![c] = "queued"] /\ UNCHANGED request
     \/ job[c] \in Ended /\ UNCHANGED job
        /\ request' = [request EXCEPT ![c] = IF job[c] = "rejected" THEN "error" ELSE "created"]
  /\ UNCHANGED <<contacts, mailVars, crashes>>

\* A faulty variant: the answer is given and no event is emitted.
Emit_NoEvent(c) ==
  /\ request[c] = "stored"
  /\ request' = [request EXCEPT ![c] = "created"]
  /\ UNCHANGED <<contacts, job, mailVars, crashes>>

\* The handler goes on: it emits contact.created, which queues the listener,
\* and answers 201 without waiting for it.
Emit(c) ==
  /\ request[c] = "stored"
  /\ job' = [job EXCEPT ![c] = "queued"]
  /\ request' = [request EXCEPT ![c] = "created"]
  /\ UNCHANGED <<contacts, mailVars, crashes>>

-----------------------------------------------------------------------------
\* The listener reads the row again; without a row it drops the event, and a
\* failing query rejects its promise, which the event bus swallows.
Dispatch(c) ==
  /\ job[c] = "queued"
  /\ \/ c \in contacts /\ job' = [job EXCEPT ![c] = "call"]
     \/ c \notin contacts /\ job' = [job EXCEPT ![c] = "dropped"]
     \/ job' = [job EXCEPT ![c] = "rejected"]
  /\ UNCHANGED <<contacts, request, mailVars, crashes>>

\* resend.emails.send: accepted, refused with an error, or rejected by the
\* network, before or after Resend accepted the mail.
CallResend(c) ==
  /\ job[c] = "call"
  /\ \E accepted \in BOOLEAN, answered \in BOOLEAN :
       /\ mails' = IF accepted THEN [mails EXCEPT ![c][kind[c]] = @ + 1] ELSE mails
       /\ outcome' = [outcome EXCEPT ![c] = IF accepted THEN "accepted" ELSE "failed"]
       /\ job' = [job EXCEPT ![c] = IF answered THEN "record" ELSE "recover"]
  /\ UNCHANGED <<contacts, request, kind, audit, crashes>>

\* After the mail of kind k: the notification is followed by the auto-reply.
NextMail(c) ==
  IF kind[c] = "notification"
  THEN kind' = [kind EXCEPT ![c] = "reply"] /\ job' = [job EXCEPT ![c] = "call"]
  ELSE UNCHANGED kind /\ job' = [job EXCEPT ![c] = "done"]

\* Saving an audit row with status s: it is stored or it is not, and the
\* save resolves only if it is.
SaveAudit(c, s, stored) ==
  audit' = IF stored THEN [audit EXCEPT ![c][kind[c]][s] = @ + 1] ELSE audit

\* A faulty variant: the row says accepted whatever Resend answered.
Record_AlwaysAccepted(c) ==
  /\ job[c] = "record"
  /\ SaveAudit(c, "accepted", TRUE)
  /\ NextMail(c)
  /\ UNCHANGED <<contacts, request, outcome, mails, crashes>>

\* The audit row for what Resend answered, saved inside the try block: when
\* the save rejects, the catch block is next.
Record(c) ==
  /\ job[c] = "record"
  /\ \E stored \in BOOLEAN, resolved \in BOOLEAN :
       /\ resolved => stored
       /\ SaveAudit(c, outcome[c], stored)
       /\ IF resolved THEN NextMail(c)
          ELSE job' = [job EXCEPT ![c] = "recover"] /\ UNCHANGED kind
  /\ UNCHANGED <<contacts, request, outcome, mails, crashes>>

\* A faulty variant: the catch block swallows its own failure.
Recover_Swallows(c) ==
  /\ job[c] = "recover"
  /\ \E stored \in BOOLEAN : SaveAudit(c, "failed", stored)
  /\ NextMail(c)
  /\ UNCHANGED <<contacts, request, outcome, mails, crashes>>

\* A faulty variant: the catch block starts the mail again.
Recover_Retries(c) ==
  /\ job[c] = "recover"
  /\ job' = [job EXCEPT ![c] = "call"]
  /\ UNCHANGED <<contacts, request, mailVars, crashes>>

\* The catch block saves a row with status failed; nothing catches a second
\* failure, which rejects the listener.
Recover(c) ==
  /\ job[c] = "recover"
  /\ \E stored \in BOOLEAN, resolved \in BOOLEAN :
       /\ resolved => stored
       /\ SaveAudit(c, "failed", stored)
       /\ IF resolved THEN NextMail(c)
          ELSE job' = [job EXCEPT ![c] = "rejected"] /\ UNCHANGED kind
  /\ UNCHANGED <<contacts, request, outcome, mails, crashes>>

-----------------------------------------------------------------------------
\* The process dies: requests get no answer, queued and running listeners
\* are forgotten.  Rows and accepted mails stay.
Crash ==
  /\ crashes < MaxCrashes
  /\ crashes' = crashes + 1
  /\ request' = [c \in Contacts |->
                   IF request[c] \in {"saving", "stored"} THEN "error" ELSE request[c]]
  /\ job' = [c \in Contacts |-> IF job[c] \in Running THEN "lost" ELSE job[c]]
  /\ UNCHANGED <<contacts, mailVars>>

\* An operator deletes a submission; no code of the server does.
DeleteContact(c) ==
  /\ c \in contacts
  /\ contacts' = contacts \ {c}
  /\ UNCHANGED <<request, job, mailVars, crashes>>

Finished ==
  /\ \A c \in Contacts : request[c] \in Answered /\ job[c] \notin Running
  /\ UNCHANGED vars

\* What the event loop, the database and Resend owe a submission.
Progress(c) ==
  \/ Store(c) \/ StoreFails(c) \/ Emit(c)
  \/ Dispatch(c) \/ CallResend(c) \/ Record(c) \/ Recover(c)

Next ==
  \/ \E c \in Contacts : Submit(c) \/ Progress(c) \/ DeleteContact(c)
  \/ Crash
  \/ Finished

Spec == Init /\ [][Next]_vars

\* A handler or listener that has begun is resumed; queries and calls to
\* Resend end, one way or another.
FairSpec == Spec /\ \A c \in Contacts : WF_vars(Progress(c))

-----------------------------------------------------------------------------
(***************************************************************************)
(* Properties.                                                             *)
(***************************************************************************)
Attempted(c, k) ==
  \/ mails[c][k] > 0
  \/ \E s \in Statuses : audit[c][k][s] > 0
  \/ kind[c] = k /\ job[c] \in {"record", "recover"}

Rows(c, k) == audit[c][k]["accepted"] + audit[c][k]["failed"]

TypeOK ==
  /\ contacts \subseteq Contacts
  /\ request \in [Contacts -> {"idle", "saving", "stored"} \cup Answered]
  /\ job     \in [Contacts -> {"none"} \cup Running \cup Ended]
  /\ kind    \in [Contacts -> Kinds]
  /\ outcome \in [Contacts -> Statuses]
  /\ mails   \in [Contacts -> [Kinds -> Nat]]
  /\ audit   \in [Contacts -> [Kinds -> [Statuses -> Nat]]]
  /\ crashes \in 0 .. MaxCrashes

\* Whatever fails, and however often the catch block runs, no visitor and no
\* owner gets the same mail twice.
NoMailTwice == \A c \in Contacts, k \in Kinds : mails[c][k] <= 1

\* The audit never claims a mail that Resend did not accept, and has at most
\* two rows for a mail, at most one of them accepted.
AuditClaimsNoUnsentMail ==
  \A c \in Contacts, k \in Kinds :
    /\ audit[c][k]["accepted"] <= mails[c][k]
    /\ Rows(c, k) <= 2

\* No attempt that a listener has left behind is missing from the audit: one
\* that ended well has left a row for each of its two mails, whatever failed
\* meanwhile, and a mail with two rows has one that says failed.
AttemptsAreAudited ==
  \A c \in Contacts, k \in Kinds :
    job[c] = "done" => /\ Rows(c, k) >= 1
                       /\ Rows(c, k) >= 2 => audit[c][k]["failed"] >= 1

\* sent-email.entity.ts: "Every Resend send attempt ... writes exactly one row".
EachAttemptWritesOneRow ==
  \A c \in Contacts, k \in Kinds : job[c] = "done" => Rows(c, k) = 1

\* The visitor is told that the message was received only after the owner's
\* notification has been tried and left a row in the audit.
ReplyFollowsNotification ==
  \A c \in Contacts : Attempted(c, "reply") => Rows(c, "notification") > 0

\* No step of a listener changes an answer: mail failures never reach the
\* client, and a submission that got an error is never mailed about.
MailsNeverChangeAnswers ==
  /\ \A c \in Contacts : request[c] = "error" => job[c] = "none"
  /\ \A c \in Contacts : job[c] # "none" => request[c] = "created"

\* Every submission answered with 201 has its notification tried, unless the
\* process dies, the row is deleted or its query fails first.
SubmissionsAreNotified ==
  \A c \in Contacts :
    request[c] = "created" ~> \/ Attempted(c, "notification")
                              \/ job[c] \in {"lost", "dropped", "rejected"}

\* Every listener comes to an end.
ListenersEnd == \A c \in Contacts : job[c] \in Running ~> job[c] \in Ended
=============================================================================
