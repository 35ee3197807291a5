------------------------------ MODULE Requests ------------------------------
(***************************************************************************)
(* One HTTP request after the other on its way through the application:    *)
(* the parsers of Express, ThrottlerGuard, JwtAuthGuard, interceptor and    *)
(* pipes, the handler, and the AllExceptionsFilter.  What the handlers do   *)
(* to the tables is in the other modules; here a handler answers or throws. *)
(***************************************************************************)
EXTENDS Conversions, Routes

CONSTANTS
  Ips,       \* the clients, as trust proxy tells them apart
  Settings,  \* the *_THROTTLE_*_LIMITs: [login, contactWrite, reviewWrite, reviewRead]
  Ttl,       \* the length of a window, in ticks
  MaxTicks,  \* bound: how much time passes
  Loads      \* what is sent: [routes, inputs, total, production, storage, expires]

ASSUME TtlIsPositive == Ttl \in Nat \ {0}
ASSUME LimitsArePositive ==
  \A s \in {"login", "contactWrite", "reviewWrite", "reviewRead"} : Settings[s] \in Nat \ {0}
ASSUME AbsentIsNoText == Absent \notin {"true", "TRUE", "false", "FALSE"} /\ Absent \notin BOOLEAN
ASSUME QueriesHaveTags ==
  \A i \in DOMAIN Loads : \A q \in Loads[i].inputs.works :
    /\ "isPublished" \in DOMAIN q
    /\ {q.tags, q.stored} \subseteq Seq([word : STRING, odd : BOOLEAN])
ASSUME FormsAreTexts ==
  \A i \in DOMAIN Loads : \A form \in Loads[i].inputs.contact :
    form.valid => {form.name, form.email, form.subject, form.message} \subseteq Seq(STRING)
ASSUME ExpiriesAreNumbers == \A i \in DOMAIN Loads : \A d \in Loads[i].expires : d.n \in Nat

VARIABLES
  hits,      \* per handler and client: the hits that count, as [nr, left]
  blocked,   \* per handler and client: the ticks until its block ends
  admitted,  \* history: per public route and client, the requests of the last
             \* window but for the 429s, as [nr, left]
  last,      \* the last request and its answer
  load,      \* what is sent in this behaviour, as an element of DOMAIN Loads
  expires,   \* JWT_EXPIRES_IN
  sent, ticks

throttle == <<hits, blocked>>
config == <<load, expires>>
vars == <<throttle, admitted, last, config, sent, ticks>>

Counted(route) == route.limit # "skip"
Keys == {route.name : route \in {r \in Routes : Counted(r)}} \X Ips
PublicKeys == {route.name : route \in {r \in Routes : r.guard = "none"}} \X Ips
NoRequest == [route |-> Absent, status |-> 0]
Setting == Loads[load]

Init ==
  /\ hits = [key \in Keys |-> {}]
  /\ blocked = [key \in Keys |-> 0]
  /\ admitted = [key \in PublicKeys |-> {}]
  /\ last = NoRequest
  /\ load \in DOMAIN Loads /\ expires \in Setting.expires
  /\ sent = 0 /\ ticks = 0

-----------------------------------------------------------------------------
(* ThrottlerGuard keeps a counter per handler and client in the memory of    *)
(* the process.  The hit after the limit blocks the client for a window.     *)

ThrottledLogin == Settings.login
ThrottledContactWrite == Settings.contactWrite
ThrottledWrite == Settings.reviewWrite
ThrottledRead == Settings.reviewRead
DefaultTracker == Min({ThrottledWrite, ThrottledContactWrite})

LimitOf(route) ==
  CASE route.limit = "login" -> ThrottledLogin
    [] route.limit = "contactWrite" -> ThrottledContactWrite
    [] route.limit = "reviewWrite" -> ThrottledWrite
    [] route.limit = "reviewRead" -> ThrottledRead
    [] route.limit = "default" -> DefaultTracker

\* The request under way: its number, and the ticks until it counts no more.
ThisHit == [nr |-> sent, left |-> Ttl]

Hit(route, ip) ==
  LET key == <<route.name, ip>>
  IN \/ ~Counted(route) /\ UNCHANGED throttle
     \/ Counted(route) /\ blocked[key] > 0 /\ UNCHANGED throttle
     \/ /\ Counted(route) /\ blocked[key] = 0
        /\ hits' = [hits EXCEPT ![key] = @ \cup {ThisHit}]
        /\ blocked' = [blocked EXCEPT ![key] =
                         IF Cardinality(hits[key]) >= LimitOf(route) THEN Ttl ELSE 0]

IsBlocked(route, ip) == Counted(route) /\ blocked'[<<route.name, ip>>] > 0

Older(some) ==
  {[nr |-> hit.nr, left |-> hit.left - 1] : hit \in {h \in some : h.left > 1}}

\* Hits expire one by one; the end of a block forgets them all.
Tick ==
  /\ ticks < MaxTicks
  /\ ticks' = ticks + 1
  /\ blocked' = [key \in Keys |-> IF blocked[key] = 0 THEN 0 ELSE blocked[key] - 1]
  /\ hits' = [key \in Keys |-> IF blocked[key] = 1 THEN {} ELSE Older(hits[key])]
  /\ admitted' = [key \in PublicKeys |-> Older(admitted[key])]
  /\ UNCHANGED <<last, config, sent>>

\* The counters are in no database: a restart begins with none.
Restart ==
  /\ \E key \in Keys : hits[key] # {}
  /\ hits' = [key \in Keys |-> {}]
  /\ blocked' = [key \in Keys |-> 0]
  /\ admitted' = [key \in PublicKeys |-> {}]
  /\ UNCHANGED <<last, config, sent, ticks>>

-----------------------------------------------------------------------------
(* AllExceptionsFilter.  An exception is http when it is one of Nest's, and  *)
(* named when its response brings a label along.                             *)

HttpError(status) == [status |-> status, http |-> TRUE, named |-> TRUE]
GuardError(status) == [status |-> status, http |-> TRUE, named |-> FALSE]
RawError == [status |-> 500, http |-> FALSE, named |-> FALSE]

STATUS_LABELS == {400, 401, 403, 404, 409, 429, 500}

Label(e) ==
  CASE e.named -> "its own"
    [] ~e.named /\ e.status \in STATUS_LABELS -> "standard"
    [] OTHER -> "Error"

\* A faulty variant: the message of any exception is passed on.
Catch_PassesMessages(e) ==
  [status |-> e.status, label |-> Label(e), raw |-> ~e.http,
   message |-> "of the exception", logged |-> e.status >= 500 \/ ~e.http]

Catch(e) ==
  [status |-> e.status, label |-> Label(e), raw |-> ~e.http,
   message |-> IF e.http \/ ~Setting.production THEN "of the exception" ELSE "generic",
   logged |-> e.status >= 500 \/ ~e.http]

Success(route) ==
  [status |-> route.status, label |-> "none", raw |-> FALSE, message |-> "none", logged |-> FALSE]

-----------------------------------------------------------------------------
\* ParseUUIDPipe and the ValidationPipe, with the DTO of the route.
PipesAccept(route, input) ==
  /\ route.param = "uuid" => input.id = "uuid"
  /\ CASE route.takes \in {"body", "contact"} -> input.valid
       [] route.takes \in {"page", "works"} -> PageSizeIsValid(input.pageSize)
       [] route.takes = "project" -> IsUniqueUrlInArray(input.urls)
       [] OTHER -> TRUE

\* Signing or storing a cover image without the settings of the storage.
StorageErrors(route) ==
  IF 500 \in route.throws /\ ~Setting.storage THEN {HttpError(500)} ELSE {}

\* What the handler may throw: what it says, and errors of the database or
\* the storage, which only getProfile does without.
HandlerErrors(route, input) ==
  IF route.takes = "image" /\ UploadRefusals(input.file) # {}
  THEN {HttpError(status) : status \in UploadRefusals(input.file)}
  ELSE {HttpError(status) : status \in route.throws \ {400, 500}}
         \cup StorageErrors(route)
         \cup (IF route.name = "getProfile" THEN {} ELSE {RawError})

\* An upload without a storage, or of what is no image, cannot succeed.
MaySucceed(route, input) ==
  route.takes = "image" => Setting.storage /\ UploadRefusals(input.file) = {}

Reply(route, ip, token, input, answer) ==
  /\ last' = [route |-> route, token |-> token, reading |-> "read", input |-> input,
              answer |-> answer, status |-> answer.status]
  /\ admitted' = IF route.guard = "none" /\ answer.status # 429
                 THEN [admitted EXCEPT ![<<route.name, ip>>] = @ \cup {ThisHit}]
                 ELSE admitted

Authorised(route, token) == route.guard = "jwt" => token = "valid"

-----------------------------------------------------------------------------
(* Nest puts Express' body parsers in front of every route, and so of its   *)
(* guards, and Express decodes the path.  What they cannot read the filter  *)
(* answers at once: a SyntaxError or a URIError as a BadRequestException,   *)
(* and any other error (a body that is too large or in an unknown charset)  *)
(* as what it is, none of Nest's.                                           *)

ReadError(reading) == IF reading = "malformed" THEN HttpError(400) ELSE RawError

\* Neither the counters nor the token are looked at.
Unread(route, token, reading) ==
  LET answer == Catch(ReadError(reading))
  IN /\ sent' = sent + 1
     /\ last' = [route |-> route, token |-> token, reading |-> reading, input |-> Absent,
                 answer |-> answer, status |-> answer.status]
     /\ UNCHANGED <<throttle, admitted, config, ticks>>

\* The handler is reached.
Handle(route, ip, token, input) ==
  \/ MaySucceed(route, input) /\ Reply(route, ip, token, input, Success(route))
  \/ \E e \in HandlerErrors(route, input) : Reply(route, ip, token, input, Catch(e))

\* A faulty variant: pipes before guards, as for a middleware.
Request_PipesFirst(route, ip, token, input) ==
  /\ sent' = sent + 1
  /\ \/ /\ ~PipesAccept(route, input)
        /\ Reply(route, ip, token, input, Catch(HttpError(400)))
        /\ UNCHANGED throttle
     \/ /\ PipesAccept(route, input)
        /\ Hit(route, ip)
        /\ \/ IsBlocked(route, ip) /\ Reply(route, ip, token, input, Catch(GuardError(429)))
           \/ /\ ~IsBlocked(route, ip) /\ ~Authorised(route, token)
              /\ Reply(route, ip, token, input, Catch(GuardError(401)))
           \/ /\ ~IsBlocked(route, ip) /\ Authorised(route, token)
              /\ Handle(route, ip, token, input)
  /\ UNCHANGED <<config, ticks>>

\* The guards in their order, then the pipes, then the handler, for a request
\* that was read.
Request(route, ip, token, input) ==
  /\ sent' = sent + 1
  /\ Hit(route, ip)
  /\ \/ IsBlocked(route, ip) /\ Reply(route, ip, token, input, Catch(GuardError(429)))
     \/ /\ ~IsBlocked(route, ip) /\ ~Authorised(route, token)
        /\ Reply(route, ip, token, input, Catch(GuardError(401)))
     \/ /\ ~IsBlocked(route, ip) /\ Authorised(route, token) /\ ~PipesAccept(route, input)
        /\ Reply(route, ip, token, input, Catch(HttpError(400)))
     \/ /\ ~IsBlocked(route, ip) /\ Authorised(route, token) /\ PipesAccept(route, input)
        /\ Handle(route, ip, token, input)
  /\ UNCHANGED <<config, ticks>>

Next ==
  \/ Tick \/ Restart
  \/ /\ sent < Setting.total
     /\ \E route \in {r \in Routes : r.name \in Setting.routes}, ip \in Ips :
        \E token \in (IF route.guard = "jwt" THEN {"valid", "bad", "none"} ELSE {"none"}) :
          \/ \E reading \in {"malformed", "unreadable"} : Unread(route, token, reading)
          \/ \E input \in Setting.inputs[route.takes] : Request(route, ip, token, input)

Spec == Init /\ [][Next]_vars

-----------------------------------------------------------------------------
(***************************************************************************)
(* Properties.                                                             *)
(***************************************************************************)

Is(name) == last.route # Absent /\ last.route.takes = name
Succeeded == last.status \in 200 .. 299

\* The limits README.md and the configuration name.
LimitedRoutes ==
  {"login", "contacts.create", "reviews.create", "reviews.addComment",
   "reviews.findAllApproved", "reviews.findApprovedCommentsByReviewId"}
Promised(name) ==
  CASE name = "login" -> Settings.login
    [] name = "contacts.create" -> Settings.contactWrite
    [] name \in {"reviews.create", "reviews.addComment"} -> Settings.reviewWrite
    [] name \in {"reviews.findAllApproved", "reviews.findApprovedCommentsByReviewId"} -> Settings.reviewRead

\* A client gets no more answers from a route in a window than the limit of
\* its domain, refused requests and bodies that the DTO refuses included, of
\* those that could be read; and what it sends while it is blocked costs no
\* memory.
LimitHolds ==
  /\ \A name \in LimitedRoutes, ip \in Ips :
       Cardinality(admitted[<<name, ip>>]) <= Promised(name)
  /\ \A route \in {r \in Routes : Counted(r)}, ip \in Ips :
       Cardinality(hits[<<route.name, ip>>]) <= LimitOf(route) + 1

\* Of a guarded route nobody without a token learns anything but a 401, not
\* what its pipes or its handler would have said, and nobody with one gets it,
\* whatever was sent.  Only a request that cannot be read is answered before
\* the token is looked at, the same whoever sends it.
TokensDecide ==
  last.route # Absent /\ last.route.guard = "jwt" =>
    (last.status = 401 <=> last.reading = "read" /\ last.token # "valid")

\* In production no error that is not Nest's own lends its message to an
\* answer, and each of them is logged.
ProductionHidesErrors ==
  last.route # Absent /\ last.answer.raw =>
    /\ last.answer.logged
    /\ Setting.production => last.answer.message = "generic"

\* The expiresIn and the Max-Age that login answers with are those of the
\* token: for a unit that is known, at most a second more.
ExpiresInIsTheTokens ==
  last.route # Absent /\ last.route.name = "login" /\ Succeeded /\ expires.unit \in KnownUnits =>
    DurationStringToSeconds(expires) - TokenSeconds(expires) \in {0, 1}

\* A form whose texts have neither a pattern of replaceAll nor a placeholder
\* that is filled in after them, is quoted as it was sent.
Text(row, symbol) ==
  CASE symbol = "name" -> row.name [] symbol = "email" -> row.email
    [] symbol = "subject" -> row.subject [] symbol = "message" -> row.message
    [] OTHER -> <<symbol>>
SinglePass(template, row) ==
  FlattenSeq([i \in DOMAIN template |-> Text(row, template[i])])
Harmless(row) ==
  \A i \in 1 .. 4 : \A j \in DOMAIN Text(row, Fields[i]) :
    Text(row, Fields[i])[j] \notin Patterns \cup {Fields[k] : k \in i + 1 .. 4}
MailsQuoteTheForm ==
  Is("contact") /\ Succeeded /\ Harmless(last.input) =>
    \A template \in Templates : Substitute(template, last.input) = SinglePass(template, last.input)

\* Whatever a visitor writes, the mail has all the rest of the form and all
\* of its own copy, every one at its place: patterns and placeholders bring
\* other text in or are used up themselves, and push nothing else out.
OnlyWords(text) ==
  SelectSeq(text, LAMBDA symbol : symbol \notin Patterns \cup ToSet(Fields))
WordsOf(row) ==
  [row EXCEPT !.name = OnlyWords(@), !.email = OnlyWords(@),
              !.subject = OnlyWords(@), !.message = OnlyWords(@)]
Within(part, whole) ==
  FoldLeft(LAMBDA n, x : IF n < Len(part) /\ x = part[n + 1] THEN n + 1 ELSE n, 0, whole) = Len(part)
MailsLoseNoWord ==
  Is("contact") /\ Succeeded =>
    \A template \in Templates :
      Within(SinglePass(template, WordsOf(last.input)), Substitute(template, last.input))

\* A list asked for ?tags=a,b finds every project that was given these tags,
\* however either of them is spelled; ?isPublished=false lists no published
\* project; and the public list, not asked, has none that is not published.
Words(tags) == {tags[i].word : i \in DOMAIN tags} \ {""}
ListsFindWhatIsAsked ==
  Is("works") /\ Succeeded =>
    LET of(published) == [published |-> published, tags |-> StoredTags(last.input.stored)]
    IN /\ last.input.csv => \A published \in BOOLEAN :
            FindAllForAdmin([last.input EXCEPT !.isPublished = Absent], of(published))
              <=> Words(last.input.tags) \subseteq Words(last.input.stored)
       /\ last.input.isPublished \in {"false", "FALSE"} =>
            ~FindPublic(last.input, of(TRUE)) /\ ~FindAllForAdmin(last.input, of(TRUE))
       /\ last.input.isPublished = Absent => ~FindPublic(last.input, of(FALSE))
=============================================================================
