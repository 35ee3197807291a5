--------------------------- MODULE RequestsProofs ---------------------------
(***************************************************************************)
(* Proofs about Requests, for any clients, settings, inputs and loads: what *)
(* a guarded route answers, what an error of the database shows, the life   *)
(* of a token that login announces, what the lists of projects find, how   *)
(* many requests a route with a limit answers, and what a mail quotes.     *)
(***************************************************************************)
EXTENDS Requests, SequenceTheorems, FiniteSetTheorems, TLAPS

\* What TokensDecide rests on, of the decorators of the guarded routes.
IsAdmin(route) ==
  route.guard = "jwt" =>
    /\ route.limit = "skip"
    /\ route.status \in {200, 201, 204}
    /\ route.throws \subseteq {400, 404, 409, 500}

LEMMA GuardedRoutes == \A route \in Routes : IsAdmin(route)
<1> USE DEF IsAdmin, Public, Admin, Route
<1>1. \A route \in AuthRoutes \cup ContactRoutes \cup ContactAdminRoutes : IsAdmin(route)
  BY DEF AuthRoutes, ContactRoutes, ContactAdminRoutes
<1>2. \A route \in ReviewRoutes : IsAdmin(route)
  BY DEF ReviewRoutes
<1>3. \A route \in ReviewAdminRoutes : IsAdmin(route)
  BY DEF ReviewAdminRoutes
<1>4. \A route \in ProjectRoutes : IsAdmin(route)
  BY DEF ProjectRoutes
<1>5. \A route \in UploadRoutes \cup StatsRoutes : IsAdmin(route)
  BY DEF UploadRoutes, StatsRoutes
<1> QED
  BY <1>1, <1>2, <1>3, <1>4, <1>5 DEF Routes

\* What the filter makes of an exception.
LEMMA Caught ==
  ASSUME NEW e
  PROVE  /\ Catch(e).status = e.status
         /\ Catch(e).raw = ~e.http
         /\ ~e.http => Catch(e).logged /\ (Setting.production => Catch(e).message = "generic")
BY DEF Catch

\* The statuses a handler behind the guard can throw.
LEMMA Thrown ==
  ASSUME NEW route \in Routes, route.guard = "jwt", NEW input,
         NEW e \in HandlerErrors(route, input)
  PROVE  e.status \in {400, 404, 409, 413, 500}
<1>1. IsAdmin(route)
  BY GuardedRoutes
<1>2. UploadRefusals(input.file) \subseteq {400, 413}
  <2>1. UploadRefusals(input.file) \in {{400}, {413}, {}}
    BY DEF UploadRefusals
  <2> QED
    BY <2>1
<1>3. CASE route.takes = "image" /\ UploadRefusals(input.file) # {}
  <2>1. PICK status \in UploadRefusals(input.file) : e = HttpError(status)
    BY <1>3 DEF HandlerErrors
  <2> QED
    BY <1>2, <2>1 DEF HttpError
<1>4. CASE ~(route.takes = "image" /\ UploadRefusals(input.file) # {})
  <2>1. \/ \E status \in route.throws \ {400, 500} : e = HttpError(status)
        \/ e = HttpError(500)
        \/ e = RawError
    BY <1>4 DEF HandlerErrors, StorageErrors
  <2> QED
    BY <1>1, <2>1 DEF HttpError, RawError, IsAdmin
<1> QED
  BY <1>3, <1>4

\* Every request ends in one of these answers.
LEMMA Answers ==
  ASSUME NEW route \in Routes, NEW ip, NEW token, NEW input,
         Request(route, ip, token, input)
  PROVE  \E answer :
           /\ last' = [route |-> route, token |-> token, reading |-> "read", input |-> input,
                       answer |-> answer, status |-> answer.status]
           /\ \/ IsBlocked(route, ip) /\ answer = Catch(GuardError(429))
              \/ ~Authorised(route, token) /\ answer = Catch(GuardError(401))
              \/ Authorised(route, token) /\ answer = Catch(HttpError(400))
              \/ Authorised(route, token) /\ answer = Success(route)
              \/ /\ Authorised(route, token)
                 /\ \E e \in HandlerErrors(route, input) : answer = Catch(e)
BY DEF Request, Reply, Handle

LEMMA RequestTokens ==
  ASSUME NEW route \in Routes, NEW ip, NEW token, NEW input,
         Request(route, ip, token, input)
  PROVE  TokensDecide'
<1> SUFFICES ASSUME last'.route # Absent, last'.route.guard = "jwt"
             PROVE  last'.status = 401 <=> last'.reading = "read" /\ last'.token # "valid"
  BY DEF TokensDecide
<1>1. PICK answer :
        /\ last' = [route |-> route, token |-> token, reading |-> "read", input |-> input,
                    answer |-> answer, status |-> answer.status]
        /\ \/ IsBlocked(route, ip) /\ answer = Catch(GuardError(429))
           \/ ~Authorised(route, token) /\ answer = Catch(GuardError(401))
           \/ Authorised(route, token) /\ answer = Catch(HttpError(400))
           \/ Authorised(route, token) /\ answer = Success(route)
           \/ /\ Authorised(route, token)
              /\ \E e \in HandlerErrors(route, input) : answer = Catch(e)
  BY Answers
<1>2. /\ last'.route = route /\ last'.token = token /\ last'.status = answer.status
      /\ last'.reading = "read"
  BY <1>1
<1>3. IsAdmin(route) /\ route.guard = "jwt" /\ ~IsBlocked(route, ip)
  BY <1>2, GuardedRoutes DEF IsAdmin, IsBlocked, Counted
<1>4. CASE ~Authorised(route, token) /\ answer = Catch(GuardError(401))
  <2>1. answer.status = 401
    BY <1>4, Caught DEF GuardError
  <2> QED
    BY <1>2, <1>3, <1>4, <2>1 DEF Authorised
<1>5. CASE Authorised(route, token) /\ answer.status \in {200, 201, 204, 400, 404, 409, 413, 500}
  BY <1>2, <1>3, <1>5 DEF Authorised
<1>6. CASE Authorised(route, token) /\ answer = Catch(HttpError(400))
  BY <1>5, <1>6, Caught DEF HttpError
<1>7. CASE Authorised(route, token) /\ answer = Success(route)
  BY <1>3, <1>5, <1>7 DEF Success, IsAdmin
<1>8. CASE /\ Authorised(route, token)
           /\ \E e \in HandlerErrors(route, input) : answer = Catch(e)
  <2>1. PICK e \in HandlerErrors(route, input) : answer = Catch(e)
    BY <1>8
  <2>2. e.status \in {400, 404, 409, 413, 500}
    BY <1>3, Thrown
  <2> QED
    BY <1>5, <1>8, <2>1, <2>2, Caught
<1> QED
  BY <1>1, <1>3, <1>4, <1>6, <1>7, <1>8

LEMMA RequestErrors ==
  ASSUME NEW route \in Routes, NEW ip, NEW token, NEW input,
         Request(route, ip, token, input)
  PROVE  ProductionHidesErrors'
<1>1. PICK answer :
        /\ last' = [route |-> route, token |-> token, reading |-> "read", input |-> input,
                    answer |-> answer, status |-> answer.status]
        /\ (\E e : answer = Catch(e)) \/ answer = Success(route)
  BY Answers
<1>2. last'.answer = answer /\ Setting' = Setting
  BY <1>1 DEF Request, config, Setting
<1>3. CASE answer = Success(route)
  BY <1>2, <1>3 DEF Success, ProductionHidesErrors
<1>4. CASE \E e : answer = Catch(e)
  <2>1. PICK e : answer = Catch(e)
    BY <1>4
  <2>2. answer.raw => ~e.http
    BY <2>1, Caught
  <2> QED
    BY <1>2, <2>1, <2>2, Caught DEF ProductionHidesErrors
<1> QED
  BY <1>1, <1>3, <1>4

\* What cannot be read is answered by the filter alone, with a 400 or a 500.
LEMMA UnreadAnswer ==
  ASSUME NEW route, NEW token, NEW reading \in {"malformed", "unreadable"},
         Unread(route, token, reading)
  PROVE  /\ last'.route = route /\ last'.reading # "read"
         /\ last'.answer = Catch(ReadError(reading))
         /\ last'.status \in {400, 500}
         /\ UNCHANGED <<throttle, admitted, config>> /\ sent' = sent + 1
<1>1. Catch(ReadError(reading)).status \in {400, 500}
  BY Caught DEF ReadError, HttpError, RawError
<1> QED
  BY <1>1 DEF Unread

LEMMA UnreadKeeps ==
  ASSUME NEW route, NEW token, NEW reading \in {"malformed", "unreadable"},
         Unread(route, token, reading)
  PROVE  TokensDecide' /\ ProductionHidesErrors'
<1>1. TokensDecide'
  BY UnreadAnswer DEF TokensDecide
<1>2. last'.answer = Catch(ReadError(reading)) /\ Setting' = Setting
  BY UnreadAnswer DEF config, Setting
<1>3. ProductionHidesErrors'
  BY <1>2, Caught DEF ProductionHidesErrors
<1> QED
  BY <1>1, <1>3

\* The steps, with what matters of their parameters.
LEMMA NextSteps ==
  ASSUME [Next]_vars
  PROVE  \/ UNCHANGED vars
         \/ Tick
         \/ Restart
         \/ \E route \in Routes : \E token : \E reading \in {"malformed", "unreadable"} :
              Unread(route, token, reading)
         \/ \E route \in Routes, ip \in Ips : \E token : \E input \in Setting.inputs[route.takes] :
              Request(route, ip, token, input)
BY DEF Next

-----------------------------------------------------------------------------
LEMMA AtFirst == Init => TokensDecide /\ ProductionHidesErrors
BY DEF Init, NoRequest, TokensDecide, ProductionHidesErrors

LEMMA StepKeeps ==
  ASSUME TokensDecide, ProductionHidesErrors, [Next]_vars
  PROVE  TokensDecide' /\ ProductionHidesErrors'
<1>1. CASE last' = last /\ load' = load
  BY <1>1 DEF TokensDecide, ProductionHidesErrors, Setting
<1>2. CASE \E route \in Routes : \E ip, token, input : Request(route, ip, token, input)
  BY <1>2, RequestTokens, RequestErrors
<1>3. CASE \E route \in Routes : \E token : \E reading \in {"malformed", "unreadable"} :
             Unread(route, token, reading)
  BY <1>3, UnreadKeeps
<1> QED
  BY <1>1, <1>2, <1>3, NextSteps DEF Tick, Restart, vars, config

\* For any clients, limits, inputs and traffic, a guarded route answers 401
\* exactly to the requests that could be read and have no valid token:
\* JwtAuthGuard stands before pipes and handler, and the throttler before it
\* skips what it guards.
THEOREM TokensCorrect == Spec => []TokensDecide
BY AtFirst, StepKeeps, PTL DEF Spec

\* For any inputs and traffic, the message of an error that is not one of
\* Nest's is logged and, in production, not passed on by AllExceptionsFilter.
THEOREM ErrorsCorrect == Spec => []ProductionHidesErrors
BY AtFirst, StepKeeps, PTL DEF Spec

-----------------------------------------------------------------------------
LEMMA MaxWithOne ==
  ASSUME NEW n \in Nat
  PROVE  Max({1, n}) = IF n = 0 THEN 1 ELSE n
<1> DEFINE m == IF n = 0 THEN 1 ELSE n
<1>1. m \in {1, n} /\ \A y \in {1, n} : m >= y
  OBVIOUS
<1>2. \A x \in {1, n} : (\A y \in {1, n} : x >= y) => x = m
  OBVIOUS
<1> HIDE DEF m
<1>3. Max({1, n}) = CHOOSE x \in {1, n} : \A y \in {1, n} : x >= y
  BY DEF Max
<1>4. Max({1, n}) = m
  BY <1>1, <1>2, <1>3
<1> QED
  BY <1>4 DEF m

\* durationStringToSeconds rounds milliseconds, and never to 0; the signature
\* cuts them off.
LEMMA DurationsAgree ==
  ASSUME NEW d, d.n \in Nat, d.unit \in KnownUnits
  PROVE  DurationStringToSeconds(d) - TokenSeconds(d) \in {0, 1}
<1>1. CASE d.unit = "ms"
  <2>1. /\ DurationStringToSeconds(d) = Max({1, (d.n + 500) \div 1000})
        /\ TokenSeconds(d) = d.n \div 1000
    BY <1>1 DEF DurationStringToSeconds, TokenSeconds, Millis
  <2>2. (d.n + 500) \div 1000 \in Nat
    OBVIOUS
  <2>3. DurationStringToSeconds(d) = IF (d.n + 500) \div 1000 = 0 THEN 1 ELSE (d.n + 500) \div 1000
    BY <2>1, <2>2, MaxWithOne
  <2> QED
    BY <2>1, <2>3
<1>2. CASE d.unit \in KnownUnits \ {"ms"}
  <2>1. Millis(d) \in Nat
    BY <1>2 DEF Millis, KnownUnits
  <2>2. /\ DurationStringToSeconds(d) = Millis(d) \div 1000
        /\ TokenSeconds(d) = Millis(d) \div 1000
    BY <1>2 DEF DurationStringToSeconds, TokenSeconds
  <2> QED
    BY <2>1, <2>2
<1> QED
  BY <1>1, <1>2

\* For every JWT_EXPIRES_IN with a unit of the pattern, login answers with the
\* life of the token it has signed, or with one second more.
THEOREM ExpiryCorrect == Spec => []ExpiresInIsTheTokens
<1> DEFINE Fits == expires.n \in Nat
<1>1. Init => Fits
  BY ExpiriesAreNumbers DEF Init, Setting
<1>2. Fits /\ [Next]_vars => Fits'
  <2>1. Tick \/ Restart \/ UNCHANGED vars => expires' = expires
    BY DEF Tick, Restart, vars, config
  <2>2. ASSUME NEW route, NEW ip, NEW token, NEW input, Request(route, ip, token, input)
        PROVE  expires' = expires
    BY <2>2 DEF Request, config
  <2>3. ASSUME NEW route, NEW token, NEW reading, Unread(route, token, reading)
        PROVE  expires' = expires
    BY <2>3 DEF Unread, config
  <2>4. [Next]_vars => expires' = expires
    BY <2>1, <2>2, <2>3, NextSteps
  <2> QED
    BY <2>4
<1>3. Fits => ExpiresInIsTheTokens
  BY DurationsAgree DEF ExpiresInIsTheTokens
<1> QED
  BY <1>1, <1>2, <1>3, PTL DEF Spec

-----------------------------------------------------------------------------
LEMMA Members == ASSUME NEW S, NEW s \in Seq(S), NEW i \in DOMAIN s PROVE s[i] \in S
OBVIOUS

\* Two normalised tags are equal when their words are.
LEMMA SameWords ==
  ASSUME NEW tags \in Seq([word : STRING, odd : BOOLEAN])
  PROVE  /\ Normals(tags) = {[word |-> w, odd |-> FALSE] : w \in Words(tags)}
         /\ Words(tags) = {t.word : t \in Normals(tags)}
<1> DEFINE tag(w) == [word |-> w, odd |-> FALSE]
<1>1. ASSUME NEW i \in DOMAIN tags
      PROVE  Normal(tags[i]) = tag(tags[i].word)
  <2>1. tags[i] \in [word : STRING, odd : BOOLEAN]
    BY Members
  <2>2. \A r \in [word : STRING, odd : BOOLEAN] :
          [r EXCEPT !.odd = FALSE] = [word |-> r.word, odd |-> FALSE]
    <3> TAKE r \in [word : STRING, odd : BOOLEAN]
    <3> DEFINE e == [r EXCEPT !.odd = FALSE]
               m == [word |-> r.word, odd |-> FALSE]
    <3>1. DOMAIN r = {"word", "odd"}
      OBVIOUS
    <3>2. DOMAIN e = DOMAIN m
      BY <3>1
    <3>3. e.word = m.word /\ e.odd = m.odd
      BY <3>1
    <3> QED
      BY <3>1, <3>2, <3>3
  <2> QED
    BY <2>1, <2>2 DEF Normal
<1>2. Normals(tags) = {tag(w) : w \in Words(tags)}
  <2>1. Normals(tags) = {tag(tags[i].word) : i \in {j \in DOMAIN tags : tags[j].word # ""}}
    BY <1>1 DEF Normals
  <2> HIDE DEF tag
  <2> QED
    BY <2>1 DEF Words
<1>3. \A w : tag(w).word = w
  OBVIOUS
<1> HIDE DEF tag
<1>4. Words(tags) = {t.word : t \in Normals(tags)}
  BY <1>2, <1>3
<1> QED
  BY <1>2, <1>4 DEF tag

LEMMA TagsAgree ==
  ASSUME NEW tags \in Seq([word : STRING, odd : BOOLEAN]),
         NEW stored \in Seq([word : STRING, odd : BOOLEAN])
  PROVE  Normals(tags) \subseteq StoredTags(stored) <=> Words(tags) \subseteq Words(stored)
BY SameWords DEF StoredTags

\* What the lists ask of the flag of a project.
LEMMA FlagsAgree ==
  /\ QueryBoolean(Absent) = Absent
  /\ QueryBoolean("false") = FALSE /\ QueryBoolean("FALSE") = FALSE
<1>1. /\ Absent # "true" /\ Absent # "TRUE"
      /\ Absent # "false" /\ Absent # "FALSE"
  BY AbsentIsNoText
<1> QED
  BY <1>1 DEF QueryBoolean

\* What has succeeded is one of the inputs that were sent.
QueryWasSent ==
  /\ load \in DOMAIN Loads
  /\ last.route # Absent /\ Succeeded => last.input \in Setting.inputs[last.route.takes]

LEMMA SentAtFirst == Init => QueryWasSent
BY DEF Init, NoRequest, QueryWasSent

LEMMA StepSends == ASSUME QueryWasSent, [Next]_vars PROVE QueryWasSent'
<1>1. CASE last' = last /\ load' = load
  BY <1>1 DEF QueryWasSent, Setting, Succeeded
<1>2. CASE \E route \in Routes, ip \in Ips : \E token : \E input \in Setting.inputs[route.takes] :
             Request(route, ip, token, input)
  <2> PICK route \in Routes : \E ip, token : \E input \in Setting.inputs[route.takes] :
          Request(route, ip, token, input)
    BY <1>2
  <2> PICK ip, token : \E input \in Setting.inputs[route.takes] : Request(route, ip, token, input)
    OBVIOUS
  <2>1. PICK input \in Setting.inputs[route.takes] : Request(route, ip, token, input)
    OBVIOUS
  <2>2. last'.route = route /\ last'.input = input
    BY <2>1, Answers
  <2>3. load' = load
    BY <2>1 DEF Request, config
  <2>4. last'.input \in Loads[load'].inputs[last'.route.takes]
    BY <2>1, <2>2, <2>3 DEF Setting
  <2> QED
    BY <2>3, <2>4 DEF QueryWasSent, Setting
<1>3. CASE \E route \in Routes : \E token : \E reading \in {"malformed", "unreadable"} :
             Unread(route, token, reading)
  <2>1. last'.status \in {400, 500} /\ load' = load
    BY <1>3, UnreadAnswer DEF config
  <2> QED
    BY <2>1 DEF QueryWasSent, Succeeded
<1> QED
  BY <1>1, <1>2, <1>3, NextSteps DEF Tick, Restart, vars, config

LEMMA ListsFind ==
  ASSUME QueryWasSent, Is("works"), Succeeded
  PROVE  ListsFindWhatIsAsked
<1> DEFINE q == last.input
           of(published) == [published |-> published, tags |-> StoredTags(q.stored)]
<1>1. /\ "isPublished" \in DOMAIN q
      /\ q.tags \in Seq([word : STRING, odd : BOOLEAN])
      /\ q.stored \in Seq([word : STRING, odd : BOOLEAN])
  BY QueriesHaveTags DEF QueryWasSent, Is, Setting
<1>2. ASSUME q.csv, NEW published \in BOOLEAN
      PROVE  FindAllForAdmin([q EXCEPT !.isPublished = Absent], of(published))
               <=> Words(q.tags) \subseteq Words(q.stored)
  <2> DEFINE any == [q EXCEPT !.isPublished = Absent]
  <2>1. any.isPublished = Absent /\ any.csv = q.csv /\ any.tags = q.tags
    BY <1>1
  <2>2. QueryTags(any) = Normals(q.tags)
    BY <1>2, <2>1 DEF QueryTags
  <2>3. FindAllForAdmin(any, of(published)) <=> Normals(q.tags) \subseteq StoredTags(q.stored)
    BY <2>1, <2>2, FlagsAgree DEF FindAllForAdmin
  <2> QED
    BY <1>1, <2>3, TagsAgree
<1>3. ASSUME q.isPublished \in {"false", "FALSE"}
      PROVE  ~FindPublic(q, of(TRUE)) /\ ~FindAllForAdmin(q, of(TRUE))
  BY <1>3, FlagsAgree, AbsentIsNoText DEF FindPublic, FindAllForAdmin
<1>4. ASSUME q.isPublished = Absent
      PROVE  ~FindPublic(q, of(FALSE))
  BY <1>4, FlagsAgree DEF FindPublic
<1> QED
  BY <1>2, <1>3, <1>4 DEF ListsFindWhatIsAsked

\* For all tags of a project and of a query, however they are spelled, the list
\* for ?tags=a,b is of the projects with these tags, and isPublished is what it
\* was sent as.
THEOREM ListsCorrect == Spec => []ListsFindWhatIsAsked
<1>1. QueryWasSent => ListsFindWhatIsAsked
  BY ListsFind DEF ListsFindWhatIsAsked
<1> QED
  BY <1>1, SentAtFirst, StepSends, PTL DEF Spec

-----------------------------------------------------------------------------
\* What LimitHolds rests on, of the decorators of the public routes: those with
\* a limit are the ones the documentation names, each with its own.
IsLimited(route) ==
  /\ Counted(route) <=> route.name \in LimitedRoutes
  /\ Counted(route) => route.guard = "none" /\ LimitOf(route) = Promised(route.name)

LEMMA LimitedAre == \A route \in Routes : IsLimited(route)
<1> USE DEF IsLimited, Public, Admin, Route, Counted, LimitedRoutes, LimitOf, Promised,
            ThrottledLogin, ThrottledContactWrite, ThrottledWrite, ThrottledRead
<1>1. \A route \in AuthRoutes \cup ContactRoutes \cup ContactAdminRoutes : IsLimited(route)
  BY DEF AuthRoutes, ContactRoutes, ContactAdminRoutes
<1>2. \A route \in ReviewRoutes : IsLimited(route)
  BY DEF ReviewRoutes
<1>3. \A route \in ReviewAdminRoutes : IsLimited(route)
  BY DEF ReviewAdminRoutes
<1>4. \A route \in ProjectRoutes : IsLimited(route)
  BY DEF ProjectRoutes
<1>5. \A route \in UploadRoutes \cup StatsRoutes : IsLimited(route)
  BY DEF UploadRoutes, StatsRoutes
<1> QED
  BY <1>1, <1>2, <1>3, <1>4, <1>5 DEF Routes

LEMMA KeysAre ==
  /\ Keys = LimitedRoutes \X Ips
  /\ Keys \subseteq PublicKeys
  /\ \A name \in LimitedRoutes : Promised(name) \in Nat \ {0}
<1>1. ASSUME NEW name \in LimitedRoutes
      PROVE  \E route \in Routes : route.name = name
  <2> DEFINE Named(routes) == \E route \in routes : route.name = name
  <2>1. name = "login" => Named(AuthRoutes)
    BY DEF AuthRoutes, Public, Route
  <2>2. name = "contacts.create" => Named(ContactRoutes)
    BY DEF ContactRoutes, Public, Route
  <2>3. name \in LimitedRoutes \ {"login", "contacts.create"} => Named(ReviewRoutes)
    BY DEF LimitedRoutes, ReviewRoutes, Public, Route
  <2> QED
    BY <2>1, <2>2, <2>3 DEF Routes
<1>2. {route.name : route \in {r \in Routes : Counted(r)}} = LimitedRoutes
  BY <1>1, LimitedAre DEF IsLimited
<1>3. LimitedRoutes \subseteq {route.name : route \in {r \in Routes : r.guard = "none"}}
  BY <1>1, LimitedAre DEF IsLimited
<1>4. \A name \in LimitedRoutes : Promised(name) \in Nat \ {0}
  BY LimitsArePositive DEF LimitedRoutes, Promised
<1> QED
  BY <1>2, <1>3, <1>4 DEF Keys, PublicKeys

HitRecord == [nr : Nat, left : 1 .. Ttl]

\* A counter that does not block has not passed its limit, and what it admitted
\* in the last window it still counts.  One that blocks has admitted no more
\* than its limit, all of which is older than the window when the block ends.
CounterHolds(key) ==
  LET limit == Promised(key[1]) IN
  /\ IsFiniteSet(hits[key]) /\ admitted[key] \subseteq hits[key]
  /\ blocked[key] = 0 => Cardinality(hits[key]) <= limit
  /\ blocked[key] > 0 =>
       /\ Cardinality(hits[key]) <= limit + 1
       /\ Cardinality(admitted[key]) <= limit
       /\ \A hit \in admitted[key] : hit.left <= blocked[key]

LimitInv ==
  /\ sent \in Nat
  /\ hits \in [Keys -> SUBSET HitRecord]
  /\ blocked \in [Keys -> Nat]
  /\ admitted \in [PublicKeys -> SUBSET HitRecord]
  /\ \A key \in Keys : CounterHolds(key)

LEMMA Counting ==
  ASSUME NEW S, IsFiniteSet(S)
  PROVE  /\ Cardinality(S) \in Nat
         /\ \A T \in SUBSET S : IsFiniteSet(T) /\ Cardinality(T) \in Nat /\ Cardinality(T) <= Cardinality(S)
         /\ \A x : IsFiniteSet(S \cup {x}) /\ Cardinality(S \cup {x}) <= Cardinality(S) + 1
BY FS_CardinalityType, FS_Subset, FS_AddElement

\* What a tick leaves of a set of hits.
LEMMA OlderHits ==
  ASSUME NEW S \in SUBSET HitRecord
  PROVE  /\ Older(S) \in SUBSET HitRecord
         /\ \A T \in SUBSET S : Older(T) \subseteq Older(S)
         /\ \A n \in Nat : (\A hit \in S : hit.left <= n) =>
              (\A hit \in Older(S) : hit.left <= n - 1) /\ (n = 1 => Older(S) = {})
         /\ IsFiniteSet(S) => IsFiniteSet(Older(S)) /\ Cardinality(Older(S)) <= Cardinality(S)
<1> DEFINE S0 == {h \in S : h.left > 1}
           f == [h \in S0 |-> [nr |-> h.nr, left |-> h.left - 1]]
<1>1. \A h \in S : h.nr \in Nat /\ h.left \in 1 .. Ttl
  BY DEF HitRecord
<1>2. \A h \in S0 : h.left - 1 \in 1 .. Ttl
  BY <1>1, TtlIsPositive
<1>3. Older(S) \in SUBSET HitRecord
  BY <1>1, <1>2 DEF Older, HitRecord
<1>4. \A T \in SUBSET S : Older(T) \subseteq Older(S)
  BY DEF Older
<1>5. ASSUME NEW n \in Nat, \A hit \in S : hit.left <= n
      PROVE  (\A hit \in Older(S) : hit.left <= n - 1) /\ (n = 1 => Older(S) = {})
  BY <1>1, <1>5, TtlIsPositive DEF Older
<1>6. ASSUME IsFiniteSet(S)
      PROVE  IsFiniteSet(Older(S)) /\ Cardinality(Older(S)) <= Cardinality(S)
  <2>1. IsFiniteSet(S0) /\ Cardinality(S0) \in Nat /\ Cardinality(S0) <= Cardinality(S) /\ Cardinality(S) \in Nat
    BY <1>6, Counting
  <2>2. f \in Surjection(S0, Older(S))
    BY DEF Older, Surjection
  <2>3. IsFiniteSet(Older(S)) /\ Cardinality(Older(S)) <= Cardinality(S0)
    BY <2>1, <2>2, FS_Surjection
  <2>4. Cardinality(Older(S)) \in Nat
    BY <2>3, FS_CardinalityType
  <2> QED
    BY <2>1, <2>3, <2>4
<1> QED
  BY <1>3, <1>4, <1>5, <1>6

LEMMA LimitAtFirst == Init => LimitInv
<1> SUFFICES ASSUME Init
             PROVE  LimitInv
  OBVIOUS
<1>1. \A key \in Keys : key \in PublicKeys /\ hits[key] = {} /\ blocked[key] = 0 /\ admitted[key] = {}
  BY KeysAre DEF Init
<1>2. \A key \in Keys : Promised(key[1]) \in Nat
  BY KeysAre
<1>3. \A key \in Keys : CounterHolds(key)
  BY <1>1, <1>2, FS_EmptySet DEF CounterHolds
<1> QED
  BY <1>3 DEF Init, LimitInv

LEMMA TickKeepsLimits == ASSUME LimitInv, Tick PROVE LimitInv'
<1>1. /\ sent' \in Nat
      /\ hits' \in [Keys -> SUBSET HitRecord]
      /\ blocked' \in [Keys -> Nat]
      /\ admitted' \in [PublicKeys -> SUBSET HitRecord]
  BY OlderHits DEF LimitInv, Tick
<1>2. ASSUME NEW key \in Keys
      PROVE  CounterHolds(key)'
  <2> DEFINE H == hits[key]
             A == admitted[key]
             limit == Promised(key[1])
  <2>1. /\ key \in PublicKeys /\ limit \in Nat
        /\ H \in SUBSET HitRecord /\ A \in SUBSET HitRecord /\ A \subseteq H
        /\ IsFiniteSet(H) /\ IsFiniteSet(A) /\ blocked[key] \in Nat /\ CounterHolds(key)
    BY KeysAre, Counting DEF LimitInv, CounterHolds
  <2>2. /\ hits'[key] = IF blocked[key] = 1 THEN {} ELSE Older(H)
        /\ admitted'[key] = Older(A)
        /\ blocked'[key] = IF blocked[key] = 0 THEN 0 ELSE blocked[key] - 1
    BY <2>1 DEF Tick
  <2>3. /\ Older(A) \subseteq Older(H)
        /\ IsFiniteSet(Older(H)) /\ IsFiniteSet(Older(A))
        /\ Cardinality(Older(H)) <= Cardinality(H) /\ Cardinality(Older(A)) <= Cardinality(A)
    BY <2>1, OlderHits
  <2>4. /\ Cardinality(H) \in Nat /\ Cardinality(A) \in Nat
        /\ Cardinality(Older(H)) \in Nat /\ Cardinality(Older(A)) \in Nat
    BY <2>1, <2>3, FS_CardinalityType
  <2>5. blocked[key] > 0 =>
          /\ Cardinality(H) <= limit + 1 /\ Cardinality(A) <= limit
          /\ \A hit \in Older(A) : hit.left <= blocked[key] - 1
          /\ blocked[key] = 1 => Older(A) = {}
    BY <2>1, OlderHits DEF CounterHolds
  <2>6. CASE blocked[key] = 0
    BY <2>1, <2>2, <2>3, <2>4, <2>6 DEF CounterHolds
  <2>7. CASE blocked[key] = 1
    BY <2>1, <2>2, <2>5, <2>7, FS_EmptySet DEF CounterHolds
  <2>8. CASE blocked[key] > 1
    BY <2>1, <2>2, <2>3, <2>4, <2>5, <2>8 DEF CounterHolds
  <2> QED
    BY <2>1, <2>6, <2>7, <2>8
<1> QED
  BY <1>1, <1>2 DEF LimitInv

LEMMA RestartKeepsLimits == ASSUME LimitInv, Restart PROVE LimitInv'
<1>1. \A key \in Keys : key \in PublicKeys /\ hits'[key] = {} /\ blocked'[key] = 0 /\ admitted'[key] = {}
  BY KeysAre DEF Restart
<1>2. \A key \in Keys : Promised(key[1]) \in Nat
  BY KeysAre
<1>3. \A key \in Keys : CounterHolds(key)'
  BY <1>1, <1>2, FS_EmptySet DEF CounterHolds
<1> QED
  BY <1>3 DEF Restart, LimitInv

\* A request that is blocked is answered 429, and is not admitted.
LEMMA RequestAdmits ==
  ASSUME NEW route \in Routes, NEW ip \in Ips, NEW token, NEW input,
         Request(route, ip, token, input)
  PROVE  \/ admitted' = admitted
         \/ /\ ~IsBlocked(route, ip) /\ route.guard = "none"
            /\ admitted' = [admitted EXCEPT ![<<route.name, ip>>] = @ \cup {ThisHit}]
<1>1. Catch(GuardError(429)).status = 429
  BY Caught DEF GuardError
<1>2. CASE IsBlocked(route, ip) /\ Reply(route, ip, token, input, Catch(GuardError(429)))
  BY <1>1, <1>2 DEF Reply
<1>3. CASE ~IsBlocked(route, ip) /\ \E answer : Reply(route, ip, token, input, answer)
  BY <1>3 DEF Reply
<1> QED
  BY <1>2, <1>3 DEF Request, Handle

LEMMA RequestKeepsLimits ==
  ASSUME LimitInv, NEW route \in Routes, NEW ip \in Ips, NEW token, NEW input,
         Request(route, ip, token, input)
  PROVE  LimitInv'
<1> DEFINE k == <<route.name, ip>>
<1>1. ThisHit \in HitRecord /\ ThisHit.left = Ttl
  BY TtlIsPositive DEF LimitInv, ThisHit, HitRecord
<1>2. Hit(route, ip) /\ sent' = sent + 1
  BY DEF Request
<1>3. /\ Counted(route) <=> k \in Keys
      /\ Counted(route) => k \in PublicKeys /\ LimitOf(route) = Promised(k[1])
      /\ route.guard = "none" => k \in PublicKeys
  BY KeysAre, LimitedAre DEF IsLimited, PublicKeys
<1>4. /\ hits' \in [Keys -> SUBSET HitRecord] /\ blocked' \in [Keys -> Nat]
      /\ \A key \in Keys \ {k} : hits'[key] = hits[key] /\ blocked'[key] = blocked[key]
  BY <1>1, <1>2, TtlIsPositive DEF Hit, LimitInv, throttle
<1>5. /\ admitted' \in [PublicKeys -> SUBSET HitRecord]
      /\ \A key \in PublicKeys \ {k} : admitted'[key] = admitted[key]
      /\ Counted(route) => \/ admitted'[k] = admitted[k]
                           \/ blocked'[k] <= 0 /\ admitted'[k] = admitted[k] \cup {ThisHit}
  BY <1>1, <1>3, <1>4, RequestAdmits DEF LimitInv, IsBlocked
<1>6. ASSUME NEW key \in Keys \ {k}
      PROVE  CounterHolds(key)'
  <2>1. hits'[key] = hits[key] /\ blocked'[key] = blocked[key] /\ admitted'[key] = admitted[key]
    BY <1>4, <1>5, KeysAre
  <2> QED
    BY <2>1 DEF LimitInv, CounterHolds
<1>7. ASSUME Counted(route)
      PROVE  CounterHolds(k)'
  <2> DEFINE H == hits[k]
             A == admitted[k]
             limit == Promised(k[1])
  <2>1. /\ k \in Keys /\ k \in PublicKeys /\ LimitOf(route) = limit /\ limit \in Nat
        /\ H \in SUBSET HitRecord /\ A \in SUBSET H /\ IsFiniteSet(H)
        /\ blocked[k] \in Nat /\ CounterHolds(k)
    BY <1>3, <1>7, KeysAre DEF LimitInv, CounterHolds
  <2>2. /\ Cardinality(H) \in Nat /\ IsFiniteSet(A) /\ Cardinality(A) \in Nat
        /\ Cardinality(A) <= Cardinality(H)
        /\ IsFiniteSet(H \cup {ThisHit}) /\ Cardinality(H \cup {ThisHit}) \in Nat
        /\ Cardinality(H \cup {ThisHit}) <= Cardinality(H) + 1
    BY <2>1, Counting, FS_CardinalityType
  <2>3. CASE blocked[k] > 0
    <3>1. hits'[k] = H /\ blocked'[k] = blocked[k]
      BY <1>2, <1>7, <2>3 DEF Hit, throttle
    <3>2. admitted'[k] = A
      BY <1>5, <1>7, <2>1, <2>3, <3>1
    <3> QED
      BY <2>1, <3>1, <3>2 DEF CounterHolds
  <2>4. CASE blocked[k] = 0
    <3>1. /\ hits'[k] = H \cup {ThisHit}
          /\ blocked'[k] = IF Cardinality(H) >= limit THEN Ttl ELSE 0
      BY <1>2, <1>7, <2>1, <2>4 DEF Hit, LimitInv
    <3>2. Cardinality(H) <= limit
      BY <2>1, <2>4 DEF CounterHolds
    <3>3. CASE Cardinality(H) >= limit
      <4>1. blocked'[k] = Ttl /\ Ttl > 0
        BY <3>1, <3>3, TtlIsPositive
      <4>2. admitted'[k] = A
        BY <1>5, <1>7, <4>1, TtlIsPositive
      <4>3. \A hit \in A : hit.left <= Ttl
        BY <2>1, TtlIsPositive DEF HitRecord
      <4> QED
        BY <2>1, <2>2, <3>1, <3>2, <4>1, <4>2, <4>3 DEF CounterHolds
    <3>4. CASE ~(Cardinality(H) >= limit)
      <4>1. blocked'[k] = 0
        BY <3>1, <3>4
      <4>2. admitted'[k] \subseteq H \cup {ThisHit}
        BY <1>5, <1>7, <2>1
      <4>3. Cardinality(H \cup {ThisHit}) <= limit
        BY <2>1, <2>2, <3>4
      <4> QED
        BY <2>2, <3>1, <4>1, <4>2, <4>3 DEF CounterHolds
    <3> QED
      BY <3>3, <3>4
  <2> QED
    BY <2>1, <2>3, <2>4
<1> QED
  BY <1>2, <1>3, <1>4, <1>5, <1>6, <1>7 DEF LimitInv

LEMMA LimitStep == ASSUME LimitInv, [Next]_vars PROVE LimitInv'
<1>1. CASE UNCHANGED <<throttle, admitted>> /\ sent' \in Nat
  BY <1>1 DEF throttle, LimitInv, CounterHolds
<1>2. CASE \E route \in Routes : \E token : \E reading \in {"malformed", "unreadable"} :
             Unread(route, token, reading)
  <2>1. UNCHANGED <<throttle, admitted>> /\ sent' = sent + 1
    BY <1>2, UnreadAnswer
  <2> QED
    BY <1>1, <2>1 DEF LimitInv
<1>3. CASE \E route \in Routes, ip \in Ips : \E token, input : Request(route, ip, token, input)
  BY <1>3, RequestKeepsLimits
<1> QED
  BY <1>1, <1>2, <1>3, TickKeepsLimits, RestartKeepsLimits, NextSteps DEF vars, LimitInv

\* For any limits, clients and traffic, across the end of windows and blocks
\* and restarts, no client gets more answers from a route with a limit than
\* that limit in one window, and no counter holds more than one hit above it.
THEOREM LimitsCorrect == Spec => []LimitHolds
<1>1. ASSUME LimitInv
      PROVE  LimitHolds
  <2>1. ASSUME NEW key \in Keys
        PROVE  /\ Cardinality(admitted[key]) <= Promised(key[1])
               /\ Cardinality(hits[key]) <= Promised(key[1]) + 1
    <3>1. /\ Promised(key[1]) \in Nat /\ CounterHolds(key) /\ blocked[key] \in Nat
      BY <1>1, KeysAre DEF LimitInv
    <3>2. /\ Cardinality(hits[key]) \in Nat /\ Cardinality(admitted[key]) \in Nat
          /\ Cardinality(admitted[key]) <= Cardinality(hits[key])
      BY <3>1, Counting DEF CounterHolds
    <3> QED
      BY <3>1, <3>2 DEF CounterHolds
  <2>2. \A name \in LimitedRoutes, ip \in Ips : <<name, ip>> \in Keys
    BY KeysAre
  <2>3. \A route \in Routes, ip \in Ips : Counted(route) =>
          <<route.name, ip>> \in Keys /\ LimitOf(route) = Promised(route.name)
    BY KeysAre, LimitedAre DEF IsLimited
  <2> QED
    BY <2>1, <2>2, <2>3 DEF LimitHolds
<1> QED
  BY <1>1, LimitAtFirst, LimitStep, PTL DEF Spec

-----------------------------------------------------------------------------
(***************************************************************************)
(* Induction. The library states it with operators as parameters, which    *)
(* the provers cannot instantiate. Stated of a set it follows from the     *)
(* least element that a set of naturals has (WFMin of                      *)
(* WellFoundedInduction).                                                  *)
(***************************************************************************)
Less == {ss \in Nat \X Nat : ss[1] < ss[2]}

\* Induction, as a statement about a set: a set of naturals that is not all
\* of them would have a least natural outside.
LEMMA InductionOnNat ==
  ASSUME NEW A, 0 \in A, \A n \in Nat : n \in A => n + 1 \in A
  PROVE  \A n \in Nat : n \in A
<1> SUFFICES ASSUME ~(Nat \subseteq A) PROVE FALSE
  OBVIOUS
<1> DEFINE T == Nat \ A
<1>1. T \subseteq Nat /\ T # {}
  OBVIOUS
<1>2. IsWellFoundedOn(Less, Nat)
  BY NatLessThanWellFounded DEF OpToRel, Less
<1>3. PICK n \in T : \A m \in T : <<m, n>> \notin Less
  <2> HIDE DEF T
  <2> QED
    BY <1>1, <1>2, WFMin
<1>4. n - 1 \in T /\ n \in Nat
  OBVIOUS
<1>5. <<n - 1, n>> \in Less
  BY <1>4 DEF Less
<1> QED
  BY <1>3, <1>4, <1>5

\* Induction on a sequence that grows at its end, by its length.
LEMMA InductionOnSeq ==
  ASSUME NEW S, NEW A, <<>> \in A,
         \A s \in Seq(S), x \in S : s \in A => Append(s, x) \in A
  PROVE  \A s \in Seq(S) : s \in A
<1> DEFINE Lengths == {n \in Nat : \A s \in Seq(S) : Len(s) = n => s \in A}
<1>1. 0 \in Lengths
  BY EmptySeq
<1>2. ASSUME NEW n \in Nat, n \in Lengths
      PROVE  n + 1 \in Lengths
  <2>1. ASSUME NEW s \in Seq(S), Len(s) = n + 1
        PROVE  s \in A
    <3> DEFINE t == [i \in 1 .. n |-> s[i]]
    <3>1. t \in Seq(S) /\ Len(t) = n /\ s[n + 1] \in S
      BY <2>1
    <3>2. s = Append(t, s[n + 1])
      BY <2>1, <3>1
    <3> QED
      BY <1>2, <3>1, <3>2
  <2> QED
    BY <2>1
<1>3. \A n \in Nat : n \in Lengths
  <2> HIDE DEF Lengths
  <2> QED
    BY <1>1, <1>2, InductionOnNat
<1> QED
  BY <1>3, LenProperties

\* f holds the concatenations of the first elements of q, up to n of them.
Steps(q, f, n) ==
  /\ n > 0 => f[1] = q[1]
  /\ \A i \in 1 .. n - 1 : f[i + 1] = f[i] \o q[i + 1]

\* The partial concatenations exist, so that FlattenSeq has a value.
LEMMA StepsExist ==
  ASSUME NEW S, NEW q \in Seq(Seq(S))
  PROVE  \E f \in [1 .. Len(q) -> Seq(S)] : Steps(q, f, Len(q))
<1> DEFINE A == {n \in Nat : n <= Len(q) => \E f \in [1 .. n -> Seq(S)] : Steps(q, f, n)}
<1>1. 0 \in A
  <2>1. [i \in 1 .. 0 |-> <<>>] \in [1 .. 0 -> Seq(S)] /\ Steps(q, [i \in 1 .. 0 |-> <<>>], 0)
    BY DEF Steps
  <2> QED
    BY <2>1
<1>2. ASSUME NEW n \in Nat, n \in A
      PROVE  n + 1 \in A
  <2> SUFFICES ASSUME n + 1 <= Len(q)
               PROVE  \E f \in [1 .. n + 1 -> Seq(S)] : Steps(q, f, n + 1)
    OBVIOUS
  <2>1. PICK f \in [1 .. n -> Seq(S)] : Steps(q, f, n)
    BY <1>2, LenProperties
  <2>2. q[n + 1] \in Seq(S)
    BY ElementOfSeq
  <2> DEFINE joined == IF n = 0 THEN q[n + 1] ELSE f[n] \o q[n + 1]
             g == [i \in 1 .. n + 1 |-> IF i = n + 1 THEN joined ELSE f[i]]
  <2>3. joined \in Seq(S)
    BY <2>2, ConcatProperties
  <2>4. g \in [1 .. n + 1 -> Seq(S)]
    <3> HIDE DEF joined
    <3> QED
      BY <2>3
  <2>5. (n = 0 => joined = q[1]) /\ (n # 0 => joined = f[n] \o q[n + 1])
    <3>1. n = 0 => n + 1 = 1
      OBVIOUS
    <3> QED
      BY <3>1, Zenon
  <2> HIDE DEF joined
  <2>6. g[n + 1] = joined /\ \A i \in 1 .. n : g[i] = f[i]
    OBVIOUS
  <2> HIDE DEF g
  <2>7. ASSUME NEW i \in 1 .. n
        PROVE  g[i + 1] = g[i] \o q[i + 1]
    <3>1. CASE i = n
      <4>1. n # 0 /\ f[n] = g[n]
        BY <2>6, <3>1
      <4> QED
        BY <2>5, <2>6, <3>1, <4>1
    <3>2. CASE i # n
      <4>1. i \in 1 .. n - 1 /\ i + 1 \in 1 .. n
        BY <3>2
      <4> QED
        BY <2>1, <2>6, <4>1 DEF Steps
    <3> QED
      BY <3>1, <3>2
  <2>8. g[1] = q[1]
    <3>1. CASE n = 0
      BY <2>5, <2>6, <3>1
    <3>2. CASE n # 0
      BY <2>1, <2>6, <3>2 DEF Steps
    <3> QED
      BY <3>1, <3>2
  <2>9. Steps(q, g, n + 1)
    <3>1. (n + 1) - 1 = n
      OBVIOUS
    <3> QED
      BY <2>7, <2>8, <3>1 DEF Steps
  <2> QED
    BY <2>4, <2>9
<1>3. Len(q) \in A
  <2> HIDE DEF A
  <2> QED
    BY <1>1, <1>2, InductionOnNat, LenProperties
<1> QED
  BY <1>3, LenProperties

\* FlattenSeq is a recursive function, which TLA+ takes to be some function
\* that satisfies its equation: there is one, and any two end alike.
LEMMA FlattenIs ==
  ASSUME NEW S, NEW q \in Seq(Seq(S)), Len(q) # 0,
         NEW f \in [1 .. Len(q) -> Seq(S)], Steps(q, f, Len(q))
  PROVE  FlattenSeq(q) = f[Len(q)]
<1> DEFINE g == CHOOSE g : g = [i \in 1 .. Len(q) |-> IF i = 1 THEN q[i] ELSE g[i - 1] \o q[i]]
<1>1. f = [i \in 1 .. Len(q) |-> IF i = 1 THEN q[i] ELSE f[i - 1] \o q[i]]
  <2>1. ASSUME NEW i \in 1 .. Len(q), i # 1
        PROVE  f[i] = f[i - 1] \o q[i]
    <3>1. i - 1 \in 1 .. Len(q) - 1 /\ (i - 1) + 1 = i
      BY <2>1, LenProperties
    <3> QED
      BY <3>1 DEF Steps
  <2>2. f[1] = q[1]
    BY LenProperties DEF Steps
  <2> QED
    BY <2>1, <2>2
<1>2. g = [i \in 1 .. Len(q) |-> IF i = 1 THEN q[i] ELSE g[i - 1] \o q[i]]
  BY <1>1
<1>3. FlattenSeq(q) = g[Len(q)]
  BY DEF FlattenSeq
<1> HIDE DEF g
<1>4. Steps(q, g, Len(q))
  <2>1. ASSUME NEW i \in 1 .. Len(q) - 1
        PROVE  g[i + 1] = g[i] \o q[i + 1]
    <3>1. i + 1 \in 1 .. Len(q) /\ i + 1 # 1 /\ (i + 1) - 1 = i
      BY LenProperties
    <3>2. g[i + 1] = IF i + 1 = 1 THEN q[i + 1] ELSE g[(i + 1) - 1] \o q[i + 1]
      BY <1>2, <3>1
    <3> QED
      BY <3>1, <3>2
  <2>2. 1 \in 1 .. Len(q)
    BY LenProperties
  <2>3. g[1] = q[1]
    BY <1>2, <2>2
  <2> QED
    BY <2>1, <2>3 DEF Steps
<1> DEFINE A == {n \in Nat : n < Len(q) => g[n + 1] = f[n + 1]}
<1>5. 0 \in A
  BY <1>4 DEF Steps
<1>6. ASSUME NEW n \in Nat, n \in A
      PROVE  n + 1 \in A
  <2> SUFFICES ASSUME n + 1 < Len(q) PROVE g[(n + 1) + 1] = f[(n + 1) + 1]
    OBVIOUS
  <2>1. n + 1 \in 1 .. Len(q) - 1 /\ n < Len(q)
    BY LenProperties
  <2>2. /\ g[(n + 1) + 1] = g[n + 1] \o q[(n + 1) + 1]
        /\ f[(n + 1) + 1] = f[n + 1] \o q[(n + 1) + 1]
    BY <1>4, <2>1 DEF Steps
  <2> QED
    BY <1>6, <2>1, <2>2
<1>7. Len(q) - 1 \in A
  <2>1. Len(q) - 1 \in Nat
    BY LenProperties
  <2> HIDE DEF A
  <2> QED
    BY <1>5, <1>6, <2>1, InductionOnNat
<1>8. Len(q) - 1 < Len(q) /\ (Len(q) - 1) + 1 = Len(q)
  BY LenProperties
<1> QED
  BY <1>3, <1>7, <1>8

\* What the last sequence adds to the concatenation.
LEMMA FlattenAppend ==
  ASSUME NEW S, NEW q \in Seq(Seq(S)), NEW x \in Seq(S)
  PROVE  /\ FlattenSeq(q) \in Seq(S)
         /\ FlattenSeq(Append(q, x)) = FlattenSeq(q) \o x
<1> DEFINE n == Len(q)
           p == Append(q, x)
<1>1. /\ n \in Nat /\ p \in Seq(Seq(S)) /\ Len(p) = n + 1
      /\ p[n + 1] = x /\ \A i \in 1 .. n : p[i] = q[i]
  OBVIOUS
<1> HIDE DEF n, p
<1>2. PICK f \in [1 .. n + 1 -> Seq(S)] : Steps(p, f, n + 1)
  BY <1>1, StepsExist
<1>3. FlattenSeq(p) = f[n + 1]
  <2>1. Len(p) # 0 /\ f \in [1 .. Len(p) -> Seq(S)] /\ Steps(p, f, Len(p))
    BY <1>1, <1>2
  <2>2. FlattenSeq(p) = f[Len(p)]
    BY <1>1, <2>1, FlattenIs
  <2> QED
    BY <1>1, <2>2
<1>4. CASE n = 0
  <2>1. FlattenSeq(q) = <<>>
    BY <1>4 DEF n, FlattenSeq
  <2>2. f[1] = x
    BY <1>1, <1>2, <1>4 DEF Steps
  <2> QED
    BY <1>3, <1>4, <2>1, <2>2, ConcatEmptySeq, EmptySeq DEF p
<1>5. CASE n # 0
  <2> DEFINE h == [i \in 1 .. n |-> f[i]]
  <2>1. h \in [1 .. n -> Seq(S)] /\ h[n] = f[n] /\ f[n] \in Seq(S)
    BY <1>1, <1>5
  <2>2. \A i \in 1 .. n : h[i] = f[i]
    OBVIOUS
  <2> HIDE DEF h
  <2>3. ASSUME NEW i \in 1 .. n - 1
        PROVE  h[i + 1] = h[i] \o q[i + 1]
    <3>1. (n + 1) - 1 = n /\ i \in 1 .. n /\ i + 1 \in 1 .. n
      BY <1>1, SMT
    <3>2. f[i + 1] = f[i] \o p[i + 1]
      BY <1>2, <3>1 DEF Steps
    <3> QED
      BY <1>1, <2>2, <3>1, <3>2
  <2>4. 1 \in 1 .. n /\ n \in 1 .. n /\ (n + 1) - 1 = n /\ n + 1 > 0
    BY <1>1, <1>5
  <2>5. h[1] = q[1]
    BY <1>1, <1>2, <2>2, <2>4 DEF Steps
  <2>6. f[n + 1] = f[n] \o x
    BY <1>1, <1>2, <2>4 DEF Steps
  <2>7. Steps(q, h, n)
    BY <2>3, <2>5 DEF Steps
  <2>8. FlattenSeq(q) = h[n]
    BY <1>5, <2>1, <2>7, FlattenIs DEF n
  <2> QED
    BY <1>3, <2>1, <2>6, <2>8 DEF p
<1> QED
  BY <1>4, <1>5

-----------------------------------------------------------------------------
(***************************************************************************)
(* Texts. Replaced and SinglePass spell a text out: every symbol gives a   *)
(* sequence of its own, and the sequences are put one after the other.     *)
(***************************************************************************)
Spelled(s, g) == FlattenSeq([i \in DOMAIN s |-> g[s[i]]])

LEMMA SpelledIsSeq ==
  ASSUME NEW S, NEW g \in [S -> Seq(S)], NEW s \in Seq(S)
  PROVE  /\ [i \in DOMAIN s |-> g[s[i]]] \in Seq(Seq(S))
         /\ Spelled(s, g) \in Seq(S)
<1> DEFINE q == [i \in DOMAIN s |-> g[s[i]]]
<1>1. q \in [1 .. Len(s) -> Seq(S)]
  BY LenProperties
<1>2. q \in Seq(Seq(S))
  BY <1>1, LenProperties, SeqDef
<1> HIDE DEF q
<1>3. FlattenSeq(q) \in Seq(S)
  <2>1. <<>> \in Seq(S)
    BY EmptySeq
  <2> QED
    BY <1>2, <2>1, FlattenAppend
<1> QED
  BY <1>2, <1>3 DEF Spelled, q

LEMMA SpelledEmpty == \A g : Spelled(<<>>, g) = <<>>
<1> TAKE g
<1>1. [i \in DOMAIN <<>> |-> g[<<>>[i]]] = <<>>
  OBVIOUS
<1> QED
  BY <1>1 DEF Spelled, FlattenSeq

LEMMA SpelledAppend ==
  ASSUME NEW S, NEW g \in [S -> Seq(S)], NEW s \in Seq(S), NEW x \in S
  PROVE  Spelled(Append(s, x), g) = Spelled(s, g) \o g[x]
<1> DEFINE q == [i \in DOMAIN s |-> g[s[i]]]
<1>1. q \in Seq(Seq(S)) /\ g[x] \in Seq(S)
  BY SpelledIsSeq
<1>2. Len(q) = Len(s)
  BY LenProperties
<1>3. [i \in DOMAIN Append(s, x) |-> g[Append(s, x)[i]]] = Append(q, g[x])
  <2> DEFINE t == Append(s, x)
             l == [i \in DOMAIN t |-> g[t[i]]]
  <2>1. t \in Seq(S) /\ DOMAIN t = 1 .. Len(s) + 1 /\ t[Len(s) + 1] = x
        /\ \A i \in 1 .. Len(s) : t[i] = s[i]
    OBVIOUS
  <2>2. Append(q, g[x]) = [i \in 1 .. Len(s) + 1 |-> IF i = Len(s) + 1 THEN g[x] ELSE q[i]]
    BY <1>1, <1>2
  <2> HIDE DEF t
  <2>3. ASSUME NEW i \in 1 .. Len(s) + 1
        PROVE  g[t[i]] = IF i = Len(s) + 1 THEN g[x] ELSE q[i]
    <3>1. CASE i = Len(s) + 1
      BY <2>1, <3>1
    <3>2. CASE i # Len(s) + 1
      <4>1. i \in 1 .. Len(s) /\ i \in DOMAIN s
        BY <3>2, LenProperties
      <4> QED
        BY <2>1, <3>2, <4>1
    <3> QED
      BY <3>1, <3>2
  <2>4. l = Append(q, g[x])
    BY <2>1, <2>2, <2>3
  <2> QED
    BY <2>4 DEF t
<1> HIDE DEF q
<1> QED
  BY <1>1, <1>3, FlattenAppend DEF Spelled, q

\* Every symbol has a sequence of its own.
IsSpelling(g, S) == g \in [S -> Seq(S)]

LEMMA SpelledOne ==
  ASSUME NEW S, NEW g, IsSpelling(g, S), NEW x \in S
  PROVE  Spelled(<<x>>, g) = g[x]
<1>1. g \in [S -> Seq(S)]
  BY DEF IsSpelling
<1>2. Append(<<>>, x) = <<x>> /\ <<>> \in Seq(S) /\ g[x] \in Seq(S)
  BY <1>1
<1>3. Spelled(Append(<<>>, x), g) = Spelled(<<>>, g) \o g[x] /\ Spelled(<<>>, g) = <<>>
  BY <1>1, <1>2, SpelledAppend, SpelledEmpty
<1> QED
  BY <1>2, <1>3, ConcatEmptySeq

IsAssociativeOn(Q) == \A a, b, c \in Q : (a \o b) \o c = a \o (b \o c)

LEMMA Associative == \A S : IsAssociativeOn(Seq(S))
BY ConcatAssociative DEF IsAssociativeOn

\* A text in two parts is spelled out part by part.
LEMMA SpelledConcat ==
  ASSUME NEW S, NEW g \in [S -> Seq(S)], NEW s \in Seq(S), NEW t \in Seq(S)
  PROVE  Spelled(s \o t, g) = Spelled(s, g) \o Spelled(t, g)
<1> DEFINE A == {u \in Seq(S) : Spelled(s \o u, g) = Spelled(s, g) \o Spelled(u, g)}
<1>1. <<>> \in A
  <2>1. s \o <<>> = s /\ Spelled(<<>>, g) = <<>> /\ Spelled(s, g) \in Seq(S)
    BY SpelledIsSeq, SpelledEmpty, ConcatEmptySeq
  <2> QED
    BY <2>1, ConcatEmptySeq, EmptySeq
<1>2. ASSUME NEW u \in Seq(S), NEW x \in S, u \in A
      PROVE  Append(u, x) \in A
  <2>1. /\ s \o u \in Seq(S) /\ Append(u, x) \in Seq(S)
        /\ s \o Append(u, x) = Append(s \o u, x)
    OBVIOUS
  <2>2. /\ Spelled(Append(s \o u, x), g) = Spelled(s \o u, g) \o g[x]
        /\ Spelled(Append(u, x), g) = Spelled(u, g) \o g[x]
        /\ Spelled(s, g) \in Seq(S) /\ Spelled(u, g) \in Seq(S) /\ g[x] \in Seq(S)
    BY <2>1, SpelledAppend, SpelledIsSeq
  <2>3. (Spelled(s, g) \o Spelled(u, g)) \o g[x] = Spelled(s, g) \o (Spelled(u, g) \o g[x])
    <3>1. IsAssociativeOn(Seq(S))
      BY Associative
    <3> QED
      BY <2>2, <3>1, Zenon DEF IsAssociativeOn
  <2> QED
    BY <1>2, <2>1, <2>2, <2>3
<1>3. \A u \in Seq(S) : u \in A
  <2> HIDE DEF A
  <2> QED
    BY <1>1, <1>2, InductionOnSeq
<1> QED
  BY <1>3

\* k spells out at once what g and then h spell out.
IsBoth(k, g, h, S) == \A x \in S : k[x] = Spelled(g[x], h)

LEMMA SpelledTwice ==
  ASSUME NEW S, NEW g, NEW h, NEW k, NEW s,
         IsSpelling(g, S), IsSpelling(h, S), IsSpelling(k, S), IsBoth(k, g, h, S), s \in Seq(S)
  PROVE  Spelled(Spelled(s, g), h) = Spelled(s, k)
<1>1. g \in [S -> Seq(S)] /\ h \in [S -> Seq(S)] /\ k \in [S -> Seq(S)]
  BY DEF IsSpelling
<1> DEFINE A == {u \in Seq(S) : Spelled(Spelled(u, g), h) = Spelled(u, k)}
<1>2. <<>> \in A
  BY EmptySeq, SpelledEmpty
<1>3. ASSUME NEW u \in Seq(S), NEW x \in S, u \in A
      PROVE  Append(u, x) \in A
  <2>1. Append(u, x) \in Seq(S) /\ g[x] \in Seq(S)
    BY <1>1
  <2>2. Spelled(u, g) \in Seq(S) /\ Spelled(Append(u, x), g) = Spelled(u, g) \o g[x]
    BY <1>1, SpelledAppend, SpelledIsSeq
  <2>3. Spelled(Spelled(u, g) \o g[x], h) = Spelled(Spelled(u, g), h) \o k[x]
    <3> HIDE DEF A
    <3>1. Spelled(Spelled(u, g) \o g[x], h) = Spelled(Spelled(u, g), h) \o Spelled(g[x], h)
      BY <1>1, <2>1, <2>2, SpelledConcat
    <3> QED
      BY <3>1 DEF IsBoth
  <2>4. Spelled(Append(u, x), k) = Spelled(u, k) \o k[x]
    BY <1>1, SpelledAppend
  <2> QED
    BY <1>3, <2>1, <2>2, <2>3, <2>4
<1>4. \A u \in Seq(S) : u \in A
  <2> HIDE DEF A
  <2> QED
    BY <1>2, <1>3, InductionOnSeq
<1> QED
  BY <1>4

\* g leaves every element of s as it is.
Leaves(g, s) == \A i \in DOMAIN s : g[s[i]] = <<s[i]>>

\* A text that g leaves as it is.
LEMMA SpelledOut ==
  ASSUME NEW S, NEW g, NEW s, IsSpelling(g, S), s \in Seq(S), Leaves(g, s)
  PROVE  Spelled(s, g) = s
<1>1. g \in [S -> Seq(S)]
  BY DEF IsSpelling
<1> DEFINE A == {u \in Seq(S) : Leaves(g, u) => Spelled(u, g) = u}
<1>2. <<>> \in A
  BY EmptySeq DEF Spelled, FlattenSeq
<1>3. ASSUME NEW u \in Seq(S), NEW x \in S, u \in A
      PROVE  Append(u, x) \in A
  <2> DEFINE t == Append(u, x)
  <2>1. t \in Seq(S) /\ Len(t) = Len(u) + 1 /\ t[Len(u) + 1] = x
    OBVIOUS
  <2>2. t = u \o <<x>>
    BY AppendIsConcat
  <2>3. \A i \in 1 .. Len(u) : t[i] = u[i]
    OBVIOUS
  <2>4. Spelled(t, g) = Spelled(u, g) \o g[x]
    BY <1>1, SpelledAppend
  <2> HIDE DEF t
  <2> SUFFICES ASSUME Leaves(g, t)
               PROVE  Spelled(t, g) = t
    BY <2>1 DEF t
  <2>5. /\ Len(u) + 1 \in DOMAIN t
        /\ \A i \in DOMAIN u : i \in DOMAIN t /\ t[i] = u[i]
    <3>1. Len(u) \in Nat /\ DOMAIN u = 1 .. Len(u) /\ DOMAIN t = 1 .. Len(u) + 1
      BY <2>1, LenProperties
    <3> QED
      BY <2>3, <3>1
  <2>6. g[x] = <<x>> /\ Spelled(u, g) = u
    BY <1>3, <2>1, <2>5 DEF Leaves
  <2> QED
    BY <2>2, <2>4, <2>6
<1>4. \A u \in Seq(S) : u \in A
  <2> HIDE DEF A
  <2> QED
    BY <1>2, <1>3, InductionOnSeq
<1> QED
  BY <1>4

-----------------------------------------------------------------------------
(***************************************************************************)
(* The mails. Each replaceAll of the code spells the template out with one *)
(* field filled in; four in a row come to the single pass when no value    *)
(* has what a later one looks for.                                         *)
(***************************************************************************)
FieldNames == {"name", "email", "subject", "message"}
TemplateSymbols == FieldNames \cup {"copy"}
Symbols == STRING \cup TemplateSymbols
Filled(field, value) == [x \in Symbols |-> IF x = field THEN value ELSE <<x>>]
Avoids(text, words) == \A i \in DOMAIN text : text[i] \notin words

\* What a substitution for one field does to the other symbols.
Fills(g, field, value) ==
  /\ Spelled(<<field>>, g) = value
  /\ \A x \in Symbols \ {field} : Spelled(<<x>>, g) = <<x>>
  /\ \A text \in Seq(Symbols) : Avoids(text, {field}) => Spelled(text, g) = text

LEMMA FilledIs ==
  ASSUME NEW field \in Symbols, NEW value \in Seq(Symbols)
  PROVE  /\ IsSpelling(Filled(field, value), Symbols)
         /\ Fills(Filled(field, value), field, value)
<1> DEFINE g == Filled(field, value)
<1>1. \A x \in Symbols : <<x>> \in Seq(Symbols)
  OBVIOUS
<1>2. g \in [Symbols -> Seq(Symbols)] /\ \A x \in Symbols : g[x] = IF x = field THEN value ELSE <<x>>
  BY <1>1 DEF Filled
<1> HIDE DEF g
<1>3. IsSpelling(g, Symbols) /\ \A x \in Symbols : Spelled(<<x>>, g) = g[x]
  BY <1>2, SpelledOne DEF IsSpelling
<1>4. ASSUME NEW s \in Seq(Symbols), Avoids(s, {field})
      PROVE  Spelled(s, g) = s
  <2>1. \A i \in DOMAIN s : s[i] \in Symbols
    OBVIOUS
  <2>2. Leaves(g, s)
    BY <1>2, <1>4, <2>1 DEF Avoids, Leaves
  <2> QED
    BY <1>3, <2>2, SpelledOut
<1> QED
  BY <1>2, <1>3, <1>4 DEF g, Fills

\* replaceAll with a value free of patterns fills in the value.
LEMMA ReplacedIs ==
  ASSUME NEW text \in Seq(Symbols), NEW field \in Symbols, NEW value \in Seq(Symbols), Avoids(value, Patterns)
  PROVE  Replaced(text, field, value) = Spelled(text, Filled(field, value))
<1>1. ASSUME NEW i \in DOMAIN text
      PROVE  Expand(value, text, i) = value
  <2> DEFINE each == [x \in Symbols |-> <<x>>]
  <2>1. \A j \in DOMAIN value : value[j] \in Symbols
    OBVIOUS
  <2>2. \A j \in DOMAIN value : value[j] \notin {"$$", "$&", "$`", "$'"}
    BY DEF Avoids, Patterns
  <2>3. Expand(value, text, i) = FlattenSeq([j \in DOMAIN value |-> <<value[j]>>])
    BY <2>2 DEF Expand
  <2>4. \A x \in Symbols : <<x>> \in Seq(Symbols) /\ each[x] = <<x>>
    OBVIOUS
  <2>5. IsSpelling(each, Symbols)
    BY <2>4 DEF IsSpelling
  <2> HIDE DEF each
  <2>6. Leaves(each, value) /\ [j \in DOMAIN value |-> <<value[j]>>] = [j \in DOMAIN value |-> each[value[j]]]
    BY <2>1, <2>4 DEF Leaves
  <2> QED
    BY <2>3, <2>5, <2>6, SpelledOut DEF Spelled
<1>2. \A i \in DOMAIN text : text[i] \in Symbols
  OBVIOUS
<1>3. \A i \in DOMAIN text :
        (IF text[i] = field THEN Expand(value, text, i) ELSE <<text[i]>>)
          = Filled(field, value)[text[i]]
  BY <1>1, <1>2 DEF Filled
<1>4. [i \in DOMAIN text |-> IF text[i] = field THEN Expand(value, text, i) ELSE <<text[i]>>]
        = [i \in DOMAIN text |-> Filled(field, value)[text[i]]]
  BY <1>3
<1> QED
  BY <1>4 DEF Replaced, Spelled

\* Two substitutions in a row are one, place by place.
Then(g, field, value) == [x \in Symbols |-> Spelled(g[x], Filled(field, value))]

LEMMA Chained ==
  ASSUME NEW text, NEW g, NEW field, NEW value, text \in Seq(Symbols), IsSpelling(g, Symbols),
         field \in Symbols, value \in Seq(Symbols), Avoids(value, Patterns)
  PROVE  /\ IsSpelling(Then(g, field, value), Symbols)
         /\ Replaced(Spelled(text, g), field, value) = Spelled(text, Then(g, field, value))
<1> DEFINE h == Filled(field, value)
           k == Then(g, field, value)
<1>1. IsSpelling(h, Symbols)
  BY FilledIs
<1>2. \A x \in Symbols : Spelled(g[x], h) \in Seq(Symbols)
  <2> HIDE DEF h
  <2> QED
    BY <1>1, SpelledIsSeq DEF IsSpelling
<1>3. IsSpelling(k, Symbols)
  BY <1>2 DEF Then, IsSpelling
<1>4. IsBoth(k, g, h, Symbols)
  BY DEF Then, IsBoth
<1>5. Spelled(text, g) \in Seq(Symbols)
  BY SpelledIsSeq DEF IsSpelling
<1>6. Replaced(Spelled(text, g), field, value) = Spelled(Spelled(text, g), h)
  BY <1>5, ReplacedIs
<1> HIDE DEF h, k
<1>7. Spelled(Spelled(text, g), h) = Spelled(text, k)
  BY <1>1, <1>3, <1>4, SpelledTwice
<1> QED
  BY <1>3, <1>6, <1>7 DEF k

\* The four replaceAll calls of a harmless form are the single pass.
LEMMA SubstituteIs ==
  ASSUME NEW row, {row.name, row.email, row.subject, row.message} \subseteq Seq(Symbols),
         Harmless(row),
         NEW template \in Seq(Symbols), \A i \in DOMAIN template : template[i] \in TemplateSymbols
  PROVE  Substitute(template, row) = SinglePass(template, row)
<1> DEFINE N == row.name
           E == row.email
           J == row.subject
           M == row.message
           f1 == Filled("name", N)
           f2 == Filled("email", E)
           f3 == Filled("subject", J)
           f4 == Filled("message", M)
           k2 == Then(f1, "email", E)
           k3 == Then(k2, "subject", J)
           k4 == Then(k3, "message", M)
<1>1. /\ Avoids(N, Patterns \cup {"email", "subject", "message"})
      /\ Avoids(E, Patterns \cup {"subject", "message"})
      /\ Avoids(J, Patterns \cup {"message"})
      /\ Avoids(M, Patterns)
  <2>1. /\ Fields[1] = "name" /\ Fields[2] = "email" /\ Fields[3] = "subject"
        /\ Fields[4] = "message"
    BY DEF Fields
  <2>2. /\ Text(row, "name") = N /\ Text(row, "email") = E
        /\ Text(row, "subject") = J /\ Text(row, "message") = M
    BY DEF Text
  <2> DEFINE Later(i) == {Fields[k] : k \in i + 1 .. 4}
  <2>3. \A i \in 1 .. 4 : Avoids(Text(row, Fields[i]), Patterns \cup Later(i))
    BY DEF Harmless, Avoids
  <2>4. /\ Later(1) = {"email", "subject", "message"} /\ Later(2) = {"subject", "message"}
        /\ Later(3) = {"message"} /\ Later(4) = {}
    <3>1. 1 + 1 .. 4 = {2, 3, 4} /\ 2 + 1 .. 4 = {3, 4} /\ 3 + 1 .. 4 = {4} /\ 4 + 1 .. 4 = {}
      OBVIOUS
    <3> QED
      BY <2>1, <3>1
  <2> HIDE DEF Later
  <2>5. /\ Avoids(Text(row, Fields[1]), Patterns \cup Later(1))
        /\ Avoids(Text(row, Fields[2]), Patterns \cup Later(2))
        /\ Avoids(Text(row, Fields[3]), Patterns \cup Later(3))
        /\ Avoids(Text(row, Fields[4]), Patterns \cup Later(4))
    BY <2>3
  <2>6. Patterns \cup {} = Patterns
    OBVIOUS
  <2> QED
    BY <2>1, <2>2, <2>4, <2>5, <2>6, Zenon
<1>2. /\ "name" \in Symbols /\ "email" \in Symbols /\ "subject" \in Symbols /\ "message" \in Symbols
      /\ "copy" \in Symbols
      /\ N \in Seq(Symbols) /\ E \in Seq(Symbols) /\ J \in Seq(Symbols) /\ M \in Seq(Symbols)
  BY DEF Symbols, TemplateSymbols, FieldNames
<1>3. /\ Avoids(N, Patterns) /\ Avoids(E, Patterns) /\ Avoids(J, Patterns)
      /\ Avoids(N, {"email"}) /\ Avoids(N, {"subject"}) /\ Avoids(N, {"message"})
      /\ Avoids(E, {"subject"}) /\ Avoids(E, {"message"}) /\ Avoids(J, {"message"})
  BY <1>1 DEF Avoids
<1> HIDE DEF N, E, J, M
<1>4. IsSpelling(f1, Symbols)
  BY <1>2, FilledIs
<1>5. Replaced(template, "name", N) = Spelled(template, f1)
  BY <1>2, <1>3, ReplacedIs
<1> HIDE DEF f1
<1>6. /\ IsSpelling(k2, Symbols)
      /\ Replaced(Spelled(template, f1), "email", E) = Spelled(template, k2)
  BY <1>2, <1>3, <1>4, Chained
<1> HIDE DEF k2
<1>7. /\ IsSpelling(k3, Symbols)
      /\ Replaced(Spelled(template, k2), "subject", J) = Spelled(template, k3)
  BY <1>2, <1>3, <1>6, Chained
<1> HIDE DEF k3
<1>8. Replaced(Spelled(template, k3), "message", M) = Spelled(template, k4)
  BY <1>1, <1>2, <1>7, Chained
<1>9. Substitute(template, row) = Spelled(template, k4)
  BY <1>5, <1>6, <1>7, <1>8 DEF Substitute, N, E, J, M
<1>10. \A x \in Symbols : k4[x] = Spelled(Spelled(Spelled(f1[x], f2), f3), f4)
  BY DEF k2, k3, Then
<1>11. /\ k4["name"] = N /\ k4["email"] = E /\ k4["subject"] = J /\ k4["message"] = M
       /\ k4["copy"] = <<"copy">>
  <2>1. /\ f1["name"] = N /\ f1["email"] = <<"email">>
        /\ f1["subject"] = <<"subject">> /\ f1["message"] = <<"message">>
        /\ f1["copy"] = <<"copy">>
    BY <1>2 DEF Filled, f1
  <2>2. Fills(f2, "email", E) /\ Fills(f3, "subject", J) /\ Fills(f4, "message", M)
    BY <1>2, FilledIs
  <2> HIDE DEF k4, f2, f3, f4
  <2>3. /\ Spelled(<<"email">>, f2) = E
        /\ Spelled(<<"subject">>, f2) = <<"subject">>
        /\ Spelled(<<"message">>, f2) = <<"message">>
        /\ Spelled(N, f2) = N /\ Spelled(<<"copy">>, f2) = <<"copy">>
    BY <1>2, <1>3, <2>2 DEF Fills
  <2>4. /\ Spelled(<<"subject">>, f3) = J
        /\ Spelled(<<"message">>, f3) = <<"message">>
        /\ Spelled(N, f3) = N /\ Spelled(E, f3) = E /\ Spelled(<<"copy">>, f3) = <<"copy">>
    BY <1>2, <1>3, <2>2 DEF Fills
  <2>5. /\ Spelled(<<"message">>, f4) = M
        /\ Spelled(N, f4) = N /\ Spelled(E, f4) = E /\ Spelled(J, f4) = J
        /\ Spelled(<<"copy">>, f4) = <<"copy">>
    BY <1>2, <1>3, <2>2 DEF Fills
  <2> QED
    BY <1>2, <1>10, <2>1, <2>3, <2>4, <2>5
<1> HIDE DEF k4
<1>12. \A x \in TemplateSymbols : k4[x] = Text(row, x)
  BY <1>11 DEF TemplateSymbols, FieldNames, Text, N, E, J, M
<1>13. SinglePass(template, row) = FlattenSeq([i \in DOMAIN template |-> k4[template[i]]])
  <2>1. [i \in DOMAIN template |-> Text(row, template[i])]
          = [i \in DOMAIN template |-> k4[template[i]]]
    BY <1>12
  <2> QED
    BY <2>1 DEF SinglePass
<1> QED
  BY <1>9, <1>13 DEF Spelled

LEMMA TemplatesAre ==
  ASSUME NEW template \in Templates
  PROVE  template \in Seq(TemplateSymbols)
<1> USE DEF CONTACT_NOTIFICATION_HTML, CONTACT_AUTO_REPLY_HTML, FieldNames, TemplateSymbols
<1>1. CONTACT_NOTIFICATION_HTML \in Seq(TemplateSymbols)
  OBVIOUS
<1>2. CONTACT_AUTO_REPLY_HTML \in Seq(TemplateSymbols)
  OBVIOUS
<1> QED
  BY <1>1, <1>2 DEF Templates, CONTACT_NOTIFICATION_TEXT, CONTACT_AUTO_REPLY_TEXT

\* A form that was accepted passed the validation of its fields.
FormWasValid == last.route # Absent /\ last.route.takes = "contact" /\ Succeeded => last.input.valid

LEMMA ValidAtFirst == Init => FormWasValid
BY DEF Init, NoRequest, FormWasValid

LEMMA RequestIsValid ==
  ASSUME NEW route \in Routes, NEW ip, NEW token, NEW input, Request(route, ip, token, input)
  PROVE  FormWasValid'
<1> SUFFICES ASSUME last'.route.takes = "contact", last'.status \in 200 .. 299
             PROVE  last'.input.valid
  BY DEF FormWasValid, Succeeded
<1>1. ASSUME NEW answer, Reply(route, ip, token, input, answer)
      PROVE  last'.route = route /\ last'.input = input /\ last'.status = answer.status
  BY <1>1 DEF Reply
<1>2. /\ Catch(GuardError(429)).status = 429 /\ Catch(GuardError(401)).status = 401
      /\ Catch(HttpError(400)).status = 400
  BY Caught DEF GuardError, HttpError
<1>3. \/ PipesAccept(route, input) /\ Handle(route, ip, token, input)
      \/ \E answer : /\ Reply(route, ip, token, input, answer)
                     /\ answer.status \in {429, 401, 400}
  BY <1>2 DEF Request
<1>4. CASE PipesAccept(route, input) /\ Handle(route, ip, token, input)
  <2>1. \E answer : Reply(route, ip, token, input, answer)
    BY <1>4 DEF Handle
  <2>2. last'.route = route /\ last'.input = input
    BY <1>1, <2>1
  <2> QED
    BY <1>4, <2>2 DEF PipesAccept
<1> QED
  BY <1>1, <1>3, <1>4

LEMMA StepIsValid == ASSUME FormWasValid, [Next]_vars PROVE FormWasValid'
<1>1. Tick \/ Restart \/ UNCHANGED vars => last' = last
  BY DEF Tick, Restart, vars
<1>2. last' = last => FormWasValid'
  BY DEF FormWasValid, Succeeded
<1>3. CASE \E route \in Routes : \E token : \E reading \in {"malformed", "unreadable"} :
             Unread(route, token, reading)
  <2>1. last'.status \in {400, 500}
    BY <1>3, UnreadAnswer
  <2> QED
    BY <2>1 DEF FormWasValid, Succeeded
<1> QED
  BY <1>1, <1>2, <1>3, RequestIsValid, NextSteps

LEMMA MailsQuote == ASSUME QueryWasSent, FormWasValid PROVE MailsQuoteTheForm
<1> DEFINE row == last.input
<1> SUFFICES ASSUME Is("contact"), Succeeded, Harmless(row), NEW template \in Templates
             PROVE  Substitute(template, row) = SinglePass(template, row)
  BY DEF MailsQuoteTheForm
<1>1. {row.name, row.email, row.subject, row.message} \subseteq Seq(STRING)
  BY FormsAreTexts DEF QueryWasSent, FormWasValid, Is, Setting
<1>2. \A text \in Seq(STRING) : text \in Seq(Symbols)
  BY SeqMonotonic DEF Symbols
<1>3. template \in Seq(Symbols) /\ \A i \in DOMAIN template : template[i] \in TemplateSymbols
  BY TemplatesAre, SeqMonotonic DEF Symbols
<1> QED
  BY <1>1, <1>2, <1>3, SubstituteIs

\* For forms of any length and any traffic: what the visitor wrote is in the
\* mails as it was sent, at every place of every template, when no text of the
\* form has a pattern of replaceAll or a placeholder that is filled in later.
THEOREM MailsCorrect == Spec => []MailsQuoteTheForm
BY SentAtFirst, StepSends, ValidAtFirst, StepIsValid, MailsQuote, PTL DEF Spec
=============================================================================
