# Roonder portfolio backend: TLA+ models, checks and proofs

The backend is a NestJS server (one Node process, TypeORM over PostgreSQL at
the default isolation READ COMMITTED) with an admin session, a portfolio of
projects, public reviews with comments, and a contact form that sends mail
through Resend. Handlers run on one thread but interleave at every `await`;
what they share is the database, so the interesting question is nearly always
what two requests do to the same rows between two of their statements.

Paths are relative to the repository root as `src/...`; the server's own code
is in `src/src/`.

## 1. Inventory

| Component | Source | State it keeps | Operations | Hard behaviour | What makes it correct |
|---|---|---|---|---|---|
| Refresh tokens | `src/src/auth/auth.service.ts`, `auth.controller.ts` | `refresh_tokens` rows: family, user, revoked, replaced_by, expiry; the `rt` cookie | login, refresh (rotate, or sweep the family on a replay), logout | check outside the transaction, row locks, retries, lost answers, accounts that vanish | rotations are atomic, links stay in a family and end, spent tokens stay spent, replays close the family, the cookie follows |
| Access tokens | `auth.service.ts`, `strategies/`, `guards/` | none | sign, verify, profile | a duration parser of its own, order of guards | `expiresIn` agrees with the token, a guarded route answers what it could read with 401 exactly when there is no valid token |
| withRetry | `src/src/common/with-retry.ts` | attempt counter, last error | retry 40001 and 40P01 | a callback that keeps state between attempts | at most three attempts, no trace of a failed one |
| Contact pipeline | `src/src/contact/` | `contacts`, `sent_emails`, the event in memory | submit, listener, two mails, audit rows; admin list and status | crash loses the event, save fails inside `try`, Resend's answer lost | no mail twice, audit never overstates, answers independent of mail |
| Projects | `src/src/projects/` | `projects`, `project_urls` | create, update with a diff of urls, remove, four reads | slug race, deleted row saved again, diff from a stale read, signing after commit | slugs unique and answered with 409, urls are the last list asked for |
| Reviews | `src/src/reviews/` | `reviews`, `review_comments` | create, toggle, remove, comment, lists in two statements | lost toggle, a deleted review saved again, parent deleted under a comment | unapproved comments are never listed, comments have a parent |
| Mail templates | `src/src/contact/email/` | none | substitute | sequential `replaceAll` over visitors' texts, with patterns of its own | a mail quotes a harmless form as it was sent, and loses no word of any |
| Rate limits | `src/src/app.module.ts`, `*/throttle.decorator.ts` | hits and a block per handler and client, in memory | hit, expiry, skip | default from two domains, blocks, restarts | a window admits no more than its limit, the admin is never counted |
| Uploads | `src/src/uploads/` | the S3 client, built lazily | upload a cover, sign a key | missing settings, failing signing | keys are fresh, a read fails only when storage does |
| Statistics | `src/src/stats/` | none | four counts at once | a snapshot each | each count is true of some moment of the request |
| Seeds | `src/src/cli/` | users, projects, reviews | upsert the superuser, insert samples | second run, two at once, half-way failure, an admin at work meanwhile | what a failed run leaves behind is bounded |
| Error filter | `src/src/common/filters/` | none | exception to body | production hides messages | no 5xx text of a raw error in production |
| Configuration, bootstrap, DTOs, migrations | `src/src/config`, `main.ts`, `data-source.ts`, `*/dto`, `database/migrations` | none at run time | validation, DDL | | assumptions of the models |

How they interact: the controllers call the services and the global exception
filter turns what a service throws into an answer, which is why a thrown 401
never sets a cookie. `ContactService` reaches `EmailService` only through the
in-process event bus. `ProjectsService` calls `UploadsService` to sign the cover
of every project it returns. Projects and auth share `withRetry`. Statistics
read the tables of projects, reviews and contacts. Nothing is persisted but the
database and the S3 objects; the counters of the throttler and the events of
`ContactService` go with the process.

## 2. Modules

| Module | Models | Notes |
|---|---|---|
| `TokenFamilies` | what the `refresh_tokens` table promises, every operation atomic | the abstract specification: `Spec` (what holds whatever overlaps), `DocumentedSpec` (the contract of `openspec/specs/auth-domain/spec.md`) |
| `RefreshTokens` | `AuthService.login`, `refresh`, `logout`, statement by statement | implements `TokenFamilies` (`Families == INSTANCE TokenFamilies`; the table is its state) |
| `BrowserSession` | the `rt` cookie of one browser against `RefreshTokens` | composes: EXTENDS `RefreshTokens` and adds the cookie, arriving and lost answers |
| `ContactPipeline` | `ContactService.create`, `ContactEmailListener`, `EmailService.send` | |
| `ProjectStore` | what `projects` and `project_urls` promise, every operation atomic | the abstract specification: `Spec` (whatever overlaps), `DocumentedSpec` (the contract of `openspec/specs/projects-domain/spec.md`) |
| `Projects` | `ProjectsService.create`, `update` with `applyProjectUrlsDiff`, `remove`, statement by statement | implements `ProjectStore` (`Store == INSTANCE ProjectStore`; the two tables are its state) |
| `ReviewStore` | what `reviews` and `review_comments` promise, every operation atomic | the abstract specification of the next three |
| `SaveById` | TypeORM's `save` of an entity that was read before | a component of its own, instantiated for `reviews` and for `contacts` |
| `Reviews` | `ReviewsService`, its lists included, statement by statement | `Store == INSTANCE ReviewStore WITH ...`, `Saved == INSTANCE SaveById WITH ...` |
| `AdminDesk` | the admin's inbox and the statistics | EXTENDS `Reviews`: shares its requests, adds the inbox and the projects |
| `Seeds` | the three programs of `src/src/cli`, beside the server | EXTENDS `AdminDesk`: runs of a seed are requests that work on the same tables |
| `Conversions` | what is computed from one request or setting: durations, mail texts, tags, booleans, pages, urls, files | operators only |
| `Routes` | every route, as its decorators declare it | a table of records |
| `Requests` | the way of a request: body parser, throttler, guard, interceptor and pipes, handler, filter | EXTENDS both |
| `RefreshTokensProofs`, `RefreshAnswersProofs`, `BrowserProofs`, `ContactProofs`, `ProjectsProofs`, `ProjectsSerialProofs`, `SeedsProofs`, `RequestsProofs` | theorems | see section 6; each EXTENDS its component, `RefreshAnswersProofs`, `BrowserProofs` and `ProjectsSerialProofs` also the proofs they build on |
| `MC...` | instances for TLC | sets of model values and the symmetry of the safety runs |
| `MCRefreshTurns`, `MCProjectsTurns` | the same, for clients of both kinds | `takeTurns` draws at the start of a behaviour whether its clients overlap freely or send a request only when no other is in flight; the `...InTurn` properties are the documented contracts, for the second kind |

### RefreshTokens

State and code. `table` is `refresh_tokens` as committed; a row is identified
with its token because `hashed_token` is UNIQUE and tokens are 256 random bits,
and a family (`familyId`, a fresh UUID) with the row its login inserted.
`revoked_at` is abstracted to whether it is set: no code reads its value.
`expired` holds the stored tokens whose `expires_at` has passed. `users` is the
table of accounts. `pc[r]` is the next statement of request `r`; `account`,
`presented`, `minted`, `attempt` and `snapshot` are its local variables.

| Action | Code |
|---|---|
| `LoginAccepted`, `LoginRejected`, `InsertRow` | `login`, `issueTokensForUser`: the look-up with bcrypt, then one INSERT |
| `Refresh` | the guards of `refresh` and the SELECT by hash, outside the transaction: 401, replay, or rotate |
| `RevokePresented`, `MintSuccessor`, `FindUser`, `Commit` | the transaction: UPDATE by id (takes the row lock), INSERT with the UPDATE of `replaced_by`, look-up of the user, COMMIT |
| `Abort` | PostgreSQL answers 40001 or 40P01 to any statement, `withRetry` starts again or gives up |
| `StartSweep`, `ApplySweep` | the UPDATE of reuse detection: its READ COMMITTED snapshot, then the wait for locks and the write |
| `Logout`, `RevokeOnLogout` | the SELECT and the UPDATE by id of `logout` |
| `Fail` | any other failure: the transaction rolls back and the client gets a 500, or nothing |
| `Expire`, `DeleteUser` | the clock and an operator (external) |

A transaction's writes are invisible until it commits, so `Commit` applies them
all; until then it only holds the lock of the presented row (`Locked`). The
acknowledgement of a commit or of a single statement may be lost: the write
stands and the request ends in `error`.

### BrowserSession

`Send` lets a tab send any request with the cookie of that moment, `Receive`
applies the Set-Cookie headers of an answer (`CookieAfter`), `Lose` is a browser
that gives up on an answer while the server may still be at work, `DropCookie`
is Max-Age. The controller tests `clearCookie` on a returned result only, and
all refusals are thrown, so a 401 changes no cookie.

### ContactPipeline

Per submission: `request` (where the POST is), `job` (where its listener is:
queued, calling Resend, recording, in the catch block, or ended), `kind` (which
of the two mails), `outcome`, `mails` (mails Resend accepted), `audit` (rows of
`sent_emails` by kind and status). `Submit`, `Store`, `StoreFails` and `Emit`
are `create`; `Dispatch` the listener's query; `CallResend`, `Record` and
`Recover` the body and the catch block of `EmailService.send`. A save can be
stored and still reject. `Crash` forgets what is in memory.

### Projects

State and code. `projects` and `urls` are the two tables as committed. Of the
columns that an update can set the model keeps `slug`, the one with a constraint,
and `published`, which stands for the others. A project is identified with the
request that creates it, and a url row with its project, its link (a title with
the url in lower case, the key of the diff) and the request that inserts it: a
body holds no link twice (`IsUniqueUrlInArray`). `body`, `seen` (the entity
`existing` that `update` reads before its transaction), `row` (the entity the
callback edits), `shared` (whether the two are one object, so that an edit
survives a retry), `writes`, `added`, `dropped` and `attempt` are locals.

| Action | Code |
|---|---|
| `Create` | the SELECT by slug of `create`, outside the transaction: 409 or on |
| `InsertRow` | the INSERT of `save`, with the translation of 23505 by `isSlugUniqueViolation` |
| `Update` | the pre-check of `update`, outside the transaction: 404 or on |
| `Fetch`, `CheckSlug` | the first statements of its callback, with `?? existing`, and the edit of the entity (`Edit`) |
| `PlanSave`, `WriteRow` | `save`: a SELECT by id that decides between INSERT and UPDATE of the columns that differ, then the write |
| `DiffUrls`, `WriteUrls` | `applyProjectUrlsDiff`: its SELECT with the diff, its INSERT and DELETE; `WriteUrls` also the INSERT of a create's urls |
| `Commit`, `Reply` | COMMIT; the read and the signing with which `create` ends, after it |
| `Remove`, `Delete` | `remove`: one DELETE that cascades |
| `Abort`, `Fail` | as in `RefreshTokens` |

Locks. A transaction that has written its row holds it (`HasRow`); with a new
slug it also holds the old and the new entry of the unique index (`HasSlug`) and
keeps foreign keys to the row waiting (`HasSlugOf`); an inserted url holds its
project against a delete and against a new slug (`HasReference`, `HasUrls`).
A statement that meets a lock (`Awaits`, `Waits`) is not enabled until it is gone. The two
statements of `WriteUrls` are one action: between them the transaction shows
nothing and reads nothing. A body with `urls: null` acts as the empty list; one
with `null` for a column that is NOT NULL is a failing statement (`Fail`).

### Reviews, AdminDesk and Seeds

State and code. `reviews` gives each review `"waiting"`, `"listed"` or
`"absent"`: the row with its `is_approved`, or none. A review is identified with
the request that inserts it and, for the seed, its place in the SEED; a comment
with its review, its author and a number. `entity` is the column that a request
is about to save, or the filter of its list, `counts` what a list has read.
Of a project the desk needs only whether it is there, of this month, and with
its urls (`works`); its title, whether it is published, never changes here.

| Action | Code |
|---|---|
| `Create`, `Remove` | one statement each; the cascade of the foreign key is part of `Remove` |
| `ToggleApproval`, then `Saved!Save` | the `findOne` and the negation; `save` with its SELECT, and INSERT, UPDATE or nothing |
| `AddComment`, `InsertComment` | the `findOne` of the parent; the INSERT, which the foreign key may refuse |
| `FindAllApproved`, `FindAllForAdmin`, `Count` | `getManyAndCount`: the rows, and the count when they leave the total open |
| `ListComments`, `ReadComments`, `CountComments` | `findApprovedCommentsByReviewId`: the parent, then the same two queries |
| `UpdateStatus`, then `InboxSaved!Save` | `ContactService.updateStatus` |
| `FindAllContacts`, `CountLetters` | the list of the inbox |
| `GetAdminStats`, `AnswerFigure` | `getAdminStats`: four queries, answered in any order, each of a state of its own |
| `SeedSuperuser`, `ChangePassword`, `InsertSuperuser` | `seed-superuser.ts` |
| `StartProjectSeed`, `InsertWork`, `InsertUrls` | `seed-projects.ts`, project after project, without a transaction |
| `StartReviewSeed`, `InsertReview`, `InsertSeedComments` | `seed-reviews.ts` |
| `Fail` | the connection or the process of a request goes |

Every statement here is its own transaction: none of these handlers opens one.
A seed ends where a statement fails (exit code 1) and leaves what it has written.
`Done` are the answers and the ends of the seeds: such a request is open no more.

### Requests

`hits` and `blocked` are the storage of `@nestjs/throttler`, per handler and
client; a hit is the number of its request and the ticks it still counts. `Tick`
is the time that passes, `Restart` a new process. A request meets the parsers of
Express first, which Nest puts in front of every route: `Unread` is one they
cannot read. A malformed body or path is a 400, any other of their errors (a
body above 100 kb, an unknown charset) none of Nest's, for `Catch`, the
`AllExceptionsFilter`, a 500 in production and out of it; the throttler does not
count it and nobody looks at its token (`ReadError`). `Request` is one that was
read: `Hit` counts it unless the route is skipped, then come `JwtAuthGuard`, the
pipes, the handler, and the filter again. A handler
succeeds or throws any of the errors it can throw; what it does to the tables is
in the other modules. `last` is the last request with its answer, over which the
properties speak, and `admitted` the history of the last window. `Loads` says
what is sent in a behaviour, so that one run has every route once with every
input, and floods of a few.

## 3. Runs

| Run | Question | Bounds | Result |
|---|---|---|---|
| `refresh_safety` | What holds whatever overlaps, and does the documented contract hold for clients that take turns? | 4 requests, 4 tokens, 1 user, 2 attempts; all open at once, or in turn | 90 440 states, holds |
| `refresh_liveness` | Is every request answered? | 3 requests, 3 tokens, 3 attempts, fairness, no symmetry | holds |
| `refresh_replay` | Does the answer to a replay leave no valid row? | 4 requests | violated: rotation in its transaction |
| `browser_serial` | Does the cookie follow the rotations? | 4 requests, one answer awaited at a time, 2 at work on the server | 185 683 states, holds |
| `browser_refused` | Is the cookie cleared by the 401 to a replay? | 4 requests | violated: the handler throws |
| `contact_mails` | Which mails go out, what does the audit say, and is every accepted submission mailed about? | 2 submissions, 1 crash, fairness | 130 490 states, holds |
| `contact_rows` | Does an attempt write exactly one row? | 2 submissions, no crash | violated: the catch block writes a second one |
| `projects_writes` | What holds whatever overlaps, and does the documented contract hold for clients that take turns? | 3 requests, 1 project there from the start, 2 slugs, 2 attempts; all open at once, with 1 link and 3 bodies of updates, or in turn, with 2 links and 5 bodies | 381 899 states, holds |
| `projects_restored` | Does a deleted project stay deleted? | 2 requests | violated: an update saves it again |
| `desk` | What do reviews, inbox, statistics and seeds do to each other's rows? | 2 requests or runs of any kind, in turn or overlapping, 3 of the reviews or of seed-projects; 1 review, 1 letter, 2 slugs, pages of 1 row | 201 636 states, holds |
| `desk_comments` | Are the comments of a review approved with it? | as `desk` | violated: nothing approves a comment |
| `requests` | What is a request answered with, on its way through parser, guards, pipes, handler and filter? | every route with every input once, and with a body that cannot be read; floods of 5 on three routes by 2 clients, windows of 2 ticks, 3 ticks, restarts | 303 006 states, holds |

The properties, by what they guard against:

* A rotation is never half visible: `LinksStayInFamily`,
  `ImplementsTokenFamilies`; and chains of rotations end: `ChainsEnd`.
* What a client was told stays true: `AnswersStayTrue`.
* Checks that are made outside the transaction: `SpentTokenGainsNoRotation`
  (the requests rotating a spent or expired token only become fewer),
  `ClosedFamilyStaysClosed`, `GoneUserGetsNoRows`.
* The documented contract of the tokens, for clients that take turns:
  `ReplayRevokesEveryRowInTurn`, `ImplementsDocumentedFamiliesInTurn`.
* Waits and retries come to an end: `RequestsAreAnswered`.
* The session seen from the browser: `NoFalseAlarm`, `CookieIsTheLastToken`,
  `LogoutEndsTheSession`.
* The mails: `NoMailTwice`, `AuditClaimsNoUnsentMail`, `AttemptsAreAudited`,
  `ReplyFollowsNotification`, `MailsNeverChangeAnswers`,
  `SubmissionsAreNotified`, `ListenersEnd`.
* A project is written with its urls or not at all, and slugs stay unique:
  `ImplementsProjectStore`.
* A 409 is founded, also when it comes from the index: `ConflictsAreReal`.
* Locks make no circle: `SomeoneCanGoOn`. It says that some open request can take
  a step that is not an abort; that retries end is in `TypeOK` (`attempt`). The
  locks are one operator, `Awaits(r, q)`: whose transaction the next statement of
  `r` waits for.
* The documented contract of projects, for clients that take turns:
  `OnlyNamedFieldsChangeInTurn`, `RemovedStaysRemovedInTurn`,
  `ImplementsDocumentedStoreInTurn`.
* A comment never outlives its review, and a request writes one review at a
  time, seeds included: `ImplementsReviewStore`.
* What the admin sees and does: `SavesTakeEffect` (a toggle toggles and a status
  is stored, serial only), `RemovedStaysRemoved` of `Reviews` (serial only: a
  toggle that overlaps saves the review again).
* What a failed seed leaves: `AtMostOneBare` (one project at most stays without
  its urls, however many runs overlap or fail). The projects that an admin
  creates or deletes meanwhile are outside the model: when the first slug of the
  seed is deleted, a later run starts over and may leave a second one.
* The throttler: `LimitHolds`, of the requests that reach it: those the parser
  refuses are not counted, here as in the code. The order of parser, guards,
  pipes and handler: `TokensDecide`; the filter: `ProductionHidesErrors`.
* Conversions that have a counterpart they must agree with:
  `ExpiresInIsTheTokens`, `MailsQuoteTheForm`, `ListsFindWhatIsAsked`.
* What a visitor's text can do to a mail: `MailsLoseNoWord`. A form with the
  patterns of `replaceAll`, or with placeholders, is not quoted as it was sent;
  what stays true of any form is that the copy of the template and every word of
  every field are still there, as often and in the order they belong, and that
  the substitution only adds text or uses up the patterns and placeholders.
* `TypeOK` of `RefreshTokens` and of `Projects`, `SeedsTypeOK` for the rest.

### Why the bounds are enough

The worst cases of a family are three requests on it: two that overlap on one
token and one that comes to the result (a replay, a logout, a third rotation).
With the login that opens it, that is four. Every request mints at most one
token that stays, so as many tokens as requests never run out, and `Fresh` is
never empty when a mint is due. A second attempt is the first retry; the third
of the code (`MaxAttempts = 3`) is reached in `refresh_liveness`. One user has
several families, and nothing in the code reads the user of a row but to copy
it; the theorems are for any number of users. The run with clients that take
turns has the same requests, so that a retry, a lost answer and a replay still
meet, one after the other. In `ContactPipeline` submissions meet in a crash only, so
two are enough, and after a crash nothing of a submission runs again, so one
crash is.

In `Projects` the worst cases known are a delete between the pre-check and the
save of an update, and that with a second update that also saves the row again;
or two that want one slug and one that frees it: three requests. Two slugs are a
slug and another one, two links a list and a disjoint one. An update has a body
that names one field, and one that names all. The link matters to overlapping
requests for the foreign key only, and one is enough; the diff of lists is what
the clients that take turns check, with two.

In `Seeds` a behaviour draws one of four loads (`TheLoads`): any two requests in
turn, any two that overlap, three of the reviews, three runs of seed-projects. A
third request matters where two of them hold something they have read while it
changes the row, which only the reviews and the slugs of the seed offer. `MCInit`
fixes the rows that a load cannot touch, so that TLC does not repeat each load
for every state of tables it never reads. A page of one row makes a second
page, and the second statement of a list, come up with one review.

In `Requests` one request decides every property but `LimitHolds`, which needs
a limit passed, a block, the end of a window and what comes after it: limits of 1
to 3, a window of 2 ticks, 3 ticks and five requests. The inputs are the classes
that the conversions tell apart: a field of the form is a word, alone or with one
of the placeholders or of the four patterns, in every combination of the fields; a tag is one of two words or blank, odd in its spelling
or not; a number lies at a bound, beyond it, or is none. The run does not check
for deadlock because `sent` and `ticks` end its behaviours; the server's waiting
is `Idle` in `Seeds` and `Finished` in the others.

Requests, tokens and users are interchangeable: safety runs use their
permutations as symmetry; liveness runs do not.

### Where the code and its documentation part

Five runs show a disagreement, each from a document or comment of the
repository; PROJECT.json quotes them under "findings". Two come from what was
read before a transaction (`refresh_replay`, `projects_restored`), one from a
throw that skips the cookie (`browser_refused`), one from a save inside a `try`
block (`contact_rows`): a save that is stored and still rejects leaves a second,
`failed` row for a mail that was accepted. `AttemptsAreAudited` says what is left
of "exactly one row": at least one, and a second only as a `failed` one. The
last (`desk_comments`) is an operation that is missing: comments are stored
unapproved, the comments of the code and the specification of the reviews expect
the admin to approve them, and nothing in the repository does, so the public
list of comments stays empty.

The serial contracts do not survive an overlap either, for the same reason: two
refreshes with one token leave the successor of the first unlinked, two updates
with the same new url insert it twice, and a toggle inserts a review again that
was deleted after it had read it. `SpentTokenGainsNoRotation`,
`ImplementsProjectStore` and `ImplementsReviewStore` say what is left of them.

Met while reading, and modelled as the code has it:

* `email-renderer.ts:15` calls the substitution single-pass, and line 31 says
  that the templates' structure is not touched; it is one `replaceAll` after the
  other (41-47), which fills in placeholders of the visitor's text and gives
  `$$`, `$&`, `` $` `` and `$'` a meaning: a dollar, the placeholder, and the
  text of the whole mail before and after it. `MailsQuoteTheForm` is about texts
  without them, `MailsLoseNoWord` about all.
* A page size above 100 is a 400 (`@Max(100)`), not clamped as
  `projects.service.ts:72-73` and `list-projects-query.dto.ts:22-24` say.
* `uploads.controller.ts:53-73` documents a 400 for a file that is too large; the
  interceptor answers 413, and the test of the size in the handler is not reached.
* `README.md:195`, `openspec/specs/reviews-throttling/spec.md:40` and
  `reviews/throttle.decorator.ts:26-28` say the throttler's guard is not global;
  `app.module.ts:109` registers it globally. The comment above it (103-108) and
  `contact/throttle.decorator.ts:22-25` let the admin routes fall under the
  default tracker; all of them carry `@SkipThrottle()`, and `Routes` has what the
  decorators say. So no guarded route answers 429, which `TokensDecide` and
  `GuardedRoutes` need.
* `list-projects-query.dto.ts:50-53`: `?tags=A&tags=b` is not normalised as
  `?tags=A,b` is. `ListsFindWhatIsAsked` is about the second form.
* `create-project.dto.ts` has no transform for `isPublished`: the text `"false"`
  becomes `true`. A project with the slug `admin` is shadowed by
  `GET projects/admin`. Neither is modelled.
* `auth.service.ts:37`: a unit of `JWT_EXPIRES_IN` that the pattern does not know
  is 900 seconds. `ExpiresInIsTheTokens` is about the units it knows.

## 4. Fairness

`RefreshTokens!FairSpec` assumes weak fairness of `Progress(r)`: a handler that
has begun is resumed after every await and its queries are served. Weak
fairness is enough because a lock, once free, stays free for a waiting request
unless another request takes it, and requests are finitely many. Nothing is
assumed of clients, the clock, aborts or failures. `ContactPipeline!FairSpec`
is the same for `Progress(c)`: a query or a call of Resend ends, one way or
another (the SDK and the pool have time-outs); a crash needs no fairness. The
other modules promise nothing in the end: their requests wait for no one, or,
in `Projects`, for locks that `SomeoneCanGoOn` is about.

## 5. Assumptions about what is not in the repository

PostgreSQL at READ COMMITTED: an UPDATE finds its rows in the snapshot of its
start, waits for a locked row and tests its WHERE again on the committed
version; uncommitted writes are invisible; a failed transaction leaves nothing.
`crypto.randomBytes(32)` and `randomUUID` never repeat (`NewIdsAreFresh`). The
event bus swallows what a listener rejects with. TypeORM's `save` of an entity
with an id SELECTs it first and INSERTs when there is no row, and else UPDATEs
the columns that differ, or nothing; an UPDATE of a row that is gone is not an
error (`SaveById`, marked external). Its `getManyAndCount` does not count when
the page is neither full nor empty beyond the first: it is the version that
`package-lock.json` pins. The name of the unique constraint, `UQ_projects_slug`,
is part of PostgreSQL's message. Resend may accept a mail and lose the answer.
`@nestjs/throttler` keeps a hit for a window, blocks a client for a window with
the hit after the limit, counts nothing while it is blocked, and forgets its
hits with the end of the block; all windows have one length here. Multer
refuses a file above its limit with a 413 before the handler runs.
`NestFactory.create` registers Express' body parsers before all routes, and
hands a `SyntaxError` or `URIError` of theirs to the filter as a
`BadRequestException`, any other error as it is.
`@nestjs/jwt` takes JWT_EXPIRES_IN as a duration of the `ms` package and signs
whole seconds.

## 6. Proofs

For all sets of requests, tokens, users, submissions, projects, reviews and
seeds, and all bounds. The assumptions are those that the modules name: NULL is
no value, bounds are positive numbers, ids of new rows are fresh
(`NewIdsAreFresh`, `NewReviewsAreNew`), the constants of `Seeds` have their types, and those of
`Requests` send what the routes take: durations with a whole number
(`ExpiriesAreNumbers`), queries with words for tags (`QueriesHaveTags`), forms
whose fields are texts when they pass the validation (`FormsAreTexts`), and an `Absent` that is neither a boolean nor the text of one (`AbsentIsNoText`). TLC
evaluates each of them in the runs.

| Theorem | Statement | Argument |
|---|---|---|
| `RefreshTokensProofs!TypeCorrect` | `Spec => []TypeOK` | `IndType` strengthens `TypeOK` with what a `pc` says of the locals (a request that rotates has a stored presented token, one in `commit` has a minted one) and with the shape of rows (no family without a user) |
| `LinksCorrect` | `Spec => []LinksStayInFamily` | needs `MintsAreApart`: what a transaction is about to insert is not stored and no other request's, so a commit never overwrites a row |
| `ChainsCorrect` | `Spec => []ChainsEnd` | a commit points a row to a row that was not stored before and has no successor: a set of stored rows that contains the new one has it as its end, one that does not had an end before |
| `RefinesTokenFamilies` | `Spec => ImplementsTokenFamilies` | every step that writes is `OpenFamily`, `Rotate` or `RevokeIn` (which needs that a sweep's snapshot stays within one family), every other one a stutter |
| `LocksCorrect` | `Spec => []LocksAreExclusive` | `RevokePresented` waits for the lock, and no other step enters a transaction |
| `WorkIsBounded` of `RefreshTokensProofs`, `ContactProofs`, `ProjectsProofs` | `Spec => []WorkFits /\ WorkOnlyShrinks` | `Work(r)` counts the statements left, with those of the attempts that may follow; `ActsGoOn`, `StepsGoOn` and `ProgressGoesOn` say where each step takes its request |
| `RefreshAnswersProofs!ClosedFamiliesCorrect` | `Spec => ClosedFamilyStaysClosed` | a valid row comes from a login, of a token that had no family, or from a rotation of the family, and a closed family has neither a rotation under way nor a row that could start one |
| `AnswersCorrect` | `Spec => []AnswersStayTrue` | `revoked` is never reset and rows are never lost; `Answers` follows the request from its last statement |
| `SpentTokensCorrect` | `Spec => SpentTokenGainsNoRotation` | only `Refresh` starts to rotate, and not a spent token; a retry stays with its token |
| `GoneUsersCorrect` | `Spec => GoneUserGetsNoRows` | only `LoginAccepted` and `FindUser` lead past the look-up of an account, and neither finds one that is gone; a row comes from a request that is past it |
| `ReplayCorrect`, `RefinesDocumentedFamilies` | if `MaxInFlight = 1`: `Spec => ReplayRevokesEveryRow`, `Spec => ImplementsDocumentedFamilies`, for clients that take turns | `SerialInv`: no two requests are in flight, so what the one in flight has read of the table is still so (`ReadsAreCurrent`); its last statement does then to the table what the documented operation does in one step |
| `BrowserProofs!BrowserIsAClient` | if `MaxOpen = 1`: `SessionSpec => Spec` | every step of the composition is one of the server or leaves its variables alone, so the theorems above hold of it |
| `NoFalseAlarmCorrect`, `CookieCorrect`, `LogoutCorrect` | if `MaxOpen = 1`: `SessionSpec => []NoFalseAlarm`, `[]CookieIsTheLastToken`, `[]LogoutEndsTheSession` | `BrowserInv`: what the browser holds, in its cookie or in the request it awaits, is the only valid token it has of that family (`IsTheLast`) and of no session it has left (`NotLeft`); without a mishap nothing it holds is revoked but by the answer on its way (`Calm`). `MaxInFlight` is any number: the server may still be at work on requests the browser has given up on |
| `ContactProofs!TypeCorrect`, `MailsCorrect`, `AuditCorrect`, `AttemptsCorrect`, `OrderCorrect`, `AnswersCorrect` | `Spec => []P` for `TypeOK` and the five safety properties of `contact_mails` | one invariant for all: `Shape(c)` tells from the place of a listener what it has done for the mail it is at, the one before and the one after |
| `ContactProofs!NobodyIsForgotten` | `Spec => []NoneIsForgotten` | an answer of 201 goes with an event (`HasListener`), and a listener at the auto-reply has left a row for the notification |
| `ProjectsProofs!TypeCorrect`, `StoreImplemented`, `ConflictsCorrect` | `Spec => []TypeOK`, `Spec => ImplementsProjectStore`, `Spec => ConflictsAreReal` | `Inv`, below |
| `LocksMakeNoCircle` | `Spec => []NoCircleOfLocks` | among any requests one awaits no other of them: what an INSERT, an UPDATE or a DELETE of a project waits for is past its write; the urls wait only for a commit, or for a slug that is being written, which is another's by `Apart`; and a commit waits for nobody |
| `OpenRequestsGoOn` | `Spec => []SomeoneIsFree` | `LocksMakeNoCircle`, for the set of the open requests: those that are not open hold no lock |
| `ProjectsSerialProofs!RemovalCorrect`, `UpdatesAreMinimal`, `RefinesDocumentedStore` | if `MaxInFlight = 1`: `Spec => []RemovedStaysRemoved`, `Spec => OnlyNamedFieldsChange`, `Spec => ImplementsDocumentedStore` | `SerialInv` adds to `Inv` that the entity of an update differs from its row in what the body names only, that the planned urls are the difference to the body's list (`Current`), and that a removed project has no create that could still write it (`Gone`) |
| `SeedsProofs!StoreImplemented` | `SeedsSpec => ImplementsReviewStore` | `Inv`: types, with every comment unapproved, and what a statement tells of its request's locals (`LocalsFit`); each step leaves the others alone and is one of `ReviewStore` or none of it (`Fits`) |
| `SeedsProofs!AtMostOneBareCorrect` | `SeedsSpec => []AtMostOneBare` | `OneRun`: a run that is past the first slug has inserted it itself, so there is one at most, and a project without urls is the one that run is at |
| `RemovalCorrect`, `SavesCorrect` | `SeedsSpec => []RemovedStaysRemoved`, `SeedsSpec => SavesTakeEffect`, which speak of loads with one request at a time | `SerialInv`: what a toggle has read of its review is still so (`Current`), a removed review is not there, and the request or seed that stored it is over (`Gone`) |
| `SeedsProofs!TypeCorrect` | for finite sets of reviews, letters and projects: `SeedsSpec => []SeedsTypeOK` | a list's total and the four figures are cardinalities of sets of rows, which are numbers because a table is finite: hence the hypotheses |
| `RequestsProofs!LimitsCorrect` | `Spec => []LimitHolds` | `LimitInv`: a counter that does not block still counts all it has admitted in the last window (`admitted[key] \subseteq hits[key]`); one that blocks has admitted no more than its limit, and all of it is older than a window when the block ends and the hits are forgotten (`CounterHolds`). The limit that the decorators give each route is the one that is documented (`LimitedAre`, over the table of `Routes`) |
| `RequestsProofs!TokensCorrect` | `Spec => []TokensDecide` | every guarded route is exempt from the throttler and throws no 401 of its own (`GuardedRoutes`, over the table of `Routes`); `Answers` lists the answers of a request in the order of the guards; one that cannot be read is answered 400 or 500 |
| `ErrorsCorrect` | `Spec => []ProductionHidesErrors` | an answer is raw only through `Catch`, and `production` belongs to the load, which no step changes |
| `ExpiryCorrect` | `Spec => []ExpiresInIsTheTokens` | `DurationsAgree`: for whole milliseconds of any number, rounding to the nearest second, at least one, exceeds rounding down by at most one |
| `ListsCorrect` | `Spec => []ListsFindWhatIsAsked` | `QueryWasSent`: the query in `last` is one of the load; normalised tags are equal exactly when their words are (`SameWords`) |
| `MailsCorrect` | `Spec => []MailsQuoteTheForm` | below |

**The invariant of `Projects`.** A commit applies what was planned several
statements earlier, so it must still be true then: that is `Held(r)`. The row
to be updated is there, the slug to be written is nobody else's, the urls to be
inserted have their project. What keeps it so are the locks, which the guards of
`InsertRow`, `WriteRow`, `WriteUrls` and `Delete` wait for, and which the
invariant has as `Apart(r, q)`: two transactions that write have different
projects and different slugs. `Unborn(r)` says that a project is neither stored
nor being written before its create has begun, which gives a 409 of `create`
another holder than itself. The lemmas `...Moves` give what a step does to the
locals, `StoreKeeps` what the operations of `ProjectStore` leave of the tables,
`CommitStores` that a commit is an update of the store or finds nothing left to
update.

**What "one at a time" assumes.** The hypotheses `MaxInFlight = 1` and
`MaxOpen = 1` are about the clients. `MaxOpen` has this value in `browser_serial`;
`refresh_safety` and `projects_writes` check the same of the behaviours whose
clients take turns (`takeTurns`), under names that end in `InTurn`; the load of
the desk says it with `atOnce = 1`. The requests still fail, lose their answers, are
aborted and retried. Without the hypotheses the documented contracts are false:
`refresh_replay` and `projects_restored` are counterexamples. `SerialInv` of the
tokens, the projects and the desk, and `LimitInv`, were checked by TLC on small
instances before they were proved.

**Texts of any length.** `Substitute` calls `replaceAll` four times, each on the
text the one before has left; `MailsQuoteTheForm` says that a harmless form comes
out as if its fields were filled in at once. Both sides concatenate, with a
recursive function of the library, as many pieces as the text has symbols, so
the proof needs induction. The library states it for an operator, which
the provers cannot instantiate; here it is stated for a set, as a consequence of
the least element of a set of naturals (`InductionOnNat`, `InductionOnSeq`). On
it rest what the concatenation adds for each symbol (`FlattenAppend`), that a
text is spelled out part by part (`SpelledConcat`) and that two substitutions
in a row are one (`SpelledTwice`, `Chained`). `SubstituteIs` then compares the
four calls with the single pass symbol by symbol, and this is where a form must
be harmless: a name that contains the placeholder of the message would be
spelled out again, and a pattern would stand for what is around it.

**What is left of liveness.** That requests are answered and listeners end needs
three things: that no one is kept busy for ever, that waits for locks end, and
that a step which can be taken is taken. The first is `WorkIsBounded`: four
statements per attempt of a rotation, seven per attempt of a create or update
and its reply, ten steps for a submission. The second is `LocksCorrect` (a waiting
request waits for one transaction, which waits for nothing) and
`OpenRequestsGoOn`. The third is the fairness of section 4, and TLC checks what
it adds.

All properties of the passing runs are proved, those that end in `InTurn` as
the theorems `ReplayCorrect`, `RefinesDocumentedFamilies`, `RemovalCorrect`,
`UpdatesAreMinimal` and `RefinesDocumentedStore` of clients that take turns, but
these, which are only model-checked:

* `SomeoneCanGoOn`, which is about ENABLED, and out of the prover's reach.
  `OpenRequestsGoOn` proves what it says of the waits, for any number of
  requests; that a statement that waits for nobody can be executed, whatever it
  finds, is left to TLC.
* All liveness: `RequestsAreAnswered`, `SubmissionsAreNotified`, `ListenersEnd`,
  of which `WorkIsBounded` and `NobodyIsForgotten` prove the safe part.
* `MailsLoseNoWord`, which counts words with a fold over texts that the
  patterns make of any length, and would need induction at every fold.

## 7. Not modelled, and the plan

Not modelled, and why:

* The object of an upload and its key (`covers/<uuid>`): nothing else in the
  system reads or deletes it. The refusals of an upload are in `Requests`.
* CORS, Swagger, the Joi schema, the pool of the DataSource and the migrations as
  scripts: start-up code in a straight line, without state. The keys,
  constraints and cascades the migrations create are in the modules.
* Limits of length and patterns of the DTOs: the choice between a valid and an
  invalid body. The response DTOs are types.
* The filter of reviews by rating: it narrows a list by a column that nothing
  else reads.
* The internals of bcrypt, JWT, Multer and S3. The password check is the choice
  between `LoginAccepted` and `LoginRejected`. The access cookie `at` is left
  out of `BrowserSession`: no handler modelled there reads it.
* The pause of `withRetry` between attempts: others may run between any two
  statements anyway.
* The superuser of `Seeds` and the `users` of `RefreshTokens` are two models of
  one table: a change of the password touches no refresh token.

What could follow: the browser with two tabs (`MaxOpen = 2`) and two accounts,
where `NoFalseAlarm` needs a weaker form; the seeds of a database whose migrations
are run half-way; a window of its own length for each limit.
