------------------------------ MODULE Projects ------------------------------
(***************************************************************************)
(* The writing handlers of src/src/projects/projects.service.ts: create,   *)
(* update with the diff of the urls, and remove, run by requests that      *)
(* interleave at every await, in READ COMMITTED transactions that          *)
(* withRetry starts again.                                                 *)
(*                                                                         *)
(*   idle -> insert -> (links) -> commit -> reply -> created               *)
(*   idle -> fetch -> (check) -> plan -> (write | insert) -> (diff -> links) *)
(*        -> commit -> updated                                             *)
(*   idle -> delete -> removed                                             *)
(*   ... -> conflict | notFound                     a 409, a 404           *)
(*   ... -> error                                   a 500, or no answer    *)
(*                                                                         *)
(* A transaction's writes are invisible until it commits, so Commit        *)
(* applies them; until then it holds locks, which writes and added follow. *)
(***************************************************************************)
EXTENDS Naturals, FiniteSets

CONSTANTS
  Requests,
  Existing,     \* ids of projects that are there from the start
  Slugs,
  Links,
  Patches,      \* the bodies clients send to update; see PatchBody
  MaxAttempts,  \* withRetry's maxAttempts
  MaxInFlight,  \* how many requests the clients keep open at a time
  None

\* A project is identified with the request that created it.
Ids == Requests \cup Existing

\* An absent field is None.  An empty list of urls and an absent one differ.
PatchBody == [slug : {None} \cup Slugs,
              published : {None} \cup BOOLEAN,
              links : {None} \cup SUBSET Links]

ASSUME NoneIsNoValue == None \notin Ids /\ None \notin Slugs /\ None \notin BOOLEAN
ASSUME NewIdsAreFresh == Requests \cap Existing = {}
ASSUME PatchesAreBodies == Patches \subseteq PatchBody
ASSUME SomeAttempts == MaxAttempts \in Nat \ {0}
ASSUME SomeInFlight == MaxInFlight \in Nat

VARIABLES
  projects,  \* the table projects, as committed
  urls,      \* the table project_urls, as committed
  pc,        \* per request: its next statement, or its answer
  target,    \* per request: the project it creates, updates or removes
  body,      \* per create or update: the body it was sent
  seen,      \* per update: the row its pre-check has read
  row,       \* per create or update: the entity its callback works on
  shared,    \* per update: whether that entity is the one of the pre-check
  writes,    \* per transaction: the columns it writes, "id" for an INSERT
  added,     \* per transaction: the links it inserts
  dropped,   \* per transaction: the url rows it deletes
  attempt    \* per transaction: withRetry's attempt counter

callback == <<row, shared, writes, added, dropped>>
locals == <<target, body, seen, callback, attempt>>
vars == <<projects, urls, pc, locals>>

Store == INSTANCE ProjectStore

Stored(p) == Store!Stored(p)
Holders(s) == Store!Holders(s)
UrlsOf(p) == Store!UrlsOf(p)
LinksOf(p) == Store!LinksOf(p)

Columns == {"slug", "published"}
EmptyBody == [slug |-> None, published |-> None, links |-> None]

-----------------------------------------------------------------------------
InTransaction == {"fetch", "check", "plan", "write", "insert", "diff", "links", "commit"}
InFlight == InTransaction \cup {"reply", "delete"}
Final == {"created", "updated", "removed", "conflict", "notFound", "error"}

IsCreate(r) == target[r] = r

\* A faulty variant: the row is locked, shared, by the SELECT before the
\* write, so that two updates wait for each other.
Wrote_AfterSharedRead(r) ==
  IF pc[r] \in {"write", "diff", "links", "commit"} THEN writes[r] ELSE {}

\* What a transaction has locked: its project, exclusively for the foreign
\* keys that refer to it when it has written the slug, the old and the new
\* slug in the unique index, and, shared, the project its new urls refer to.
Wrote(r) == IF pc[r] \in {"diff", "links", "commit"} THEN writes[r] ELSE {}
HasRow(r, p) == target[r] = p /\ Wrote(r) # {}
HasSlugOf(r, p) == target[r] = p /\ "slug" \in Wrote(r)
HasSlug(r, s) == "slug" \in Wrote(r) /\ s \in {row[r].slug, projects[target[r]].slug}
HasReference(r, p) == target[r] = p /\ pc[r] = "commit" /\ added[r] # {}
HasUrls(r, p) == target[r] = p /\ pc[r] = "commit" /\ added[r] \cup dropped[r] # {}

\* The next statement of r waits for the transaction of q: an INSERT for a
\* writer of the same key; an UPDATE for the row and, when it writes the slug,
\* for new references to the row and for a writer of that slug; an INSERT of
\* urls for the slug of their project, a DELETE of urls for whoever deletes
\* the same ones; the DELETE of a project for all that is locked of it.
Awaits(r, q) ==
  LET p == target[r] IN
  \/ pc[r] = "insert" /\ (HasSlug(q, row[r].slug) \/ HasRow(q, p))
  \/ pc[r] = "write" /\ HasRow(q, p)
  \/ /\ pc[r] = "write" /\ "slug" \in writes[r]
     /\ HasReference(q, p) \/ HasSlug(q, row[r].slug)
  \/ pc[r] = "links" /\ added[r] # {} /\ HasSlugOf(q, p)
  \/ pc[r] = "links" /\ pc[q] = "commit" /\ dropped[q] \cap dropped[r] # {}
  \/ pc[r] = "delete" /\ Stored(p) /\ (HasRow(q, p) \/ HasUrls(q, p))

Waits(r) == \E q \in Requests \ {r} : Awaits(r, q)

CanStart(r) ==
  /\ pc[r] = "idle"
  /\ Cardinality({q \in Requests : pc[q] \in InFlight}) < MaxInFlight

Goto(r, label) == pc' = [pc EXCEPT ![r] = label]

\* The variables of a callback, when it starts, is rolled back or is over.
ClearCallback(r) ==
  /\ row' = [row EXCEPT ![r] = Store!NoRow]
  /\ shared' = [shared EXCEPT ![r] = FALSE]
  /\ writes' = [writes EXCEPT ![r] = {}]
  /\ added' = [added EXCEPT ![r] = {}]
  /\ dropped' = [dropped EXCEPT ![r] = {}]

\* The end of a transaction and of its variables, whatever it wrote.
Leave(r, answer) ==
  /\ Goto(r, answer)
  /\ ClearCallback(r)
  /\ seen' = [seen EXCEPT ![r] = Store!NoRow]
  /\ body' = [body EXCEPT ![r] = EmptyBody]
  /\ attempt' = [attempt EXCEPT ![r] = 0]
  /\ UNCHANGED target

\* An exception inside the transaction: it rolls back.
Refuse(r, answer) == Leave(r, answer) /\ UNCHANGED <<projects, urls>>

-----------------------------------------------------------------------------
Init ==
  /\ \E slugOf \in [Existing -> Slugs] :
       /\ \A p, q \in Existing : slugOf[p] = slugOf[q] => p = q
       /\ projects = [p \in Ids |-> IF p \in Existing
                                    THEN [slug |-> slugOf[p], published |-> FALSE]
                                    ELSE Store!NoRow]
  /\ \E links \in SUBSET Links :
       urls = {u \in Store!UrlRow : u.project \in Existing /\ u.link \in links /\ u.by = u.project}
  /\ pc      = [r \in Requests |-> "idle"]
  /\ target  = [r \in Requests |-> None]
  /\ body    = [r \in Requests |-> EmptyBody]
  /\ seen    = [r \in Requests |-> Store!NoRow]
  /\ row     = [r \in Requests |-> Store!NoRow]
  /\ shared  = [r \in Requests |-> FALSE]
  /\ writes  = [r \in Requests |-> {}]
  /\ added   = [r \in Requests |-> {}]
  /\ dropped = [r \in Requests |-> {}]
  /\ attempt = [r \in Requests |-> 0]

-----------------------------------------------------------------------------
\* create, up to the result of the SELECT by slug, outside the transaction.
Create(r, s, links) ==
  /\ CanStart(r)
  /\ target' = [target EXCEPT ![r] = r]
  /\ body' = [body EXCEPT ![r] = [slug |-> s, published |-> FALSE, links |-> links]]
  /\ \/ /\ Holders(s) # {}
        /\ Goto(r, "conflict")
        /\ UNCHANGED <<row, writes, attempt>>
     \/ /\ Holders(s) = {}
        /\ Goto(r, "insert")
        /\ row' = [row EXCEPT ![r] = [slug |-> s, published |-> FALSE]]
        /\ writes' = [writes EXCEPT ![r] = Columns \cup {"id"}]
        /\ attempt' = [attempt EXCEPT ![r] = 1]
  /\ UNCHANGED <<projects, urls, seen, shared, added, dropped>>

\* After its row, a create goes on to the urls it was sent, an update to the
\* diff, unless the body has no list of urls.
AfterRow(r) ==
  \/ /\ IsCreate(r) /\ body[r].links # {}
     /\ Goto(r, "links")
     /\ added' = [added EXCEPT ![r] = body[r].links]
  \/ /\ IsCreate(r) /\ body[r].links = {}
     /\ Goto(r, "commit")
     /\ UNCHANGED added
  \/ /\ ~IsCreate(r)
     /\ Goto(r, IF body[r].links = None THEN "commit" ELSE "diff")
     /\ UNCHANGED added

\* A faulty variant: every unique violation is taken for one of the slug.
InsertRow_AnyUniqueViolation(r) ==
  /\ pc[r] = "insert"
  /\ ~Waits(r)
  /\ \/ /\ Stored(target[r]) \/ Holders(row[r].slug) # {}
        /\ Refuse(r, "conflict")
     \/ /\ ~Stored(target[r]) /\ Holders(row[r].slug) = {}
        /\ AfterRow(r)
        /\ UNCHANGED <<projects, urls, target, body, seen, row, shared, writes, dropped, attempt>>

\* INSERT of the project.  It waits for transactions that are writing the
\* same key.  A row with its id, which only an update can meet, is a 500,
\* one with its slug a 409.
InsertRow(r) ==
  /\ pc[r] = "insert"
  /\ ~Waits(r)
  /\ \/ /\ Stored(target[r])
        /\ Refuse(r, "error")
     \/ /\ ~Stored(target[r]) /\ Holders(row[r].slug) # {}
        /\ Refuse(r, "conflict")
     \/ /\ ~Stored(target[r]) /\ Holders(row[r].slug) = {}
        /\ AfterRow(r)
        /\ UNCHANGED <<projects, urls, target, body, seen, row, shared, writes, dropped, attempt>>

-----------------------------------------------------------------------------
\* A faulty variant: the pre-check does not end a request for no project.
Update_NoPreCheck(r, p, patch) ==
  /\ CanStart(r)
  /\ p # r
  /\ target' = [target EXCEPT ![r] = p]
  /\ body' = [body EXCEPT ![r] = patch]
  /\ Goto(r, "fetch")
  /\ seen' = [seen EXCEPT ![r] = projects[p]]
  /\ attempt' = [attempt EXCEPT ![r] = 1]
  /\ UNCHANGED <<projects, urls, callback>>

\* update, up to the result of the pre-check, outside the transaction.
Update(r, p, patch) ==
  /\ CanStart(r)
  /\ p # r
  /\ target' = [target EXCEPT ![r] = p]
  /\ \/ /\ ~Stored(p)
        /\ Goto(r, "notFound")
        /\ UNCHANGED <<body, seen, attempt>>
     \/ /\ Stored(p)
        /\ Goto(r, "fetch")
        /\ body' = [body EXCEPT ![r] = patch]
        /\ seen' = [seen EXCEPT ![r] = projects[p]]
        /\ attempt' = [attempt EXCEPT ![r] = 1]
  /\ UNCHANGED <<projects, urls, callback>>

\* A faulty variant: an absent field is taken for FALSE.
Edit_DefaultsToFalse(r, entity, isShared, slug) ==
  LET edited == [slug |-> slug, published |-> body[r].published = TRUE] IN
    /\ row' = [row EXCEPT ![r] = edited]
    /\ seen' = IF isShared THEN [seen EXCEPT ![r] = edited] ELSE seen
    /\ shared' = [shared EXCEPT ![r] = isShared]
    /\ Goto(r, "plan")

\* The entity with the fields of the body; with an entity of the pre-check,
\* the change is seen by the next attempt as well.
Edit(r, entity, isShared, slug) ==
  LET edited == [slug |-> slug,
                 published |-> IF body[r].published = None THEN entity.published
                                                           ELSE body[r].published]
  IN /\ row' = [row EXCEPT ![r] = edited]
     /\ seen' = IF isShared THEN [seen EXCEPT ![r] = edited] ELSE seen
     /\ shared' = [shared EXCEPT ![r] = isShared]
     /\ Goto(r, "plan")

\* First statement of the callback: the row again, or, when it is gone, the
\* entity of the pre-check.
Fetch(r) ==
  /\ pc[r] = "fetch"
  /\ LET p == target[r]
         gone == ~Stored(p)
         entity == IF gone THEN seen[r] ELSE projects[p]
     IN \/ /\ body[r].slug \notin {None, entity.slug}
           /\ row' = [row EXCEPT ![r] = entity]
           /\ shared' = [shared EXCEPT ![r] = gone]
           /\ Goto(r, "check")
           /\ UNCHANGED seen
        \/ /\ body[r].slug \in {None, entity.slug}
           /\ Edit(r, entity, gone, entity.slug)
  /\ UNCHANGED <<projects, urls, target, body, writes, added, dropped, attempt>>

\* The SELECT by the new slug.
CheckSlug(r) ==
  /\ pc[r] = "check"
  /\ \/ /\ Holders(body[r].slug) \ {target[r]} # {}
        /\ Refuse(r, "conflict")
     \/ /\ Holders(body[r].slug) \ {target[r]} = {}
        /\ Edit(r, row[r], shared[r], body[r].slug)
        /\ UNCHANGED <<projects, urls, target, body, writes, added, dropped, attempt>>

\* save begins with a SELECT by id: without a row it will INSERT, else
\* UPDATE the columns in which the entity differs from the row, if any.
PlanSave(r) ==
  /\ pc[r] = "plan"
  /\ LET p == target[r]
         changed == {c \in Columns : row[r][c] # projects[p][c]}
     IN \/ /\ ~Stored(p)
           /\ writes' = [writes EXCEPT ![r] = Columns \cup {"id"}]
           /\ Goto(r, "insert")
           /\ UNCHANGED added
        \/ /\ Stored(p) /\ changed # {}
           /\ writes' = [writes EXCEPT ![r] = changed]
           /\ Goto(r, "write")
           /\ UNCHANGED added
        \/ /\ Stored(p) /\ changed = {}
           /\ AfterRow(r)
           /\ UNCHANGED writes
  /\ UNCHANGED <<projects, urls, target, body, seen, row, shared, dropped, attempt>>

\* UPDATE ... WHERE id.  It waits for the row and for the slug; a row that
\* is gone by then is not an error, a slug that is taken is a 409.
WriteRow(r) ==
  /\ pc[r] = "write"
  /\ LET p == target[r]
         slugToo == "slug" \in writes[r]
     IN /\ ~Waits(r)
        /\ \/ /\ ~Stored(p)
              /\ writes' = [writes EXCEPT ![r] = {}]
              /\ AfterRow(r)
              /\ UNCHANGED <<projects, urls, target, body, seen, row, shared, dropped, attempt>>
           \/ /\ Stored(p) /\ slugToo /\ Holders(row[r].slug) \ {p} # {}
              /\ Refuse(r, "conflict")
           \/ /\ Stored(p) /\ (slugToo => Holders(row[r].slug) \ {p} = {})
              /\ AfterRow(r)
              /\ UNCHANGED <<projects, urls, target, body, seen, row, shared, writes, dropped, attempt>>

\* A faulty variant: no diff, the rows of the body are inserted on top.
DiffUrls_InsertsAll(r) ==
  /\ pc[r] = "diff"
  /\ added' = [added EXCEPT ![r] = body[r].links]
  /\ Goto(r, "links")
  /\ UNCHANGED <<projects, urls, target, body, seen, row, shared, writes, dropped, attempt>>

\* applyProjectUrlsDiff: the SELECT of the project's urls and the diff.
DiffUrls(r) ==
  /\ pc[r] = "diff"
  /\ LET p == target[r] IN
       /\ added' = [added EXCEPT ![r] = body[r].links \ LinksOf(p)]
       /\ dropped' = [dropped EXCEPT ![r] = {u \in UrlsOf(p) : u.link \notin body[r].links}]
  /\ Goto(r, "links")
  /\ UNCHANGED <<projects, urls, target, body, seen, row, shared, writes, attempt>>

\* A faulty variant: the urls are inserted outside the transaction.
WriteUrls_OutsideTransaction(r) ==
  /\ pc[r] = "links"
  /\ Stored(target[r]) \/ "id" \in writes[r]
  /\ urls' = urls \cup {[project |-> target[r], link |-> k, by |-> r] : k \in added[r]}
  /\ Goto(r, "commit")
  /\ UNCHANGED <<projects, locals>>

\* INSERT and DELETE of the diff, or the INSERT of a create.  An inserted url
\* needs its project, and waits while that one's slug is being written; a
\* delete waits for whoever is deleting the same rows.
WriteUrls(r) ==
  /\ pc[r] = "links"
  /\ LET p == target[r]
         referred == added[r] = {} \/ Stored(p) \/ "id" \in writes[r]
     IN /\ ~Waits(r)
        /\ \/ ~referred /\ Refuse(r, "error")
           \/ referred /\ Goto(r, "commit") /\ UNCHANGED <<projects, urls, locals>>

\* COMMIT.  An update has already fetched and signed its response; a create
\* does so afterwards.  The acknowledgement may be lost.
Commit(r) ==
  /\ pc[r] = "commit"
  /\ LET p == target[r]
         column(c) == IF c \in writes[r] THEN row[r][c] ELSE projects[p][c]
     IN /\ projects' = IF writes[r] = {} THEN projects
                       ELSE [projects EXCEPT ![p] = [slug |-> column("slug"),
                                                     published |-> column("published")]]
        /\ urls' = (urls \ dropped[r])
                     \cup {[project |-> p, link |-> k, by |-> r] : k \in added[r]}
  /\ \E answer \in {IF IsCreate(r) THEN "reply" ELSE "updated", "error"} : Leave(r, answer)

\* create reads its project again and signs the cover: a failure there is a
\* 500 for a project that is stored.
Reply(r) ==
  /\ pc[r] = "reply"
  /\ \E answer \in {"created", "error"} : Goto(r, answer)
  /\ UNCHANGED <<projects, urls, locals>>

-----------------------------------------------------------------------------
\* DELETE /projects/:id reaches remove.
Remove(r, p) ==
  /\ CanStart(r)
  /\ p # r
  /\ target' = [target EXCEPT ![r] = p]
  /\ Goto(r, "delete")
  /\ UNCHANGED <<projects, urls, body, seen, callback, attempt>>

\* One statement, with the cascade: it waits for whoever has locked the row,
\* its urls, or refers to it.
Delete(r) ==
  /\ pc[r] = "delete"
  /\ LET p == target[r] IN
       \/ /\ ~Stored(p)
          /\ Goto(r, "notFound")
          /\ UNCHANGED <<projects, urls>>
       \/ /\ Stored(p)
          /\ ~Waits(r)
          /\ projects' = [projects EXCEPT ![p] = Store!NoRow]
          /\ urls' = urls \ UrlsOf(p)
          /\ \E answer \in {"removed", "error"} : Goto(r, answer)
  /\ UNCHANGED locals

-----------------------------------------------------------------------------
\* A faulty variant: the attempts are counted from 0.
Abort_OnceTooOften(r) ==
  /\ pc[r] \in InTransaction
  /\ attempt[r] <= MaxAttempts
  /\ attempt' = [attempt EXCEPT ![r] = @ + 1]
  /\ Goto(r, IF IsCreate(r) THEN "insert" ELSE "fetch")
  /\ UNCHANGED <<projects, urls, target, body, seen, row, shared, writes, added, dropped>>

\* PostgreSQL aborts the transaction with 40001 or 40P01: the callback runs
\* again, with the entity of the pre-check as the last attempt has left it.
Abort(r) ==
  /\ pc[r] \in InTransaction
  /\ \/ /\ attempt[r] = MaxAttempts
        /\ Refuse(r, "error")
     \/ /\ attempt[r] < MaxAttempts
        /\ attempt' = [attempt EXCEPT ![r] = @ + 1]
        /\ \/ /\ IsCreate(r)
              /\ Goto(r, "insert")
              /\ added' = [added EXCEPT ![r] = {}]
              /\ UNCHANGED <<row, shared, writes, dropped>>
           \/ /\ ~IsCreate(r)
              /\ Goto(r, "fetch")
              /\ ClearCallback(r)
        /\ UNCHANGED <<projects, urls, target, body, seen>>

\* Any other failure: signing, the connection, the process.
Fail(r) ==
  /\ pc[r] \in InFlight
  /\ Refuse(r, "error")

Finished ==
  /\ \A r \in Requests : pc[r] \in Final
  /\ UNCHANGED vars

Arrive(r) ==
  \/ \E s \in Slugs, links \in SUBSET Links : Create(r, s, links)
  \/ \E p \in Ids, patch \in Patches : Update(r, p, patch)
  \/ \E p \in Ids : Remove(r, p)

Progress(r) ==
  \/ Fetch(r) \/ CheckSlug(r) \/ PlanSave(r) \/ WriteRow(r) \/ InsertRow(r)
  \/ DiffUrls(r) \/ WriteUrls(r) \/ Commit(r) \/ Reply(r)
  \/ Delete(r)

Next ==
  \/ \E r \in Requests : Arrive(r) \/ Progress(r) \/ Abort(r) \/ Fail(r)
  \/ Finished

Spec == Init /\ [][Next]_vars

-----------------------------------------------------------------------------
(***************************************************************************)
(* Properties.                                                             *)
(***************************************************************************)

TypeOK ==
  /\ projects \in [Ids -> Store!Row]
  /\ urls     \subseteq Store!UrlRow
  /\ pc       \in [Requests -> {"idle"} \cup InFlight \cup Final]
  /\ target   \in [Requests -> Ids \cup {None}]
  /\ body     \in [Requests -> PatchBody]
  /\ seen     \in [Requests -> Store!Row]
  /\ row      \in [Requests -> Store!Row]
  /\ shared   \in [Requests -> BOOLEAN]
  /\ writes   \in [Requests -> SUBSET (Columns \cup {"id"})]
  /\ added    \in [Requests -> SUBSET Links]
  /\ dropped  \in [Requests -> SUBSET Store!UrlRow]
  /\ attempt  \in [Requests -> 0 .. MaxAttempts]

\* A 409 is never given without reason: at that moment another project has
\* the slug that the request asks for or, for an update that read its project
\* before someone else renamed or deleted it, the slug it has read.
ConflictsAreReal ==
  [][\A r \in Requests :
       pc[r] # "conflict" /\ pc'[r] = "conflict" =>
         \E p \in Ids \ {target'[r]} :
           Stored(p) /\ projects[p].slug \in {body[r].slug, body'[r].slug, row[r].slug}]_vars

\* The handlers implement the atomic operations of ProjectStore: whatever
\* overlaps, slugs stay unique and a project is written with its urls.
ImplementsProjectStore == Store!Spec

\* No circle of locks: while a request is open, one can take its next step
\* without an abort.  (A deadlock, which PostgreSQL resolves by an abort.)
SomeoneCanGoOn ==
  (\E r \in Requests : pc[r] \in InFlight) => \E r \in Requests : ENABLED Progress(r)

-----------------------------------------------------------------------------
(***************************************************************************)
(* What the documentation promises.  It holds while the clients keep one   *)
(* request open at a time (MaxInFlight = 1), and not when two overlap.     *)
(***************************************************************************)

\* Only what the body names is changed, and an absent list changes no url.
NamedFieldsChange ==
  \A r \in Requests :
    pc[r] # "updated" /\ pc'[r] = "updated" =>
      LET p == target[r] IN
      /\ body[r].slug = None => projects'[p].slug = projects[p].slug
      /\ body[r].published = None => projects'[p].published = projects[p].published
      /\ body[r].links = None => UrlsOf(p)' = UrlsOf(p)
OnlyNamedFieldsChange == [][NamedFieldsChange]_vars

\* projects-domain spec, "Admin Project Delete with Cascade": a project whose
\* delete was answered has no row.
RemovedStaysRemoved ==
  \A r \in Requests : pc[r] = "removed" => ~Stored(target[r])

\* The operations are those of the documentation.
ImplementsDocumentedStore == Store!DocumentedSpec
=============================================================================
