------------------------ MODULE ProjectsSerialProofs ------------------------
(***************************************************************************)
(* Proofs about Projects when the clients keep one request open at a time, *)
(* whatever fails, is retried or goes unanswered: then the handlers do     *)
(* what openspec/specs/projects-domain/spec.md says.                       *)
(***************************************************************************)
EXTENDS ProjectsProofs, FiniteSetTheorems

Busy == {q \in Requests : pc[q] \in InFlight}

\* No two requests are in flight.
OneAtATime == IsFiniteSet(Busy) /\ \A q, r \in Busy : q = r

\* The entity of an update differs from the row in what the body names only.
Unnamed(r) ==
  /\ body[r].slug = None => row[r].slug = projects[target[r]].slug
  /\ body[r].published = None => row[r].published = projects[target[r]].published

\* The planned changes of the urls are the difference to the list of the body.
Diffed(r) ==
  IF body[r].links = None
  THEN added[r] = {} /\ dropped[r] = {}
  ELSE /\ added[r] = body[r].links \ LinksOf(target[r])
       /\ dropped[r] = {u \in UrlsOf(target[r]) : u.link \notin body[r].links}

\* What the transaction of r has read of the tables is still so.
Current(r) ==
  pc[r] \in InTransaction =>
    IF IsCreate(r)
    THEN ~Stored(r)
    ELSE /\ Stored(target[r]) /\ pc[r] # "insert"
         /\ pc[r] # "fetch" => Unnamed(r)
         /\ pc[r] = "diff" => body[r].links # None
         /\ IF pc[r] \in {"links", "commit"} THEN Diffed(r) ELSE dropped[r] = {}

\* A removed project has no row, and no create that could still write one.
Gone(r) ==
  pc[r] = "removed" =>
    /\ target[r] \in Ids /\ ~Stored(target[r])
    /\ target[r] \in Requests => pc[target[r]] \in Final

SerialInv == Inv /\ OneAtATime /\ \A r \in Requests : Current(r) /\ Gone(r)

\* What r does, of whatever kind.
Acts(r) == Arrive(r) \/ Progress(r) \/ Abort(r) \/ Fail(r)

-----------------------------------------------------------------------------
LEMMA InitSerial == Init => SerialInv
<1> SUFFICES ASSUME Init PROVE SerialInv
  OBVIOUS
<1>1. \A r \in Requests : pc[r] = "idle"
  BY DEF Init
<1>2. Busy = {}
  BY <1>1 DEF Busy, InFlight, InTransaction
<1>3. OneAtATime
  BY <1>2, FS_EmptySet DEF OneAtATime
<1>4. \A r \in Requests : Current(r) /\ Gone(r)
  BY <1>1 DEF Current, Gone, InTransaction
<1> QED
  BY <1>3, <1>4, InitInv DEF SerialInv

\* Who starts finds nobody in flight, and who goes on is in flight.
LEMMA ActsAlone ==
  ASSUME MaxInFlight = 1, OneAtATime, NEW r \in Requests, Acts(r), NEW q \in Requests \ {r}
  PROVE  q \notin Busy
<1>1. ASSUME CanStart(r) PROVE q \notin Busy
  <2>1. IsFiniteSet(Busy) /\ Cardinality(Busy) < 1
    BY <1>1 DEF OneAtATime, CanStart, Busy
  <2>2. Cardinality(Busy) = 0
    BY <2>1, FS_CardinalityType
  <2> QED
    BY <2>1, <2>2, FS_EmptySet
<1>2. ASSUME Arrive(r) PROVE CanStart(r)
  BY <1>2 DEF Arrive, Create, Update, Remove
<1>3. ASSUME Progress(r) \/ Abort(r) \/ Fail(r) PROVE r \in Busy
  BY <1>3 DEF Busy, Progress, Fetch, CheckSlug, PlanSave, WriteRow, InsertRow, DiffUrls, WriteUrls,
     Commit, Reply, Delete, Abort, Fail, InFlight, InTransaction
<1> QED
  BY <1>1, <1>2, <1>3 DEF Acts, OneAtATime

\* A step of r leaves the others where they are, with their projects.
LEMMA OthersStay ==
  ASSUME Inv, NEW r \in Requests, Acts(r), NEW q \in Requests \ {r}
  PROVE  pc'[q] = pc[q] /\ target'[q] = target[q]
<1>1. target \in [Requests -> Ids \cup {None}]
  BY DEF Inv, LocalsTyped
<1>2. ASSUME Arrive(r) PROVE \E p : target' = [target EXCEPT ![r] = p]
  BY <1>2 DEF Arrive, Create, Update, Remove
<1>3. ASSUME Progress(r) PROVE target' = target
  BY <1>3 DEF Progress, Fetch, CheckSlug, PlanSave, WriteRow, InsertRow, DiffUrls,
     WriteUrls, Commit, Reply, Delete, Refuse, Leave, locals
<1>4. ASSUME Abort(r) \/ Fail(r) PROVE target' = target
  BY <1>4 DEF Abort, Fail, Refuse, Leave
<1> QED
  BY <1>1, <1>2, <1>3, <1>4, StepAnswersOne DEF Acts

LEMMA StepOneAtATime ==
  ASSUME MaxInFlight = 1, Inv, OneAtATime, NEW r \in Requests, Acts(r)
  PROVE  OneAtATime'
<1>1. Busy' \subseteq {r}
  BY ActsAlone, OthersStay DEF Busy
<1> QED
  BY <1>1, FS_Singleton, FS_Subset DEF OneAtATime

\* Only a commit and a delete change the tables.
LEMMA TablesStay ==
  ASSUME Inv, NEW r \in Requests, Acts(r), ~Commit(r), ~Delete(r)
  PROVE  UNCHANGED <<projects, urls>>
<1>1. Reply(r) => UNCHANGED <<projects, urls>>
  BY DEF Reply
<1>2. Fail(r) => UNCHANGED <<projects, urls>>
  BY DEF Fail, Refuse
<1> QED
  BY <1>1, <1>2, ArriveKeepsInv, ReadsKeepInv, RowKeepsInv, UrlsKeepInv DEF Acts, Progress

-----------------------------------------------------------------------------
\* The steps after which r is not in a transaction have nothing to keep.
LEMMA OutOfTransaction ==
  ASSUME Inv, NEW r \in Requests,
         NEW label \in Final \cup {"reply", "delete"}, Goto(r, label)
  PROVE  Current(r)'
<1>1. pc'[r] = label /\ label \notin InTransaction
  BY Labels DEF Inv, LocalsTyped, Goto
<1> QED
  BY <1>1 DEF Current

LEMMA ArriveReads ==
  ASSUME Inv, NEW r \in Requests, Arrive(r)
  PROVE  Current(r)'
<1>1. LocalsTyped /\ LocalsFit(r) /\ Unborn(r) /\ pc[r] = "idle"
  BY DEF Inv, Arrive, Create, Update, Remove, CanStart
<1>2. UNCHANGED <<projects, urls>>
  BY ArriveKeepsInv
<1>3. CASE \E s \in Slugs, links \in SUBSET Links : Create(r, s, links)
  <2>1. target'[r] = r
    BY <1>1, <1>3 DEF Create, LocalsTyped
  <2>2. ~Stored(r)'
    BY <1>1, <1>2 DEF Unborn, Stored, Store!Stored
  <2> QED
    BY <2>1, <2>2 DEF Current, IsCreate
<1>4. CASE \E p \in Ids, patch \in Patches : Update(r, p, patch)
  <2>1. PICK p \in Ids, patch \in Patches : Update(r, p, patch)
    BY <1>4
  <2>2. CASE Goto(r, "notFound")
    BY <2>2, OutOfTransaction DEF Final
  <2>3. CASE Goto(r, "fetch") /\ Stored(p)
    <3>1. pc'[r] = "fetch" /\ target'[r] = p /\ p # r /\ dropped'[r] = {}
      BY <1>1, <2>1, <2>3 DEF Goto, Update, callback, LocalsTyped, LocalsFit
    <3>2. Stored(p)'
      BY <1>2, <2>3 DEF Stored, Store!Stored
    <3> QED
      BY <3>1, <3>2 DEF Current, IsCreate, Stored, Store!Stored
  <2> QED
    BY <2>1, <2>2, <2>3 DEF Update
<1>5. CASE \E p \in Ids : Remove(r, p)
  BY <1>5, OutOfTransaction DEF Remove
<1> QED
  BY <1>3, <1>4, <1>5 DEF Arrive

\* The columns that the body does not name, after they are edited.
LEMMA EditReads ==
  ASSUME Inv, NEW r \in Requests, Current(r), pc[r] \in {"fetch", "check"},
         NEW entity \in Store!Row, NEW isShared \in BOOLEAN, NEW slug \in Slugs,
         Edit(r, entity, isShared, slug),
         UNCHANGED <<projects, urls, target, body, writes, added, dropped, attempt>>,
         body[r].slug = None => slug = projects[target[r]].slug,
         body[r].published = None => entity.published = projects[target[r]].published
  PROVE  Current(r)'
<1> DEFINE flag == IF body[r].published = None THEN entity.published ELSE body[r].published
           edited == [slug |-> slug, published |-> flag]
<1>1. /\ pc' = [pc EXCEPT ![r] = "plan"]
      /\ row' = [row EXCEPT ![r] = edited]
  BY DEF Edit, Goto
<1>2. pc'[r] = "plan" /\ row'[r] = edited
  BY <1>1 DEF Inv, LocalsTyped
<1>3. edited.slug = slug /\ edited.published = flag
  OBVIOUS
<1>4. LocalsFit(r) /\ target[r] # r /\ pc[r] \in InTransaction
  BY DEF Inv, LocalsFit, InTransaction
<1>5. Stored(target[r]) /\ dropped[r] = {}
  BY <1>4 DEF Current, IsCreate
<1>6. Unnamed(r)'
  BY <1>2, <1>3 DEF Unnamed
<1>7. Stored(target[r])'
  BY <1>5 DEF Stored, Store!Stored
<1> QED
  BY <1>2, <1>4, <1>5, <1>6, <1>7 DEF Current, IsCreate

LEMMA FetchReads ==
  ASSUME Inv, NEW r \in Requests, Current(r), Fetch(r)
  PROVE  Current(r)'
<1> DEFINE p == target[r]
<1>1. /\ LocalsTyped /\ TablesTyped /\ LocalsFit(r) /\ pc[r] = "fetch" /\ pc[r] \in InTransaction
      /\ p \in Ids /\ p # r
  BY DEF Inv, Fetch, LocalsFit, InFlight, InTransaction
<1>2. Stored(p) /\ dropped[r] = {}
  BY <1>1 DEF Current, IsCreate
<1>3. projects[p] \in Store!Row /\ projects[p].slug \in Slugs
  BY <1>1, <1>2, NullRow DEF TablesTyped, Stored, Store!Stored
<1>4. UNCHANGED <<projects, urls, target, body, writes, added, dropped, attempt>>
  BY DEF Fetch
<1>5. CASE row' = [row EXCEPT ![r] = projects[p]] /\ Goto(r, "check")
  <2>1. pc'[r] = "check" /\ row'[r] = projects[p]
    BY <1>1, <1>5 DEF Goto, LocalsTyped
  <2>2. Unnamed(r)'
    BY <1>4, <2>1 DEF Unnamed
  <2>3. Stored(p)'
    BY <1>2, <1>4 DEF Stored, Store!Stored
  <2> QED
    BY <1>1, <1>2, <1>4, <2>1, <2>2, <2>3 DEF Current, IsCreate
<1>6. CASE Edit(r, projects[p], FALSE, projects[p].slug)
  BY <1>1, <1>3, <1>4, <1>6, EditReads
<1> QED
  BY <1>2, <1>5, <1>6 DEF Fetch

LEMMA CheckSlugReads ==
  ASSUME Inv, NEW r \in Requests, Current(r), CheckSlug(r)
  PROVE  Current(r)'
<1>1. /\ LocalsTyped /\ LocalsFit(r) /\ pc[r] = "check" /\ pc[r] \in InTransaction
      /\ target[r] # r /\ body[r].slug \in Slugs /\ row[r] \in Store!Row /\ shared[r] \in BOOLEAN
  BY DEF Inv, CheckSlug, LocalsTyped, LocalsFit, InTransaction
<1>2. Unnamed(r)
  BY <1>1 DEF Current, IsCreate
<1>3. CASE Refuse(r, "conflict")
  BY <1>3, OutOfTransaction DEF Refuse, Leave, Final
<1>4. CASE /\ Edit(r, row[r], shared[r], body[r].slug)
           /\ UNCHANGED <<projects, urls, target, body, writes, added, dropped, attempt>>
  BY <1>1, <1>2, <1>4, NullRow, EditReads DEF Unnamed
<1> QED
  BY <1>3, <1>4 DEF CheckSlug

\* A transaction goes on with what it has read, or begins again.
LEMMA GoesOnReads ==
  ASSUME Inv, NEW r \in Requests, Current(r), pc[r] \in InTransaction, pc'[r] \in InTransaction,
         UNCHANGED <<projects, urls, target, body>>,
         target[r] # r =>
           /\ pc'[r] # "insert"
           /\ pc'[r] # "fetch" => row' = row /\ pc[r] # "fetch"
           /\ pc'[r] = "diff" => body[r].links # None
           /\ IF pc'[r] \in {"links", "commit"} THEN Diffed(r)' ELSE dropped'[r] = {}
  PROVE  Current(r)'
<1>1. CASE target[r] = r
  BY <1>1 DEF Current, IsCreate, Stored, Store!Stored
<1>2. CASE target[r] # r
  <2>1. Stored(target[r])'
    BY <1>2 DEF Current, IsCreate, Stored, Store!Stored
  <2>2. pc'[r] # "fetch" => Unnamed(r)'
    BY <1>2 DEF Current, IsCreate, Unnamed
  <2> QED
    BY <1>2, <2>1, <2>2 DEF Current, IsCreate
<1> QED
  BY <1>1, <1>2

LEMMA AfterRowReads ==
  ASSUME Inv, NEW r \in Requests, Current(r), AfterRow(r), pc[r] \in {"plan", "write", "insert"},
         UNCHANGED <<projects, urls, target, body, row, dropped>>
  PROVE  Current(r)'
<1>1. LocalsTyped /\ LocalsFit(r) /\ pc[r] \in InTransaction /\ added[r] = {}
  BY DEF Inv, LocalsFit, InTransaction
<1>2. PICK label \in {"diff", "links", "commit"} :
        /\ pc' = [pc EXCEPT ![r] = label]
        /\ target[r] # r =>
             /\ added' = added
             /\ label = IF body[r].links = None THEN "commit" ELSE "diff"
  BY DEF AfterRow, Goto, IsCreate
<1>3. pc'[r] = label /\ label \in InTransaction
  BY <1>1, <1>2 DEF LocalsTyped, InTransaction
<1>4. ASSUME target[r] # r
      PROVE  dropped'[r] = {} /\ (label = "commit" => Diffed(r)')
  BY <1>1, <1>2, <1>4 DEF Current, IsCreate, Diffed
<1> QED
  BY <1>1, <1>2, <1>3, <1>4, GoesOnReads

LEMMA RowReads ==
  ASSUME Inv, NEW r \in Requests, Current(r), PlanSave(r) \/ WriteRow(r) \/ InsertRow(r)
  PROVE  Current(r)'
<1>1. /\ LocalsTyped /\ LocalsFit(r) /\ pc[r] \in {"plan", "write", "insert"}
      /\ pc[r] \in InTransaction /\ pc[r] # "fetch"
  BY DEF Inv, PlanSave, WriteRow, InsertRow, InTransaction
<1>2. CASE /\ AfterRow(r)
           /\ UNCHANGED <<projects, urls, target, body, row, dropped>>
  BY <1>1, <1>2, AfterRowReads
<1>3. CASE \E answer \in {"error", "conflict"} : Refuse(r, answer)
  BY <1>3, OutOfTransaction DEF Refuse, Leave, Final
<1>4. CASE PlanSave(r) /\ ~AfterRow(r)
  <2>1. pc[r] = "plan" /\ target[r] # r
    BY <1>1, <1>4 DEF PlanSave, LocalsFit
  <2>2. Stored(target[r]) /\ dropped[r] = {}
    BY <1>1, <2>1 DEF Current, IsCreate
  <2>3. /\ Goto(r, "write")
        /\ UNCHANGED <<projects, urls, target, body, row, dropped>>
    BY <1>4, <2>2 DEF PlanSave
  <2>4. pc'[r] = "write" /\ pc'[r] \in InTransaction
    BY <1>1, <2>3 DEF Goto, LocalsTyped, InTransaction
  <2> QED
    BY <1>1, <2>2, <2>3, <2>4, GoesOnReads
<1>5. PlanSave(r) /\ AfterRow(r) => UNCHANGED <<projects, urls, target, body, row, dropped>>
  BY DEF PlanSave
<1>6. WriteRow(r) \/ InsertRow(r) =>
        \/ \E answer \in {"error", "conflict"} : Refuse(r, answer)
        \/ AfterRow(r) /\ UNCHANGED <<projects, urls, target, body, row, dropped>>
  BY DEF WriteRow, InsertRow
<1> QED
  BY <1>2, <1>3, <1>4, <1>5, <1>6

LEMMA UrlsRead ==
  ASSUME Inv, NEW r \in Requests, Current(r), DiffUrls(r) \/ WriteUrls(r)
  PROVE  Current(r)'
<1>1. LocalsTyped /\ LocalsFit(r) /\ pc[r] \in {"diff", "links"} /\ pc[r] \in InTransaction
  BY DEF Inv, DiffUrls, WriteUrls, InTransaction
<1>2. CASE DiffUrls(r)
  <2>1. /\ UNCHANGED <<projects, urls, target, body, row>>
        /\ added' = [added EXCEPT ![r] = body[r].links \ LinksOf(target[r])]
        /\ dropped' = [dropped EXCEPT ![r] = {u \in UrlsOf(target[r]) : u.link \notin body[r].links}]
        /\ pc' = [pc EXCEPT ![r] = "links"]
        /\ pc[r] = "diff"
    BY <1>2 DEF DiffUrls, Goto
  <2>2. body[r].links # None
    BY <1>1, <2>1 DEF Current, IsCreate, LocalsFit
  <2>3. /\ pc'[r] = "links" /\ pc'[r] \in InTransaction
        /\ added'[r] = body[r].links \ LinksOf(target[r])
        /\ dropped'[r] = {u \in UrlsOf(target[r]) : u.link \notin body[r].links}
    BY <1>1, <2>1 DEF LocalsTyped, InTransaction
  <2>4. Diffed(r)'
    BY <2>1, <2>2, <2>3 DEF Diffed, LinksOf, Store!LinksOf, UrlsOf, Store!UrlsOf
  <2> QED
    BY <1>1, <2>1, <2>3, <2>4, GoesOnReads
<1>3. CASE WriteUrls(r)
  <2>1. CASE Refuse(r, "error")
    BY <2>1, OutOfTransaction DEF Refuse, Leave, Final
  <2>2. CASE Goto(r, "commit") /\ UNCHANGED <<projects, urls, locals>>
    <3>1. /\ pc'[r] = "commit" /\ pc'[r] \in InTransaction /\ pc[r] = "links"
          /\ UNCHANGED <<projects, urls, target, body, row, added, dropped>>
      BY <1>1, <1>3, <2>2 DEF Goto, LocalsTyped, InTransaction, locals, callback, WriteUrls
    <3>2. target[r] # r => Diffed(r)'
      BY <1>1, <3>1 DEF Current, IsCreate, Diffed, LinksOf, Store!LinksOf, UrlsOf, Store!UrlsOf
    <3> QED
      BY <1>1, <3>1, <3>2, GoesOnReads
  <2> QED
    BY <1>3, <2>1, <2>2 DEF WriteUrls
<1> QED
  BY <1>2, <1>3

LEMMA AbortReads ==
  ASSUME Inv, NEW r \in Requests, Current(r), Abort(r)
  PROVE  Current(r)'
<1>1. LocalsTyped /\ LocalsFit(r) /\ pc[r] \in InTransaction
  BY DEF Inv, Abort
<1>2. CASE Refuse(r, "error")
  BY <1>2, OutOfTransaction DEF Refuse, Leave, Final
<1>3. CASE ~Refuse(r, "error")
  <2>1. /\ UNCHANGED <<projects, urls, target, body>>
        /\ \/ target[r] = r /\ pc' = [pc EXCEPT ![r] = "insert"]
           \/ /\ target[r] # r /\ pc' = [pc EXCEPT ![r] = "fetch"]
              /\ dropped' = [dropped EXCEPT ![r] = {}]
    BY <1>3 DEF Abort, Goto, IsCreate, ClearCallback
  <2>2. /\ pc'[r] \in {"insert", "fetch"} /\ pc'[r] \in InTransaction
        /\ target[r] # r => pc'[r] = "fetch" /\ dropped'[r] = {}
    BY <1>1, <2>1 DEF LocalsTyped, InTransaction
  <2> QED
    BY <1>1, <2>1, <2>2, GoesOnReads
<1> QED
  BY <1>2, <1>3

\* Each step of r leaves what its transaction knows as the tables have it.
LEMMA StepReads ==
  ASSUME Inv, NEW r \in Requests, Current(r), Acts(r)
  PROVE  Current(r)'
<1>1. ASSUME Commit(r) \/ Reply(r) \/ Delete(r) \/ Fail(r) PROVE Current(r)'
  <2>1. PICK label \in Final \cup {"reply", "delete"} : Goto(r, label)
    BY <1>1 DEF Commit, Reply, Delete, Fail, Refuse, Leave, Final
  <2> QED
    BY <2>1, OutOfTransaction
<1> QED
  BY <1>1, ArriveReads, FetchReads, CheckSlugReads, RowReads, UrlsRead, AbortReads
     DEF Acts, Progress

-----------------------------------------------------------------------------
\* Who acts has not been answered; who answers what.
LEMMA Answered ==
  ASSUME Inv, NEW r \in Requests, Acts(r)
  PROVE  /\ pc[r] \notin Final
         /\ pc'[r] = "updated" => Commit(r) /\ target[r] # r
         /\ pc'[r] = "removed" => Delete(r)
<1>1. pc \in [Requests -> {"idle"} \cup InFlight \cup Final]
  BY DEF Inv, LocalsTyped
<1>2. ASSUME NEW label, Goto(r, label) PROVE pc'[r] = label
  BY <1>1, <1>2 DEF Goto
<1> DEFINE Quiet == \E label \in (InFlight \cup Final) \ {"updated", "removed"} : Goto(r, label)
<1>3. Quiet => pc'[r] \notin {"updated", "removed"}
  BY <1>2
<1>4. ASSUME Arrive(r) PROVE Quiet /\ pc[r] \notin Final
  BY <1>4 DEF Arrive, Create, Update, Remove, CanStart, InFlight, InTransaction, Final
<1>5. ASSUME Fetch(r) \/ CheckSlug(r) \/ PlanSave(r) \/ WriteRow(r) \/ InsertRow(r)
      PROVE  Quiet /\ pc[r] \notin Final
  BY <1>5 DEF Fetch, CheckSlug, PlanSave, WriteRow, InsertRow, AfterRow, Edit, Refuse, Leave,
     InFlight, InTransaction, Final
<1>6. ASSUME DiffUrls(r) \/ WriteUrls(r) \/ Reply(r) \/ Abort(r) \/ Fail(r)
      PROVE  Quiet /\ pc[r] \notin Final
  BY <1>6 DEF DiffUrls, WriteUrls, Reply, Abort, Fail, Refuse, Leave, InFlight, InTransaction, Final
<1>7. ASSUME Commit(r)
      PROVE  pc[r] \notin Final /\ pc'[r] # "removed" /\ (pc'[r] = "updated" => target[r] # r)
  <2>1. pc[r] = "commit"
    BY <1>7 DEF Commit
  <2>2. PICK answer \in {IF IsCreate(r) THEN "reply" ELSE "updated", "error"} : Goto(r, answer)
    BY <1>7 DEF Commit, Leave
  <2>3. pc'[r] = answer
    BY <1>2, <2>2
  <2> QED
    BY <2>1, <2>2, <2>3 DEF IsCreate, Final
<1>8. ASSUME Delete(r) PROVE pc[r] \notin Final /\ pc'[r] # "updated"
  <2>1. PICK answer \in {"notFound", "removed", "error"} : Goto(r, answer)
    BY <1>8 DEF Delete
  <2> QED
    BY <1>2, <1>8, <2>1 DEF Delete, Final
<1> QED
  BY <1>3, <1>4, <1>5, <1>6, <1>7, <1>8 DEF Acts, Progress

\* The only rows that a step of r changes or deletes are those of its project.
LEMMA OwnRowOnly ==
  ASSUME Inv, NEW r \in Requests, Acts(r), NEW t \in Ids, ~Stored(t),
         t # target[r] \/ ~Commit(r)
  PROVE  ~Stored(t)'
<1>1. projects \in [Ids -> Store!Row]
  BY DEF Inv, TablesTyped
<1>2. CASE ~Commit(r) /\ ~Delete(r)
  BY <1>2, TablesStay DEF Stored, Store!Stored
<1>3. CASE Delete(r)
  BY <1>1, <1>3 DEF Delete, Stored, Store!Stored, Store!NoRow
<1>4. CASE Commit(r)
  <2>1. projects'[t] = projects[t]
    BY <1>1, <1>4 DEF Commit
  <2> QED
    BY <2>1 DEF Stored, Store!Stored
<1> QED
  BY <1>2, <1>3, <1>4

LEMMA StepGone ==
  ASSUME MaxInFlight = 1, SerialInv, NEW r \in Requests, Acts(r), NEW q \in Requests
  PROVE  Gone(q)'
<1> SUFFICES ASSUME pc'[q] = "removed" PROVE Gone(q)'
  BY DEF Gone
<1>1. /\ Inv /\ LocalsTyped /\ TablesTyped
      /\ \A u \in Requests : Current(u) /\ Gone(u) /\ Unborn(u) /\ LocalsFit(u)
  BY DEF SerialInv, Inv
<1>2. pc[r] \notin Final
  BY <1>1, Answered
<1>3. CASE q = r
  <2> DEFINE t == target[r]
  <2>1. Delete(r)
    BY <1>1, <1>3, Answered
  <2>2. /\ pc[r] = "delete" /\ t \in Ids /\ target' = target
        /\ Stored(t) /\ projects' = [projects EXCEPT ![t] = Store!NoRow]
    <3>1. pc[r] = "delete" /\ UNCHANGED locals
      BY <2>1 DEF Delete
    <3>2. t \in Ids
      BY <1>1, <3>1 DEF LocalsFit, InFlight
    <3>3. ~Goto(r, "notFound")
      BY <1>1, <1>3 DEF Goto, LocalsTyped
    <3> QED
      BY <2>1, <3>1, <3>2, <3>3 DEF Delete, locals
  <2>3. ~Stored(t)'
    BY <1>1, <2>2 DEF TablesTyped, Stored, Store!Stored, Store!NoRow
  <2>4. ASSUME t \in Requests PROVE pc'[t] \in Final
    <3>1. CASE t = r
      BY <1>3, <3>1 DEF Final
    <3>2. CASE t # r
      <4>1. pc[t] # "idle"
        BY <1>1, <2>2, <2>4 DEF Unborn
      <4>2. t \notin Busy
        BY <2>4, <3>2, ActsAlone DEF SerialInv
      <4>3. pc[t] \in Final
        BY <1>1, <2>4, <4>1, <4>2 DEF Busy, LocalsTyped
      <4> QED
        BY <1>1, <2>4, <3>2, <4>3, OthersStay
    <3> QED
      BY <3>1, <3>2
  <2> QED
    BY <1>3, <2>2, <2>3, <2>4 DEF Gone
<1>4. CASE q # r
  <2>1. pc[q] = "removed" /\ target'[q] = target[q]
    BY <1>1, <1>4, OthersStay
  <2> DEFINE t == target[q]
  <2>2. t \in Ids /\ ~Stored(t) /\ (t \in Requests => pc[t] \in Final)
    BY <1>1, <2>1 DEF Gone
  <2>3. t # r
    BY <1>2, <2>2
  <2>4. t \in Requests => pc'[t] \in Final
    BY <1>1, <2>2, <2>3, OthersStay
  <2>5. Commit(r) => t # target[r]
    <3>1. Commit(r) => pc[r] \in InTransaction
      BY DEF Commit, InTransaction
    <3> QED
      BY <1>1, <2>2, <2>3, <3>1 DEF Current, IsCreate
  <2>6. target[q]' \in Ids /\ ~Stored(target[q])'
    <3>1. PICK m \in Ids : m = t
      BY <2>2
    <3>2. ~Stored(m)'
      BY <1>1, <2>2, <2>5, <3>1, OwnRowOnly
    <3> QED
      BY <2>1, <3>1, <3>2 DEF Stored, Store!Stored
  <2> QED
    BY <2>1, <2>2, <2>4, <2>6 DEF Gone, Stored, Store!Stored
<1> QED
  BY <1>3, <1>4

LEMMA StepSerialInv ==
  ASSUME MaxInFlight = 1, SerialInv, [Next]_vars
  PROVE  SerialInv'
<1>1. Inv'
  BY StepKeepsInv DEF SerialInv
<1>2. CASE UNCHANGED vars
  <2>1. UNCHANGED <<projects, urls, pc, target, body, row, added, dropped>>
    BY <1>2 DEF vars, locals, callback
  <2>2. OneAtATime'
    BY <2>1 DEF SerialInv, OneAtATime, Busy
  <2>3. \A r \in Requests : Current(r)'
    BY <2>1 DEF SerialInv, Current, IsCreate, Unnamed, Diffed, Stored, Store!Stored,
       LinksOf, Store!LinksOf, UrlsOf, Store!UrlsOf
  <2>4. \A r \in Requests : Gone(r)'
    BY <2>1 DEF SerialInv, Gone, Stored, Store!Stored
  <2> QED
    BY <1>1, <2>2, <2>3, <2>4 DEF SerialInv
<1>3. ASSUME NEW r \in Requests, Acts(r) PROVE SerialInv'
  <2>1. OneAtATime'
    BY <1>3, StepOneAtATime DEF SerialInv
  <2>2. ASSUME NEW q \in Requests \ {r} PROVE Current(q)'
    <3>1. q \notin Busy /\ pc'[q] = pc[q]
      BY <1>3, ActsAlone, OthersStay DEF SerialInv
    <3> QED
      BY <3>1, Labels DEF Busy, Current
  <2>3. Current(r)'
    BY <1>3, StepReads DEF SerialInv
  <2>4. \A q \in Requests : Gone(q)'
    BY <1>3, StepGone
  <2> QED
    BY <1>1, <2>1, <2>2, <2>3, <2>4 DEF SerialInv
<1> QED
  BY <1>2, <1>3 DEF Next, Finished, Acts

-----------------------------------------------------------------------------
\* The urls after a commit, in the terms of the store.
LEMMA CommitPutsUrls ==
  ASSUME SerialInv, NEW r \in Requests, Commit(r), target[r] \in Ids
  PROVE  Store!PutUrls(target[r], (UrlsOf(target[r]) \ dropped[r])
                                     \cup Store!NewUrls(target[r], added[r], r))
<1> DEFINE p == target[r]
<1>1. urls' = (urls \ dropped[r]) \cup {[project |-> p, link |-> k, by |-> r] : k \in added[r]}
  BY DEF Commit
<1>2. \A u \in dropped[r] : u.project = p
  BY DEF SerialInv, Inv, LocalsFit
<1>3. urls \ dropped[r] = (urls \ UrlsOf(p)) \cup (UrlsOf(p) \ dropped[r])
  BY <1>2 DEF UrlsOf, Store!UrlsOf
<1> QED
  BY <1>1, <1>3 DEF Store!PutUrls, Store!NewUrls, UrlsOf

LEMMA CommitDocumented ==
  ASSUME SerialInv, NEW r \in Requests, Commit(r)
  PROVE  Store!DocumentedNext \/ UNCHANGED <<projects, urls>>
<1> DEFINE p == target[r]
<1>1. /\ Inv /\ TablesTyped /\ TablesFit /\ LocalsTyped /\ LocalsFit(r) /\ Current(r)
      /\ pc[r] = "commit" /\ pc[r] \in InTransaction /\ p \in Ids /\ r \in Ids
  BY DEF SerialInv, Inv, Commit, LocalsFit, InTransaction, InFlight, Ids
<1>2. CASE UNCHANGED <<projects, urls>>
  BY <1>2
<1> SUFFICES ASSUME Store!Update(p) PROVE Store!DocumentedNext
  BY <1>1, <1>2, CommitStores
<1>3. Store!PutRow(p)
  BY DEF Store!Update
<1>4. Store!PutUrls(p, (UrlsOf(p) \ dropped[r]) \cup Store!NewUrls(p, added[r], r))
  BY <1>1, CommitPutsUrls
<1>5. CASE p = r
  <2>1. ~Stored(p)
    BY <1>1, <1>5 DEF Current, IsCreate
  <2>2. UrlsOf(p) = {}
    BY <1>1, <2>1 DEF TablesFit, UrlsOf, Store!UrlsOf
  <2>3. Store!PutUrls(p, Store!NewUrls(p, added[r], p))
    BY <1>4, <1>5, <2>2
  <2>4. added[r] \in SUBSET Links
    BY <1>1 DEF LocalsTyped
  <2>5. Store!Create(p)
    BY <1>3, <2>1, <2>3, <2>4 DEF Store!Create, Stored
  <2> QED
    BY <1>1, <2>5 DEF Store!DocumentedNext
<1>6. CASE p # r
  <2>1. Stored(p) /\ Diffed(r)
    BY <1>1, <1>6 DEF Current, IsCreate
  <2>2. CASE body[r].links = None
    <3>1. added[r] = {} /\ dropped[r] = {}
      BY <2>1, <2>2 DEF Diffed
    <3>2. UrlsOf(p) \ dropped[r] = {u \in UrlsOf(p) : u.link \in LinksOf(p)}
      BY <3>1 DEF LinksOf, Store!LinksOf, UrlsOf
    <3>3. added[r] = LinksOf(p) \ LinksOf(p)
      BY <3>1
    <3>4. Store!Relist(p, LinksOf(p))
      BY <1>1, <1>4, <3>2, <3>3 DEF Store!Relist, UrlsOf, LinksOf
    <3>5. LinksOf(p) \in SUBSET Links
      BY <1>1 DEF TablesTyped, LinksOf, Store!LinksOf, Store!UrlsOf, Store!UrlRow
    <3> QED
      BY <1>1, <1>3, <2>1, <3>4, <3>5 DEF Store!DocumentedUpdate, Store!DocumentedNext, Stored
  <2>3. CASE body[r].links # None
    <3> DEFINE links == body[r].links
    <3>1. links \in SUBSET Links
      BY <1>1, <2>3 DEF LocalsTyped, PatchBody
    <3>2. added[r] = links \ LinksOf(p)
      BY <2>1, <2>3 DEF Diffed
    <3>3. UrlsOf(p) \ dropped[r] = {u \in UrlsOf(p) : u.link \in links}
      BY <2>1, <2>3 DEF Diffed
    <3>4. Store!Relist(p, links)
      BY <1>1, <1>4, <3>2, <3>3 DEF Store!Relist, UrlsOf, LinksOf
    <3> QED
      BY <1>1, <1>3, <2>1, <3>1, <3>4 DEF Store!DocumentedUpdate, Store!DocumentedNext, Stored
  <2> QED
    BY <2>2, <2>3
<1> QED
  BY <1>5, <1>6

LEMMA StepDocumented ==
  ASSUME SerialInv, [Next]_vars
  PROVE  Store!DocumentedNext \/ UNCHANGED <<projects, urls>>
<1>1. CASE UNCHANGED vars
  BY <1>1 DEF vars
<1>2. ASSUME NEW r \in Requests, Acts(r)
      PROVE  Store!DocumentedNext \/ UNCHANGED <<projects, urls>>
  <2>1. Inv
    BY DEF SerialInv
  <2>2. CASE Delete(r)
    <3>1. pc[r] = "delete"
      BY <2>2 DEF Delete
    <3>2. target[r] \in Ids
      BY <2>1, <3>1 DEF Inv, LocalsFit, InFlight
    <3> QED
      BY <2>2, <3>2 DEF Delete, Stored, UrlsOf, Store!Remove, Store!DocumentedNext
  <2>3. CASE Commit(r)
    BY <2>3, CommitDocumented
  <2> QED
    BY <1>2, <2>1, <2>2, <2>3, TablesStay
<1> QED
  BY <1>1, <1>2 DEF Next, Finished, Acts

\* The answer to an update comes with the commit of what its body names.
LEMMA UpdateKeepsTheRest ==
  ASSUME SerialInv, NEW r \in Requests, Acts(r), pc'[r] = "updated"
  PROVE  LET p == target[r] IN
         /\ body[r].slug = None => projects'[p].slug = projects[p].slug
         /\ body[r].published = None => projects'[p].published = projects[p].published
         /\ body[r].links = None => UrlsOf(p)' = UrlsOf(p)
<1> DEFINE p == target[r]
           column(c) == IF c \in writes[r] THEN row[r][c] ELSE projects[p][c]
           e == [slug |-> column("slug"), published |-> column("published")]
<1>1. Commit(r) /\ p # r
  BY Answered DEF SerialInv
<1>2. /\ pc[r] = "commit" /\ pc[r] \in InTransaction /\ p \in Ids /\ Current(r)
      /\ projects \in [Ids -> Store!Row]
      /\ target' = target
  BY <1>1 DEF SerialInv, Inv, TablesTyped, Commit, Leave, LocalsFit, InTransaction, InFlight
<1>3. Unnamed(r) /\ Diffed(r)
  BY <1>1, <1>2 DEF Current, IsCreate
<1>4. projects' = IF writes[r] = {} THEN projects ELSE [projects EXCEPT ![p] = e]
  BY <1>1 DEF Commit
<1>5. projects'[p] = projects[p] \/ projects'[p] = e
  BY <1>2, <1>4
<1>6. e.slug = column("slug") /\ e.published = column("published")
  OBVIOUS
<1>7. /\ column("slug") \in {row[r].slug, projects[p].slug}
      /\ column("published") \in {row[r].published, projects[p].published}
  OBVIOUS
<1> HIDE DEF e, column
<1>8. body[r].slug = None => projects'[p].slug = projects[p].slug
  BY <1>3, <1>5, <1>6, <1>7 DEF Unnamed
<1>9. body[r].published = None => projects'[p].published = projects[p].published
  BY <1>3, <1>5, <1>6, <1>7 DEF Unnamed
<1>10. ASSUME body[r].links = None PROVE UrlsOf(p)' = UrlsOf(p)
  <2>1. added[r] = {} /\ dropped[r] = {}
    BY <1>3, <1>10 DEF Diffed
  <2>2. urls' = (urls \ dropped[r]) \cup {[project |-> p, link |-> k, by |-> r] : k \in added[r]}
    BY <1>1 DEF Commit
  <2>3. urls' = urls
    BY <2>1, <2>2
  <2> QED
    BY <1>2, <2>3 DEF UrlsOf, Store!UrlsOf
<1> QED
  BY <1>8, <1>9, <1>10

-----------------------------------------------------------------------------
\* While no two requests overlap, a project whose DELETE was answered with 204
\* has no row, whatever is sent, aborted or retried afterwards: neither an
\* update nor a create brings it back.
THEOREM RemovalCorrect ==
  ASSUME MaxInFlight = 1
  PROVE  Spec => []RemovedStaysRemoved
<1>1. SerialInv => RemovedStaysRemoved
  BY DEF SerialInv, Gone, RemovedStaysRemoved
<1>2. SerialInv /\ [Next]_vars => SerialInv'
  BY StepSerialInv
<1> QED
  BY <1>1, <1>2, InitSerial, PTL DEF Spec

\* While no two requests overlap, an update changes only what its body names,
\* also when withRetry has run its callback several times, and leaves the url
\* rows alone when the body has no list of urls.
THEOREM UpdatesAreMinimal ==
  ASSUME MaxInFlight = 1
  PROVE  Spec => OnlyNamedFieldsChange
<1>1. ASSUME SerialInv, [Next]_vars
      PROVE  [NamedFieldsChange]_vars
  <2>1. CASE UNCHANGED vars
    BY <2>1
  <2>2. ASSUME NEW q \in Requests, Acts(q) PROVE NamedFieldsChange
    <3> SUFFICES ASSUME NEW r \in Requests, pc[r] # "updated", pc'[r] = "updated"
                 PROVE  LET p == target[r] IN
                        /\ body[r].slug = None => projects'[p].slug = projects[p].slug
                        /\ body[r].published = None => projects'[p].published = projects[p].published
                        /\ body[r].links = None => UrlsOf(p)' = UrlsOf(p)
      BY DEF NamedFieldsChange
    <3>1. r = q
      BY <1>1, <2>2, OthersStay DEF SerialInv
    <3> QED
      BY <1>1, <2>2, <3>1, UpdateKeepsTheRest
  <2> QED
    BY <1>1, <2>1, <2>2 DEF Next, Finished, Acts
<1>2. SerialInv /\ [Next]_vars => SerialInv'
  BY StepSerialInv
<1> QED
  BY <1>1, <1>2, InitSerial, PTL DEF Spec, OnlyNamedFieldsChange

\* While no two requests overlap, the handlers are the operations of the
\* documentation: a create is of a project that is not there, an update of one
\* that is, and the urls an update names are the urls the project has, in the
\* rows that already had them.
THEOREM RefinesDocumentedStore ==
  ASSUME MaxInFlight = 1
  PROVE  Spec => ImplementsDocumentedStore
<1>1. SerialInv => Store!Init
  BY NullRow DEF SerialInv, Inv, TablesTyped, TablesFit, Store!Init, Stored, Store!Holders,
     Store!Stored
<1>2. SerialInv /\ [Next]_vars => [Store!DocumentedNext]_<<projects, urls>>
  BY StepDocumented
<1>3. SerialInv /\ [Next]_vars => SerialInv'
  BY StepSerialInv
<1> QED
  BY <1>1, <1>2, <1>3, InitSerial, PTL DEF Spec, ImplementsDocumentedStore, Store!DocumentedSpec
=============================================================================
