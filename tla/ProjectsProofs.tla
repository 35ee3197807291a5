--------------------------- MODULE ProjectsProofs ---------------------------
(***************************************************************************)
(* Proofs about Projects, for any number of requests, projects, slugs,     *)
(* urls, bodies and attempts: types, that no 409 is without reason, that   *)
(* the handlers implement ProjectStore, that their locks make no circle,   *)
(* and that their work is bounded.                                         *)
(***************************************************************************)
EXTENDS Projects, TLAPS

All == Columns \cup {"id"}

LocalsTyped ==
  /\ pc       \in [Requests -> {"idle"} \cup InFlight \cup Final]
  /\ target   \in [Requests -> Ids \cup {None}]
  /\ body     \in [Requests -> PatchBody]
  /\ seen     \in [Requests -> Store!Row]
  /\ row      \in [Requests -> Store!Row]
  /\ shared   \in [Requests -> BOOLEAN]
  /\ writes   \in [Requests -> SUBSET All]
  /\ added    \in [Requests -> SUBSET Links]
  /\ dropped  \in [Requests -> SUBSET Store!UrlRow]
  /\ attempt  \in [Requests -> 0 .. MaxAttempts]

TablesTyped ==
  /\ projects \in [Ids -> Store!Row]
  /\ urls \subseteq Store!UrlRow

\* What its statement tells of the locals of a request.
LocalsFit(r) ==
  /\ pc[r] = "idle" => writes[r] = {} /\ added[r] = {} /\ dropped[r] = {}
  /\ pc[r] \in InFlight => target[r] \in Ids
  /\ pc[r] \in {"fetch", "check", "plan"} => writes[r] = {}
  /\ pc[r] \in {"fetch", "check", "plan", "write", "insert"} => added[r] = {}
  /\ pc[r] \in {"fetch", "check", "plan", "write", "diff"} => target[r] # r
  /\ pc[r] \in InTransaction /\ target[r] = r => body[r].links \in SUBSET Links /\ writes[r] = All
  /\ pc[r] \in InTransaction /\ target[r] # r => seen[r].slug \in Slugs
  /\ pc[r] \in InTransaction \ {"fetch"} => row[r].slug \in Slugs
  /\ pc[r] = "check" => body[r].slug \in Slugs
  /\ pc[r] = "diff" => body[r].links \in SUBSET Links
  /\ pc[r] = "insert" => writes[r] = All
  /\ pc[r] \in InTransaction /\ "id" \in writes[r] => writes[r] = All
  /\ \A u \in dropped[r] : u.project = target[r]

\* The tables, as ProjectStore has them in every state.
TablesFit ==
  /\ \A p, q \in Ids : Stored(p) /\ projects[p].slug = projects[q].slug => p = q
  /\ \A u \in urls : Stored(u.project)

\* What a transaction has found when it took its locks is still so: the row it
\* updates is there, its slug is nobody else's, its urls have their project.
Held(r) ==
  /\ Wrote(r) # {} => "id" \in writes[r] \/ Stored(target[r])
  /\ "slug" \in Wrote(r) => Holders(row[r].slug) \subseteq {target[r]}
  /\ pc[r] = "commit" /\ added[r] # {} => "id" \in writes[r] \/ Stored(target[r])

\* Two transactions write different projects, and different slugs.
Apart(r, q) ==
  Wrote(r) # {} /\ Wrote(q) # {} =>
    /\ target[r] # target[q]
    /\ "slug" \in Wrote(r) \cap Wrote(q) => row[r].slug # row[q].slug

\* A project is there, or being written, only once its create has begun.
Unborn(r) ==
  pc[r] = "idle" =>
    /\ ~Stored(r)
    /\ \A q \in Requests : pc[q] \in InTransaction => target[q] # r

Inv ==
  /\ LocalsTyped /\ TablesTyped /\ TablesFit
  /\ \A r \in Requests : LocalsFit(r) /\ Held(r) /\ Unborn(r)
  /\ \A r, q \in Requests : r # q => Apart(r, q)

\* A step of r leaves the locals of the others alone.
OthersWait(r) ==
  \A q \in Requests \ {r} :
    /\ pc'[q] = pc[q] /\ target'[q] = target[q] /\ body'[q] = body[q] /\ seen'[q] = seen[q]
    /\ row'[q] = row[q] /\ shared'[q] = shared[q] /\ writes'[q] = writes[q]
    /\ added'[q] = added[q] /\ dropped'[q] = dropped[q] /\ attempt'[q] = attempt[q]

\* What every step of a request does to the locals.
Moves(r) == LocalsTyped' /\ OthersWait(r) /\ LocalsFit(r)' /\ pc'[r] # "idle"

-----------------------------------------------------------------------------
LEMMA Labels ==
  /\ InTransaction \subseteq InFlight
  /\ \A x \in Final \cup {"idle", "reply", "delete"} : x \notin InTransaction
  /\ "idle" \notin Final /\ "reply" \in InFlight /\ "delete" \in InFlight
BY DEF InTransaction, InFlight, Final

LEMMA NullRow ==
  /\ Store!NoRow \in Store!Row
  /\ \A x \in Store!Row : x.slug \in Slugs \/ x.slug = None
  /\ EmptyBody \in PatchBody
  /\ None \notin Slugs
BY NoneIsNoValue DEF Store!NoRow, Store!Row, EmptyBody, PatchBody

\* The end of a transaction clears its locals.
LEMMA Left ==
  ASSUME LocalsTyped, NEW r \in Requests, LocalsFit(r), pc[r] \in InFlight,
         NEW answer \in Final \cup {"reply"}, Leave(r, answer)
  PROVE  Moves(r) /\ pc'[r] = answer /\ target' = target
<1>1. /\ pc' = [pc EXCEPT ![r] = answer]
      /\ row' = [row EXCEPT ![r] = Store!NoRow]
      /\ shared' = [shared EXCEPT ![r] = FALSE]
      /\ writes' = [writes EXCEPT ![r] = {}]
      /\ added' = [added EXCEPT ![r] = {}]
      /\ dropped' = [dropped EXCEPT ![r] = {}]
      /\ seen' = [seen EXCEPT ![r] = Store!NoRow]
      /\ body' = [body EXCEPT ![r] = EmptyBody]
      /\ attempt' = [attempt EXCEPT ![r] = 0]
      /\ target' = target
  BY DEF Leave, Goto, ClearCallback
<1>2. LocalsTyped'
  BY <1>1, Labels, NullRow, SomeAttempts DEF LocalsTyped
<1>3. OthersWait(r)
  BY <1>1 DEF LocalsTyped, OthersWait
<1>4. pc'[r] = answer /\ dropped'[r] = {}
  BY <1>1 DEF LocalsTyped
<1>5. LocalsFit(r)'
  BY <1>1, <1>4, Labels DEF LocalsFit, InFlight, InTransaction, Final
<1> QED
  BY <1>1, <1>2, <1>3, <1>4, <1>5, Labels DEF Moves

\* A request arrives.
LEMMA CreateMoves ==
  ASSUME LocalsTyped, NEW r \in Requests, LocalsFit(r),
         NEW s \in Slugs, NEW links \in SUBSET Links, Create(r, s, links)
  PROVE  Moves(r) /\ pc'[r] \in {"conflict", "insert"} /\ target'[r] = r
<1>1. /\ pc[r] = "idle"
      /\ target' = [target EXCEPT ![r] = r]
      /\ body' = [body EXCEPT ![r] = [slug |-> s, published |-> FALSE, links |-> links]]
      /\ UNCHANGED <<seen, shared, added, dropped>>
  BY DEF Create, CanStart
<1>2. \/ /\ pc' = [pc EXCEPT ![r] = "conflict"]
         /\ UNCHANGED <<row, writes, attempt>>
      \/ /\ pc' = [pc EXCEPT ![r] = "insert"]
         /\ row' = [row EXCEPT ![r] = [slug |-> s, published |-> FALSE]]
         /\ writes' = [writes EXCEPT ![r] = All]
         /\ attempt' = [attempt EXCEPT ![r] = 1]
  BY DEF Create, Goto, All
<1>3. /\ [slug |-> s, published |-> FALSE, links |-> links] \in PatchBody
      /\ [slug |-> s, published |-> FALSE] \in Store!Row
      /\ r \in Ids
  BY DEF PatchBody, Store!Row, Ids
<1>4. LocalsTyped'
  <2>1. PICK b \in PatchBody, e \in Store!Row, label \in {"conflict", "insert"} :
          /\ body' = [body EXCEPT ![r] = b]
          /\ row' = row \/ row' = [row EXCEPT ![r] = e]
          /\ pc' = [pc EXCEPT ![r] = label]
    BY <1>1, <1>2, <1>3
  <2> QED
    BY <1>1, <1>2, <1>3, <2>1, SomeAttempts DEF LocalsTyped, InFlight, InTransaction, Final
<1>5. OthersWait(r)
  BY <1>1, <1>2 DEF LocalsTyped, OthersWait
<1>6. /\ target'[r] = r /\ body'[r].links = links
      /\ writes[r] = {} /\ added'[r] = {} /\ dropped'[r] = {}
      /\ \/ pc'[r] = "conflict"
         \/ pc'[r] = "insert" /\ row'[r].slug = s /\ writes'[r] = All
  BY <1>1, <1>2 DEF LocalsTyped, LocalsFit
<1>7. LocalsFit(r)'
  BY <1>3, <1>6 DEF LocalsFit, InFlight, InTransaction
<1> QED
  BY <1>4, <1>5, <1>6, <1>7 DEF Moves

LEMMA UpdateMoves ==
  ASSUME LocalsTyped, TablesTyped, NEW r \in Requests, LocalsFit(r),
         NEW p \in Ids, NEW patch \in Patches, Update(r, p, patch)
  PROVE  /\ Moves(r) /\ pc'[r] \in {"notFound", "fetch"} /\ target'[r] = p
         /\ pc'[r] = "fetch" => Stored(p)
<1>1. /\ pc[r] = "idle" /\ p # r
      /\ target' = [target EXCEPT ![r] = p]
      /\ UNCHANGED <<row, shared, writes, added, dropped>>
  BY DEF Update, CanStart, callback
<1>2. \/ /\ pc' = [pc EXCEPT ![r] = "notFound"]
         /\ UNCHANGED <<body, seen, attempt>>
      \/ /\ pc' = [pc EXCEPT ![r] = "fetch"]
         /\ Stored(p)
         /\ body' = [body EXCEPT ![r] = patch]
         /\ seen' = [seen EXCEPT ![r] = projects[p]]
         /\ attempt' = [attempt EXCEPT ![r] = 1]
  BY DEF Update, Goto
<1>3. patch \in PatchBody /\ projects[p] \in Store!Row
  BY PatchesAreBodies DEF TablesTyped
<1>4. LocalsTyped'
  BY <1>1, <1>2, <1>3, SomeAttempts DEF LocalsTyped, InFlight, InTransaction, Final
<1>5. OthersWait(r)
  BY <1>1, <1>2 DEF LocalsTyped, OthersWait
<1>6. /\ target'[r] = p
      /\ writes'[r] = {} /\ added'[r] = {} /\ dropped'[r] = {}
      /\ \/ pc'[r] = "notFound"
         \/ pc'[r] = "fetch" /\ seen'[r] = projects[p] /\ Stored(p)
  BY <1>1, <1>2 DEF LocalsTyped, LocalsFit
<1>7. Stored(p) => projects[p].slug \in Slugs
  BY <1>3, NullRow DEF Stored, Store!Stored
<1>8. LocalsFit(r)'
  BY <1>1, <1>6, <1>7 DEF LocalsFit, InFlight, InTransaction
<1> QED
  BY <1>4, <1>5, <1>6, <1>8 DEF Moves

LEMMA RemoveMoves ==
  ASSUME LocalsTyped, NEW r \in Requests, LocalsFit(r), NEW p \in Ids, Remove(r, p)
  PROVE  Moves(r) /\ pc'[r] = "delete"
<1>1. /\ pc[r] = "idle"
      /\ target' = [target EXCEPT ![r] = p]
      /\ pc' = [pc EXCEPT ![r] = "delete"]
      /\ UNCHANGED <<body, seen, row, shared, writes, added, dropped, attempt>>
  BY DEF Remove, CanStart, callback, Goto
<1>2. LocalsTyped' /\ OthersWait(r)
  BY <1>1 DEF LocalsTyped, InFlight, InTransaction, Final, OthersWait
<1>3. pc'[r] = "delete" /\ target'[r] = p /\ dropped'[r] = {}
  BY <1>1 DEF LocalsTyped, LocalsFit
<1>4. LocalsFit(r)'
  BY <1>3 DEF LocalsFit, InFlight, InTransaction
<1> QED
  BY <1>2, <1>3, <1>4 DEF Moves

\* The steps that change the pc alone, between the write and the answer.
LEMMA OnlyGoes ==
  ASSUME LocalsTyped, NEW r \in Requests, LocalsFit(r), UNCHANGED locals,
         \/ /\ pc[r] \in {"reply", "delete"}
            /\ \E answer \in Final : Goto(r, answer)
         \/ pc[r] = "links" /\ Goto(r, "commit")
  PROVE  Moves(r)
<1>1. UNCHANGED <<target, body, seen, row, shared, writes, added, dropped, attempt>>
  BY DEF locals, callback
<1>2. PICK label \in Final \cup {"commit"} :
        /\ pc' = [pc EXCEPT ![r] = label]
        /\ label \in Final \/ (pc[r] = "links" /\ label = "commit")
  BY DEF Goto
<1>3. LocalsTyped' /\ OthersWait(r) /\ pc'[r] = label
  BY <1>1, <1>2 DEF LocalsTyped, InFlight, InTransaction, Final, OthersWait
<1>4. LocalsFit(r)'
  BY <1>1, <1>2, <1>3 DEF LocalsFit, InFlight, InTransaction, Final
<1> QED
  BY <1>2, <1>3, <1>4, Labels DEF Moves

\* A transaction goes on after its row.
LEMMA AfterRowMoves ==
  ASSUME LocalsTyped, NEW r \in Requests, LocalsFit(r), AfterRow(r),
         pc[r] \in {"plan", "write", "insert"},
         UNCHANGED <<target, body, seen, row, shared, dropped, attempt>>,
         \/ writes' = writes
         \/ writes' = [writes EXCEPT ![r] = {}] /\ target[r] # r
  PROVE  /\ Moves(r) /\ pc'[r] \in {"diff", "links", "commit"}
         /\ pc'[r] = "commit" => added'[r] = {}
<1>1. PICK label \in {"diff", "links", "commit"} :
        /\ pc' = [pc EXCEPT ![r] = label]
        /\ label = "diff" => target[r] # r /\ body[r].links # None
        /\ \/ added' = added
           \/ label = "links" /\ target[r] = r /\ added' = [added EXCEPT ![r] = body[r].links]
  BY DEF AfterRow, Goto, IsCreate
<1>2. target[r] = r => body[r].links \in SUBSET Links
  BY DEF LocalsFit, InTransaction
<1>3. LocalsTyped' /\ OthersWait(r)
  BY <1>1, <1>2 DEF LocalsTyped, InFlight, InTransaction, OthersWait
<1>4. /\ pc'[r] = label
      /\ label = "commit" => added'[r] = {}
      /\ writes'[r] = writes[r] \/ (writes'[r] = {} /\ target[r] # r)
  BY <1>1 DEF LocalsTyped, LocalsFit
<1>5. body[r].links # None => body[r].links \in SUBSET Links
  BY DEF LocalsTyped, PatchBody
<1>6. LocalsFit(r)'
  BY <1>1, <1>4, <1>5 DEF LocalsFit, InFlight, InTransaction
<1> QED
  BY <1>3, <1>4, <1>6 DEF Moves

\* The callback of an update, up to its plan for the save.
LEMMA EditMoves ==
  ASSUME LocalsTyped, NEW r \in Requests, LocalsFit(r), pc[r] \in {"fetch", "check"},
         NEW entity \in Store!Row, NEW isShared \in BOOLEAN, NEW slug \in Slugs,
         Edit(r, entity, isShared, slug), UNCHANGED <<target, body, writes, added, dropped, attempt>>
  PROVE  Moves(r) /\ pc'[r] = "plan"
<1> DEFINE flag == IF body[r].published = None THEN entity.published ELSE body[r].published
           edited == [slug |-> slug, published |-> flag]
<1>1. flag \in BOOLEAN
  BY DEF LocalsTyped, PatchBody, Store!Row
<1> HIDE DEF flag
<1>2. edited \in Store!Row /\ edited.slug = slug
  BY <1>1 DEF Store!Row
<1>3. /\ row' = [row EXCEPT ![r] = edited]
      /\ seen' = IF isShared THEN [seen EXCEPT ![r] = edited] ELSE seen
      /\ shared' = [shared EXCEPT ![r] = isShared]
      /\ pc' = [pc EXCEPT ![r] = "plan"]
  BY DEF Edit, Goto, flag
<1> HIDE DEF edited
<1>4. LocalsTyped' /\ OthersWait(r)
  BY <1>2, <1>3 DEF LocalsTyped, InFlight, InTransaction, OthersWait
<1>5. /\ pc'[r] = "plan" /\ row'[r].slug = slug
      /\ seen'[r].slug \in {slug, seen[r].slug}
  BY <1>2, <1>3 DEF LocalsTyped
<1>6. LocalsFit(r)'
  BY <1>5 DEF LocalsFit, InFlight, InTransaction
<1> QED
  BY <1>4, <1>5, <1>6 DEF Moves

LEMMA FetchMoves ==
  ASSUME LocalsTyped, TablesTyped, NEW r \in Requests, LocalsFit(r), Fetch(r)
  PROVE  Moves(r) /\ pc'[r] \in {"check", "plan"}
<1> DEFINE p == target[r]
           gone == ~Stored(p)
           entity == IF gone THEN seen[r] ELSE projects[p]
<1>1. /\ pc[r] = "fetch" /\ p \in Ids
      /\ UNCHANGED <<target, body, writes, added, dropped, attempt>>
  BY DEF Fetch, LocalsFit, InFlight, InTransaction
<1>2. entity \in Store!Row /\ entity.slug \in Slugs
  <2>1. seen[r] \in Store!Row /\ seen[r].slug \in Slugs
    BY <1>1 DEF LocalsTyped, LocalsFit, InTransaction
  <2>2. projects[p] \in Store!Row /\ (Stored(p) => projects[p].slug \in Slugs)
    BY <1>1, NullRow DEF TablesTyped, Stored, Store!Stored
  <2> QED
    BY <2>1, <2>2
<1>3. gone \in BOOLEAN
  BY DEF Stored, Store!Stored
<1>4. CASE body[r].slug \notin {None, entity.slug}
  <2>1. /\ row' = [row EXCEPT ![r] = entity]
        /\ shared' = [shared EXCEPT ![r] = gone]
        /\ pc' = [pc EXCEPT ![r] = "check"]
        /\ seen' = seen
    BY <1>4 DEF Fetch, Goto
  <2>2. body[r].slug \in Slugs
    BY <1>4 DEF LocalsTyped, PatchBody
  <2> HIDE DEF entity, gone
  <2>3. LocalsTyped' /\ OthersWait(r)
    BY <1>1, <1>2, <1>3, <2>1 DEF LocalsTyped, InFlight, InTransaction, OthersWait
  <2>4. pc'[r] = "check" /\ row'[r] = entity
    BY <2>1 DEF LocalsTyped
  <2>5. LocalsFit(r)'
    BY <1>1, <1>2, <2>1, <2>2, <2>4 DEF LocalsFit, InFlight, InTransaction
  <2> QED
    BY <2>3, <2>4, <2>5 DEF Moves
<1>5. CASE body[r].slug \in {None, entity.slug}
  <2>1. Edit(r, entity, gone, entity.slug)
    BY <1>5 DEF Fetch
  <2> HIDE DEF entity, gone
  <2> QED
    BY <1>1, <1>2, <1>3, <2>1, EditMoves
<1> QED
  BY <1>4, <1>5

LEMMA CheckSlugMoves ==
  ASSUME LocalsTyped, NEW r \in Requests, LocalsFit(r), CheckSlug(r)
  PROVE  Moves(r) /\ pc'[r] \in {"conflict", "plan"}
<1>1. pc[r] = "check" /\ pc[r] \in InFlight /\ "conflict" \in Final
  BY DEF CheckSlug, InFlight, InTransaction, Final
<1>2. CASE Refuse(r, "conflict")
  BY <1>1, <1>2, Left DEF Refuse
<1>3. CASE /\ Edit(r, row[r], shared[r], body[r].slug)
           /\ UNCHANGED <<projects, urls, target, body, writes, added, dropped, attempt>>
  <2>1. row[r] \in Store!Row /\ shared[r] \in BOOLEAN /\ body[r].slug \in Slugs
    BY <1>1 DEF LocalsTyped, LocalsFit
  <2> QED
    BY <1>1, <1>3, <2>1, EditMoves
<1> QED
  BY <1>2, <1>3 DEF CheckSlug

LEMMA PlanSaveMoves ==
  ASSUME LocalsTyped, NEW r \in Requests, LocalsFit(r), PlanSave(r)
  PROVE  /\ Moves(r) /\ pc'[r] \in {"insert", "write", "diff", "links", "commit"}
         /\ pc'[r] \notin {"insert", "write"} => writes'[r] = {}
         /\ pc'[r] = "commit" => added'[r] = {}
<1> DEFINE changed == {c \in Columns : row[r][c] # projects[target[r]][c]}
<1>1. /\ pc[r] = "plan" /\ writes[r] = {} /\ added[r] = {} /\ target[r] # r
      /\ UNCHANGED <<target, body, seen, row, shared, dropped, attempt>>
  BY DEF PlanSave, LocalsFit
<1>2. changed \subseteq Columns
  OBVIOUS
<1> HIDE DEF changed
<1>3. ASSUME NEW label \in {"insert", "write"}, NEW set \in SUBSET All,
             label = "insert" => set = All, label = "write" => set \subseteq Columns,
             writes' = [writes EXCEPT ![r] = set], Goto(r, label), UNCHANGED added
      PROVE  Moves(r) /\ pc'[r] = label
  <2>1. LocalsTyped' /\ OthersWait(r)
    BY <1>1, <1>3 DEF LocalsTyped, InFlight, InTransaction, OthersWait, Goto
  <2>2. pc'[r] = label /\ writes'[r] = set
    BY <1>3 DEF LocalsTyped, Goto
  <2>3. "id" \notin Columns
    BY DEF Columns
  <2>4. LocalsFit(r)'
    BY <1>1, <1>3, <2>2, <2>3 DEF LocalsFit, InFlight, InTransaction
  <2> QED
    BY <1>3, <2>1, <2>2, <2>4 DEF Moves
<1>4. CASE AfterRow(r) /\ UNCHANGED writes
  BY <1>1, <1>4, AfterRowMoves
<1>5. CASE writes' = [writes EXCEPT ![r] = All] /\ Goto(r, "insert") /\ UNCHANGED added
  BY <1>3, <1>5
<1>6. CASE writes' = [writes EXCEPT ![r] = changed] /\ Goto(r, "write") /\ UNCHANGED added
  BY <1>2, <1>3, <1>6 DEF All
<1> QED
  BY <1>4, <1>5, <1>6 DEF PlanSave, All, changed

LEMMA DiffUrlsMoves ==
  ASSUME LocalsTyped, TablesTyped, NEW r \in Requests, LocalsFit(r), DiffUrls(r)
  PROVE  Moves(r) /\ pc'[r] = "links" /\ writes' = writes
<1> DEFINE new == body[r].links \ LinksOf(target[r])
           old == {u \in UrlsOf(target[r]) : u.link \notin body[r].links}
<1>1. /\ pc[r] = "diff"
      /\ pc' = [pc EXCEPT ![r] = "links"]
      /\ added' = [added EXCEPT ![r] = new]
      /\ dropped' = [dropped EXCEPT ![r] = old]
      /\ UNCHANGED <<target, body, seen, row, shared, writes, attempt>>
  BY DEF DiffUrls, Goto
<1>2. new \in SUBSET Links
  BY <1>1 DEF LocalsFit
<1>3. old \in SUBSET Store!UrlRow /\ \A u \in old : u.project = target[r]
  BY DEF UrlsOf, Store!UrlsOf, TablesTyped
<1> HIDE DEF new, old
<1>4. LocalsTyped' /\ OthersWait(r)
  BY <1>1, <1>2, <1>3 DEF LocalsTyped, InFlight, InTransaction, OthersWait
<1>5. pc'[r] = "links" /\ dropped'[r] = old
  BY <1>1 DEF LocalsTyped
<1>6. LocalsFit(r)'
  BY <1>1, <1>3, <1>5 DEF LocalsFit, InFlight, InTransaction
<1> QED
  BY <1>1, <1>4, <1>5, <1>6 DEF Moves

LEMMA AbortMoves ==
  ASSUME LocalsTyped, NEW r \in Requests, LocalsFit(r), Abort(r)
  PROVE  Moves(r) /\ pc'[r] \in {"error", "insert", "fetch"} /\ target' = target
<1>1. pc[r] \in InTransaction /\ pc[r] \in InFlight /\ "error" \in Final
  BY DEF Abort, InFlight, Final
<1>2. CASE Refuse(r, "error")
  BY <1>1, <1>2, Left DEF Refuse
<1>3. CASE ~Refuse(r, "error")
  <2>1. /\ attempt[r] < MaxAttempts
        /\ attempt' = [attempt EXCEPT ![r] = @ + 1]
        /\ UNCHANGED <<target, body, seen>>
    BY <1>3 DEF Abort
  <2>2. attempt' \in [Requests -> 0 .. MaxAttempts]
    BY <2>1, SomeAttempts DEF LocalsTyped
  <2>3. CASE IsCreate(r)
    <3>1. /\ pc' = [pc EXCEPT ![r] = "insert"]
          /\ added' = [added EXCEPT ![r] = {}]
          /\ UNCHANGED <<row, shared, writes, dropped>>
      BY <1>3, <2>3 DEF Abort, Goto
    <3>2. LocalsTyped' /\ OthersWait(r)
      BY <2>1, <2>2, <3>1 DEF LocalsTyped, InFlight, InTransaction, OthersWait
    <3>3. pc'[r] = "insert" /\ added'[r] = {}
      BY <3>1 DEF LocalsTyped
    <3>4. pc[r] # "fetch" /\ target[r] = r
      BY <2>3 DEF LocalsFit, IsCreate
    <3>5. LocalsFit(r)'
      BY <1>1, <2>1, <3>1, <3>3, <3>4 DEF LocalsFit, InFlight, InTransaction
    <3> QED
      BY <2>1, <3>2, <3>3, <3>5 DEF Moves
  <2>4. CASE ~IsCreate(r)
    <3>1. /\ pc' = [pc EXCEPT ![r] = "fetch"]
          /\ row' = [row EXCEPT ![r] = Store!NoRow]
          /\ shared' = [shared EXCEPT ![r] = FALSE]
          /\ writes' = [writes EXCEPT ![r] = {}]
          /\ added' = [added EXCEPT ![r] = {}]
          /\ dropped' = [dropped EXCEPT ![r] = {}]
      BY <1>3, <2>4 DEF Abort, Goto, ClearCallback
    <3>2. LocalsTyped' /\ OthersWait(r)
      BY <2>1, <2>2, <3>1, NullRow DEF LocalsTyped, InFlight, InTransaction, OthersWait
    <3>3. pc'[r] = "fetch" /\ added'[r] = {} /\ writes'[r] = {} /\ dropped'[r] = {}
      BY <3>1 DEF LocalsTyped
    <3>4. target[r] # r
      BY <2>4 DEF IsCreate
    <3>5. LocalsFit(r)'
      BY <1>1, <2>1, <3>3, <3>4 DEF LocalsFit, InFlight, InTransaction
    <3> QED
      BY <2>1, <3>2, <3>3, <3>5 DEF Moves
  <2> QED
    BY <2>3, <2>4
<1> QED
  BY <1>2, <1>3

-----------------------------------------------------------------------------
\* What the operations of ProjectStore leave of the tables.
LEMMA StoreKeeps ==
  ASSUME TablesTyped, TablesFit, NEW p \in Ids, Store!Update(p) \/ Store!Remove(p)
  PROVE  TablesTyped' /\ TablesFit'
<1> USE DEF Stored, Store!Stored, Store!UrlsOf
<1>1. CASE Store!Update(p)
  <2>1. PICK e \in Store!Row :
          /\ projects' = [projects EXCEPT ![p] = e]
          /\ e.slug # None /\ Store!Holders(e.slug) \subseteq {p}
    BY <1>1 DEF Store!Update, Store!PutRow
  <2>2. PICK by \in Ids, new \in SUBSET Links, kept \in SUBSET Store!UrlsOf(p) :
          urls' = (urls \ Store!UrlsOf(p)) \cup (kept \cup Store!NewUrls(p, new, by))
    BY <1>1 DEF Store!Update, Store!PutUrls
  <2>3. Store!NewUrls(p, new, by) \subseteq {u \in Store!UrlRow : u.project = p}
    BY DEF Store!NewUrls, Store!UrlRow
  <2>4. TablesTyped'
    BY <2>1, <2>2, <2>3 DEF TablesTyped
  <2>5. /\ \A q \in Ids \ {p} : projects'[q] = projects[q]
        /\ projects'[p] = e
    BY <2>1 DEF TablesTyped
  <2>6. \A q \in Ids \ {p} : projects[q].slug # e.slug
    BY <2>1 DEF Store!Holders
  <2>7. \A x, q \in Ids : Stored(x)' /\ projects'[x].slug = projects'[q].slug => x = q
    BY <2>5, <2>6 DEF TablesFit
  <2>8. \A u \in urls' : u \in urls \/ u.project = p
    BY <2>2, <2>3
  <2>9. \A u \in urls' : u.project \in Ids /\ Stored(u.project)'
    BY <2>1, <2>5, <2>8 DEF TablesFit, TablesTyped, Store!UrlRow
  <2> QED
    BY <2>4, <2>7, <2>9 DEF TablesFit
<1>2. CASE Store!Remove(p)
  <2>1. projects' = [projects EXCEPT ![p] = Store!NoRow] /\ urls' = urls \ Store!UrlsOf(p)
    BY <1>2 DEF Store!Remove
  <2>2. TablesTyped'
    BY <2>1, NullRow DEF TablesTyped
  <2>3. /\ \A q \in Ids \ {p} : projects'[q] = projects[q]
        /\ projects'[p].slug = None
    BY <2>1 DEF TablesTyped, Store!NoRow
  <2>4. \A u \in urls' : u.project \in Ids \ {p} /\ Stored(u.project)'
    BY <2>1, <2>3 DEF TablesFit, TablesTyped, Store!UrlRow
  <2> QED
    BY <2>2, <2>3, <2>4 DEF TablesFit
<1> QED
  BY <1>1, <1>2

\* The requests in between know nothing of a step but what it does to the
\* tables and to the locks.
LEMMA MovesKeepInv ==
  ASSUME Inv, NEW r \in Requests, Moves(r), TablesTyped', TablesFit',
         \A q \in Requests : Held(q)',
         \A q \in Requests \ {r} : Apart(r, q)' /\ Apart(q, r)',
         \A q \in Requests \ {r} : pc[q] = "idle" =>
           ~Stored(q)' /\ (pc'[r] \in InTransaction => target'[r] # q)
  PROVE  Inv'
<1>1. /\ LocalsTyped' /\ LocalsFit(r)' /\ pc'[r] # "idle"
      /\ \A q \in Requests \ {r} :
           /\ pc'[q] = pc[q] /\ target'[q] = target[q] /\ body'[q] = body[q] /\ seen'[q] = seen[q]
           /\ row'[q] = row[q] /\ shared'[q] = shared[q] /\ writes'[q] = writes[q]
           /\ added'[q] = added[q] /\ dropped'[q] = dropped[q] /\ attempt'[q] = attempt[q]
  BY DEF Moves, OthersWait
<1>2. \A q \in Requests \ {r} : LocalsFit(q)'
  BY <1>1 DEF Inv, LocalsFit
<1>3. \A q, x \in Requests \ {r} : q # x => Apart(q, x)'
  BY <1>1 DEF Inv, Apart, Wrote
<1>4. \A q \in Requests : Unborn(q)'
  BY <1>1 DEF Inv, Unborn
<1> QED
  BY <1>1, <1>2, <1>3, <1>4 DEF Inv

\* A step that leaves the tables alone.
LEMMA QuietKeepsInv ==
  ASSUME Inv, NEW r \in Requests, Moves(r), UNCHANGED <<projects, urls>>,
         Held(r)',
         \A q \in Requests \ {r} : Apart(r, q)' /\ Apart(q, r)',
         pc'[r] \in InTransaction => \A q \in Requests \ {r} : pc[q] = "idle" => target'[r] # q
  PROVE  Inv'
<1>1. TablesTyped' /\ TablesFit'
  BY DEF Inv, TablesTyped, TablesFit, Stored, Store!Stored
<1>2. \A q \in Requests \ {r} : Held(q)'
  BY DEF Inv, Moves, OthersWait, Held, Wrote, Stored, Store!Stored, Holders, Store!Holders
<1>3. \A q \in Requests : Unborn(q) /\ (Stored(q)' <=> Stored(q))
  BY DEF Inv, Stored, Store!Stored
<1>4. \A q \in Requests \ {r} : pc[q] = "idle" =>
        ~Stored(q)' /\ (pc'[r] \in InTransaction => target'[r] # q)
  BY <1>3 DEF Unborn
<1> QED
  BY <1>1, <1>2, <1>4, MovesKeepInv

\* A step that takes no locks, or lets go of them.
LEMMA UnlockedKeepsInv ==
  ASSUME Inv, NEW r \in Requests, Moves(r), UNCHANGED <<projects, urls>>,
         \/ pc'[r] \notin {"diff", "links", "commit"}
         \/ writes'[r] = {} /\ (pc'[r] = "commit" => added'[r] = {}),
         pc'[r] \in InTransaction => \A q \in Requests \ {r} : pc[q] = "idle" => target'[r] # q
  PROVE  Inv'
<1>1. Wrote(r)' = {}
  BY DEF Wrote
<1>2. Held(r)' /\ \A q \in Requests \ {r} : Apart(r, q)' /\ Apart(q, r)'
  BY <1>1 DEF Held, Apart
<1> QED
  BY <1>2, QuietKeepsInv

\* A transaction under way is of a project that is no idle request's.
LEMMA TargetsAreBorn ==
  ASSUME Inv, NEW r \in Requests, pc[r] \in InTransaction, target'[r] = target[r]
  PROVE  \A q \in Requests \ {r} : pc[q] = "idle" => target'[r] # q
BY DEF Inv, Unborn

-----------------------------------------------------------------------------
\* The steps that take no locks.
LEMMA ArriveKeepsInv ==
  ASSUME Inv, NEW r \in Requests, Arrive(r)
  PROVE  Inv' /\ UNCHANGED <<projects, urls>>
<1>1. LocalsTyped /\ TablesTyped /\ LocalsFit(r) /\ \A q \in Requests : Unborn(q)
  BY DEF Inv
<1>2. CASE \E s \in Slugs, links \in SUBSET Links : Create(r, s, links)
  <2>1. PICK s \in Slugs, links \in SUBSET Links : Create(r, s, links)
    BY <1>2
  <2>2. Moves(r) /\ pc'[r] \in {"conflict", "insert"} /\ target'[r] = r
    BY <1>1, <2>1, CreateMoves
  <2>3. UNCHANGED <<projects, urls>>
    BY <2>1 DEF Create
  <2> QED
    BY <2>2, <2>3, UnlockedKeepsInv
<1>3. CASE \E p \in Ids, patch \in Patches : Update(r, p, patch)
  <2>1. PICK p \in Ids, patch \in Patches : Update(r, p, patch)
    BY <1>3
  <2>2. /\ Moves(r) /\ pc'[r] \in {"notFound", "fetch"} /\ target'[r] = p
        /\ pc'[r] = "fetch" => Stored(p)
    BY <1>1, <2>1, UpdateMoves
  <2>3. UNCHANGED <<projects, urls>>
    BY <2>1 DEF Update
  <2>4. pc'[r] \in InTransaction => \A q \in Requests \ {r} : pc[q] = "idle" => target'[r] # q
    BY <1>1, <2>2, Labels DEF Unborn, InTransaction
  <2> QED
    BY <2>2, <2>3, <2>4, UnlockedKeepsInv
<1>4. CASE \E p \in Ids : Remove(r, p)
  <2>1. PICK p \in Ids : Remove(r, p)
    BY <1>4
  <2>2. Moves(r) /\ pc'[r] = "delete"
    BY <1>1, <2>1, RemoveMoves
  <2>3. UNCHANGED <<projects, urls>>
    BY <2>1 DEF Remove
  <2> QED
    BY <2>2, <2>3, Labels, UnlockedKeepsInv
<1> QED
  BY <1>2, <1>3, <1>4 DEF Arrive

LEMMA LeftKeepsInv ==
  ASSUME Inv, NEW r \in Requests, pc[r] \in InFlight,
         NEW answer \in Final \cup {"reply"}, Refuse(r, answer)
  PROVE  Inv' /\ UNCHANGED <<projects, urls>>
<1>1. LocalsTyped /\ LocalsFit(r)
  BY DEF Inv
<1>2. Moves(r) /\ pc'[r] = answer /\ UNCHANGED <<projects, urls>>
  BY <1>1, Left DEF Refuse
<1>3. answer \notin InTransaction
  BY Labels
<1>4. pc'[r] \notin {"diff", "links", "commit"}
  BY <1>2, <1>3 DEF InTransaction
<1> QED
  BY <1>2, <1>3, <1>4, UnlockedKeepsInv

LEMMA ReadsKeepInv ==
  ASSUME Inv, NEW r \in Requests, Fetch(r) \/ CheckSlug(r) \/ PlanSave(r) \/ Abort(r)
  PROVE  Inv' /\ UNCHANGED <<projects, urls>>
<1>1. LocalsTyped /\ TablesTyped /\ LocalsFit(r)
  BY DEF Inv
<1>2. UNCHANGED <<projects, urls>>
  BY DEF Fetch, CheckSlug, PlanSave, Abort, Refuse
<1>3. pc[r] \in InTransaction /\ target' = target
  BY DEF Fetch, CheckSlug, PlanSave, Abort, Refuse, Leave, InTransaction
<1>4. \A q \in Requests \ {r} : pc[q] = "idle" => target'[r] # q
  BY <1>3, TargetsAreBorn
<1>5. Moves(r)
  BY <1>1, FetchMoves, CheckSlugMoves, PlanSaveMoves, AbortMoves
<1>6. \/ pc'[r] \notin {"diff", "links", "commit"}
      \/ writes'[r] = {} /\ (pc'[r] = "commit" => added'[r] = {})
  <2>1. CASE Fetch(r)
    BY <1>1, <2>1, FetchMoves
  <2>2. CASE CheckSlug(r)
    BY <1>1, <2>2, CheckSlugMoves
  <2>3. CASE PlanSave(r)
    BY <1>1, <2>3, PlanSaveMoves
  <2>4. CASE Abort(r)
    BY <1>1, <2>4, AbortMoves
  <2> QED
    BY <2>1, <2>2, <2>3, <2>4
<1> QED
  BY <1>2, <1>4, <1>5, <1>6, UnlockedKeepsInv

-----------------------------------------------------------------------------
\* The INSERT or UPDATE of the row, which locks it and its slug.
LEMMA RowKeepsInv ==
  ASSUME Inv, NEW r \in Requests, InsertRow(r) \/ WriteRow(r)
  PROVE  Inv' /\ UNCHANGED <<projects, urls>>
<1>1. LocalsTyped /\ TablesTyped /\ LocalsFit(r) /\ pc[r] \in {"insert", "write"}
  BY DEF Inv, InsertRow, WriteRow
<1>2. pc[r] \in InTransaction /\ pc[r] \in InFlight /\ {"error", "conflict"} \subseteq Final
  BY <1>1 DEF InFlight, InTransaction, Final
<1>3. CASE Refuse(r, "error") \/ Refuse(r, "conflict")
  BY <1>2, <1>3, LeftKeepsInv
<1>4. ASSUME AfterRow(r), UNCHANGED <<projects, urls, target, body, seen, row, shared, dropped, attempt>>,
             \/ writes' = writes
             \/ writes' = [writes EXCEPT ![r] = {}] /\ target[r] # r
      PROVE  /\ Moves(r) /\ pc'[r] \in {"diff", "links", "commit"}
             /\ pc'[r] = "commit" => added'[r] = {}
             /\ \A q \in Requests \ {r} : pc[q] = "idle" => target'[r] # q
  BY <1>1, <1>2, <1>4, AfterRowMoves, TargetsAreBorn
<1>5. CASE /\ pc[r] = "write"
           /\ writes' = [writes EXCEPT ![r] = {}]
           /\ AfterRow(r)
           /\ UNCHANGED <<projects, urls, target, body, seen, row, shared, dropped, attempt>>
  <2>1. writes'[r] = {} /\ target[r] # r
    BY <1>1, <1>5 DEF LocalsTyped, LocalsFit
  <2> QED
    BY <1>4, <1>5, <2>1, UnlockedKeepsInv
<1>6. ASSUME AfterRow(r),
             UNCHANGED <<projects, urls, target, body, seen, row, shared, writes, dropped, attempt>>,
             "id" \in writes[r] \/ Stored(target[r]),
             "slug" \in writes[r] => Holders(row[r].slug) \subseteq {target[r]},
             \A q \in Requests \ {r} :
               /\ ~HasRow(q, target[r])
               /\ "slug" \in writes[r] => ~HasSlug(q, row[r].slug)
      PROVE  Inv'
  <2>1. /\ Moves(r) /\ pc'[r] \in {"diff", "links", "commit"}
        /\ pc'[r] = "commit" => added'[r] = {}
        /\ \A q \in Requests \ {r} : pc[q] = "idle" => target'[r] # q
    BY <1>4, <1>6
  <2>2. Wrote(r)' = writes[r]
    BY <1>6, <2>1 DEF Wrote
  <2>3. Held(r)'
    BY <1>6, <2>1, <2>2 DEF Held, Stored, Store!Stored, Holders, Store!Holders
  <2>4. \A q \in Requests \ {r} : Wrote(q)' = Wrote(q) /\ target'[q] = target[q] /\ row'[q] = row[q]
    BY <2>1 DEF Moves, OthersWait, Wrote
  <2>5. ASSUME NEW q \in Requests \ {r}
        PROVE  Apart(r, q)' /\ Apart(q, r)'
    BY <1>6, <2>2, <2>4 DEF Apart, HasRow, HasSlug
  <2> QED
    BY <1>6, <2>1, <2>3, <2>5, QuietKeepsInv
<1>7. CASE InsertRow(r) /\ ~Refuse(r, "error") /\ ~Refuse(r, "conflict")
  <2>1. "id" \in writes[r]
    BY <1>1, <1>7 DEF InsertRow, LocalsFit, All
  <2>2. /\ AfterRow(r)
        /\ UNCHANGED <<projects, urls, target, body, seen, row, shared, writes, dropped, attempt>>
        /\ Holders(row[r].slug) = {}
        /\ \A q \in Requests \ {r} : ~HasRow(q, target[r]) /\ ~HasSlug(q, row[r].slug)
    BY <1>7 DEF InsertRow, Waits, Awaits
  <2> QED
    BY <1>6, <2>1, <2>2
<1>8. CASE /\ WriteRow(r) /\ ~Refuse(r, "error") /\ ~Refuse(r, "conflict")
           /\ Stored(target[r])
  <2>1. /\ AfterRow(r)
        /\ UNCHANGED <<projects, urls, target, body, seen, row, shared, writes, dropped, attempt>>
        /\ "slug" \in writes[r] => Holders(row[r].slug) \subseteq {target[r]}
        /\ \A q \in Requests \ {r} :
             /\ ~HasRow(q, target[r])
             /\ "slug" \in writes[r] => ~HasSlug(q, row[r].slug)
    BY <1>8 DEF WriteRow, Waits, Awaits
  <2> QED
    BY <1>6, <1>8, <2>1
<1>9. CASE /\ WriteRow(r) /\ ~Refuse(r, "error") /\ ~Refuse(r, "conflict")
           /\ ~Stored(target[r])
  BY <1>5, <1>9 DEF WriteRow
<1>10. UNCHANGED <<projects, urls>>
  BY DEF InsertRow, WriteRow, Refuse
<1> QED
  BY <1>3, <1>7, <1>8, <1>9, <1>10

\* The diff of the urls, and their INSERT and DELETE.
LEMMA UrlsKeepInv ==
  ASSUME Inv, NEW r \in Requests, DiffUrls(r) \/ WriteUrls(r)
  PROVE  Inv' /\ UNCHANGED <<projects, urls>>
<1>1. LocalsTyped /\ TablesTyped /\ LocalsFit(r) /\ pc[r] \in {"diff", "links"}
      /\ Held(r) /\ \A q \in Requests \ {r} : Apart(r, q) /\ Apart(q, r)
  BY DEF Inv, DiffUrls, WriteUrls
<1>2. pc[r] \in InTransaction /\ pc[r] \in InFlight /\ "error" \in Final
  BY <1>1 DEF InFlight, InTransaction, Final
<1>3. CASE Refuse(r, "error")
  BY <1>2, <1>3, LeftKeepsInv
<1>4. ASSUME Moves(r), UNCHANGED <<projects, urls, target, row, writes>>,
             pc'[r] \in {"links", "commit"},
             pc'[r] = "commit" /\ added'[r] # {} => "id" \in writes[r] \/ Stored(target[r])
      PROVE  Inv'
  <2>1. Wrote(r)' = Wrote(r)
    BY <1>1, <1>4 DEF Wrote
  <2>2. Held(r)'
    BY <1>1, <1>4, <2>1 DEF Held, Stored, Store!Stored, Holders, Store!Holders
  <2>3. \A q \in Requests \ {r} : Wrote(q)' = Wrote(q)
    BY <1>4 DEF Moves, OthersWait, Wrote
  <2>4. \A q \in Requests \ {r} : Apart(r, q)' /\ Apart(q, r)'
    BY <1>1, <1>4, <2>1, <2>3 DEF Apart
  <2> QED
    BY <1>2, <1>4, <2>2, <2>4, QuietKeepsInv, TargetsAreBorn
<1>5. CASE DiffUrls(r)
  <2>1. Moves(r) /\ pc'[r] = "links" /\ writes' = writes
    BY <1>1, <1>5, DiffUrlsMoves
  <2> QED
    BY <1>4, <1>5, <2>1 DEF DiffUrls
<1>6. CASE WriteUrls(r) /\ ~Refuse(r, "error")
  <2>1. /\ pc[r] = "links" /\ Goto(r, "commit") /\ UNCHANGED <<projects, urls, locals>>
        /\ added[r] = {} \/ Stored(target[r]) \/ "id" \in writes[r]
    BY <1>6 DEF WriteUrls
  <2>2. Moves(r) /\ pc'[r] = "commit" /\ UNCHANGED <<target, row, writes, added>>
    BY <1>1, <2>1, OnlyGoes DEF Goto, LocalsTyped, locals, callback
  <2> QED
    BY <1>4, <2>1, <2>2
<1>7. UNCHANGED <<projects, urls>>
  BY DEF DiffUrls, WriteUrls, Refuse
<1> QED
  BY <1>3, <1>5, <1>6, <1>7

-----------------------------------------------------------------------------
\* The last answer takes no locks with it.
LEMMA NothingHeld ==
  ASSUME NEW r \in Requests, pc'[r] \in Final \cup {"reply"}
  PROVE  Held(r)' /\ \A q \in Requests : Apart(r, q)' /\ Apart(q, r)'
<1>1. pc'[r] \notin InTransaction
  BY Labels
<1>2. Wrote(r)' = {} /\ pc'[r] # "commit"
  BY <1>1 DEF Wrote, InTransaction
<1> QED
  BY <1>2 DEF Held, Apart

\* A commit is an update of the store, or finds nothing left to update.
LEMMA CommitStores ==
  ASSUME Inv, NEW r \in Requests, Commit(r)
  PROVE  \/ /\ Store!Update(target[r])
            /\ projects'[target[r]].slug # None
            /\ \A p \in Ids \ {target[r]} : projects'[p] = projects[p]
            /\ projects'[target[r]].slug = IF "slug" \in writes[r] THEN row[r].slug
                                           ELSE projects[target[r]].slug
         \/ UNCHANGED <<projects, urls>>
<1> DEFINE p == target[r]
           column(c) == IF c \in writes[r] THEN row[r][c] ELSE projects[p][c]
           e == [slug |-> column("slug"), published |-> column("published")]
           new == {[project |-> p, link |-> k, by |-> r] : k \in added[r]}
           kept == Store!UrlsOf(p) \ dropped[r]
<1>1. /\ pc[r] = "commit" /\ pc[r] \in InTransaction /\ p \in Ids /\ r \in Ids
      /\ LocalsTyped /\ TablesTyped /\ TablesFit /\ LocalsFit(r) /\ Held(r)
  BY DEF Commit, Inv, LocalsFit, InTransaction, InFlight, Ids
<1>2. /\ projects' = IF writes[r] = {} THEN projects ELSE [projects EXCEPT ![p] = e]
      /\ urls' = (urls \ dropped[r]) \cup new
  BY DEF Commit
<1>3. /\ row[r] \in Store!Row /\ row[r].slug \in Slugs
      /\ writes[r] \subseteq All /\ ("id" \in writes[r] => writes[r] = All)
      /\ added[r] \in SUBSET Links
      /\ \A u \in dropped[r] : u.project = p
      /\ projects[p] \in Store!Row /\ None \notin Slugs
  BY <1>1, NullRow DEF LocalsTyped, LocalsFit, TablesTyped, InTransaction
<1>4. /\ writes[r] # {} => "id" \in writes[r] \/ Stored(p)
      /\ "slug" \in writes[r] => Holders(row[r].slug) \subseteq {p}
      /\ added[r] # {} => "id" \in writes[r] \/ Stored(p)
  BY <1>1 DEF Held, Wrote
<1>5. urls' = (urls \ Store!UrlsOf(p)) \cup (kept \cup Store!NewUrls(p, added[r], r))
  BY <1>2, <1>3 DEF Store!UrlsOf, Store!NewUrls
<1>6. CASE writes[r] # {} \/ Stored(p)
  <2>1. "id" \in writes[r] \/ Stored(p)
    BY <1>4, <1>6
  <2>2. e \in Store!Row /\ e.slug # None
    <3>1. CASE "id" \in writes[r]
      <4>1. e = [slug |-> row[r].slug, published |-> row[r].published]
        BY <1>3, <3>1 DEF All, Columns
      <4> QED
        BY <1>3, <4>1 DEF Store!Row
    <3>2. CASE Stored(p)
      <4>1. column("slug") \in {row[r].slug, projects[p].slug}
        OBVIOUS
      <4>2. column("published") \in {row[r].published, projects[p].published}
        OBVIOUS
      <4>3. projects[p].slug \in Slugs /\ {row[r].published, projects[p].published} \subseteq BOOLEAN
        BY <1>3, <3>2 DEF Store!Row, Stored, Store!Stored
      <4> HIDE DEF column
      <4> QED
        BY <1>3, <4>1, <4>2, <4>3 DEF Store!Row
    <3> QED
      BY <2>1, <3>1, <3>2
  <2>3. Store!Holders(e.slug) \subseteq {p}
    <3>1. CASE "slug" \in writes[r]
      BY <1>4, <3>1 DEF Holders
    <3>2. CASE "slug" \notin writes[r]
      <4>1. Stored(p) /\ e.slug = projects[p].slug
        BY <1>3, <2>1, <3>2 DEF All, Columns
      <4> QED
        BY <1>1, <4>1 DEF TablesFit, Store!Holders
    <3> QED
      BY <3>1, <3>2
  <2>4. projects' = [projects EXCEPT ![p] = e]
    <3>1. CASE writes[r] # {}
      BY <1>2, <3>1
    <3>2. CASE writes[r] = {}
      <4>1. e = projects[p]
        BY <1>3, <3>2 DEF Store!Row
      <4> QED
        BY <1>1, <1>2, <3>2, <4>1 DEF TablesTyped
    <3> QED
      BY <3>1, <3>2
  <2>5. e.slug = IF "slug" \in writes[r] THEN row[r].slug ELSE projects[p].slug
    OBVIOUS
  <2> HIDE DEF e, kept
  <2>6. Store!PutRow(p)
    BY <2>2, <2>3, <2>4 DEF Store!PutRow
  <2>7. kept \in SUBSET Store!UrlsOf(p)
    BY DEF kept
  <2>8. Store!Update(p)
    BY <1>1, <1>3, <1>5, <2>6, <2>7 DEF Store!Update, Store!PutUrls
  <2>9. projects'[p] = e /\ \A q \in Ids \ {p} : projects'[q] = projects[q]
    BY <1>1, <2>4 DEF TablesTyped
  <2> QED
    BY <2>2, <2>5, <2>8, <2>9 DEF Stored, Store!Stored
<1>7. CASE ~(writes[r] # {} \/ Stored(p))
  <2>1. added[r] = {} /\ \A u \in urls : u \notin dropped[r]
    BY <1>1, <1>3, <1>4, <1>7 DEF TablesFit
  <2> QED
    BY <1>2, <1>7, <2>1
<1> QED
  BY <1>6, <1>7

LEMMA CommitKeepsInv ==
  ASSUME Inv, NEW r \in Requests, Commit(r)
  PROVE  /\ Inv'
         /\ UNCHANGED <<projects, urls>> \/ Store!Next
<1>1. /\ LocalsTyped /\ TablesTyped /\ TablesFit /\ LocalsFit(r)
      /\ pc[r] = "commit" /\ pc[r] \in InTransaction /\ pc[r] \in InFlight /\ target[r] \in Ids
  BY DEF Commit, Inv, LocalsFit, InTransaction, InFlight
<1>2. PICK answer \in Final \cup {"reply"} : Leave(r, answer)
  BY DEF Commit, Final
<1>3. Moves(r) /\ pc'[r] = answer /\ target' = target
  BY <1>1, <1>2, Left
<1>4. CASE UNCHANGED <<projects, urls>>
  <2>1. Refuse(r, answer)
    BY <1>2, <1>4 DEF Refuse
  <2> QED
    BY <1>1, <1>4, <2>1, LeftKeepsInv
<1>5. CASE /\ Store!Update(target[r])
           /\ projects'[target[r]].slug # None
           /\ \A p \in Ids \ {target[r]} : projects'[p] = projects[p]
           /\ projects'[target[r]].slug = IF "slug" \in writes[r] THEN row[r].slug
                                          ELSE projects[target[r]].slug
  <2>1. TablesTyped' /\ TablesFit'
    BY <1>1, <1>5, StoreKeeps
  <2>2. ASSUME NEW q \in Requests \ {r}
        PROVE  Held(q)'
    <3>1. Held(q) /\ Apart(r, q) /\ Wrote(r) = writes[r]
      BY <1>1 DEF Inv, Wrote
    <3>2. Wrote(q)' = Wrote(q) /\ pc'[q] = pc[q] /\ row'[q] = row[q] /\ target'[q] = target[q]
          /\ writes'[q] = writes[q] /\ added'[q] = added[q]
      BY <1>3 DEF Moves, OthersWait, Wrote
    <3>3. Stored(target[q]) /\ target[q] \in Ids => projects'[target[q]].slug # None
      BY <1>5 DEF Stored, Store!Stored
    <3>4. Wrote(q) # {} \/ pc[q] = "commit" => target[q] \in Ids
      BY DEF Inv, LocalsFit, Wrote, InFlight, InTransaction
    <3>5. ASSUME "slug" \in Wrote(q), NEW x \in Ids, projects'[x].slug = row[q].slug
          PROVE  x = target[q]
      <4>1. CASE x # target[r] \/ "slug" \notin writes[r]
        BY <1>5, <3>1, <3>5, <4>1 DEF Held, Holders, Store!Holders
      <4>2. CASE x = target[r] /\ "slug" \in writes[r]
        BY <1>5, <3>1, <3>5, <4>2 DEF Apart
      <4> QED
        BY <4>1, <4>2
    <3>6. "slug" \in Wrote(q) => Holders(row[q].slug)' \subseteq {target[q]}
      BY <3>2, <3>5 DEF Holders, Store!Holders
    <3> QED
      BY <3>1, <3>2, <3>3, <3>4, <3>6 DEF Held, Holders, Store!Holders, Stored, Store!Stored
  <2>3. \A q \in Requests \ {r} : pc[q] = "idle" => target[r] # q
    BY <1>1, <1>3, TargetsAreBorn
  <2>4. \A q \in Requests \ {r} : pc[q] = "idle" => ~Stored(q)'
    BY <1>5, <2>3 DEF Inv, Unborn, Stored, Store!Stored, Ids
  <2>5. Inv'
    BY <1>3, <2>1, <2>2, <2>3, <2>4, NothingHeld, MovesKeepInv
  <2> QED
    BY <1>1, <1>5, <2>5 DEF Store!Next
<1> QED
  BY <1>4, <1>5, CommitStores

\* The answers of a create and of a delete.
LEMMA EndKeepsInv ==
  ASSUME Inv, NEW r \in Requests, Reply(r) \/ Delete(r)
  PROVE  /\ Inv'
         /\ UNCHANGED <<projects, urls>> \/ Store!Next
<1>1. /\ LocalsTyped /\ TablesTyped /\ TablesFit /\ LocalsFit(r)
      /\ pc[r] \in {"reply", "delete"} /\ target[r] \in Ids
      /\ UNCHANGED locals
  BY DEF Reply, Delete, Inv, LocalsFit, InFlight
<1>2. PICK answer \in Final : Goto(r, answer)
  BY DEF Reply, Delete, Final
<1>3. Moves(r)
  BY <1>1, <1>2, OnlyGoes
<1>4. pc'[r] = answer /\ target' = target
  BY <1>1, <1>2 DEF Goto, LocalsTyped, locals
<1>5. answer \notin InTransaction
  BY Labels
<1>6. CASE UNCHANGED <<projects, urls>>
  <2>1. pc'[r] \notin {"diff", "links", "commit"} /\ pc'[r] \notin InTransaction
    BY <1>4, <1>5 DEF InTransaction
  <2> QED
    BY <1>3, <1>6, <2>1, UnlockedKeepsInv
<1>7. CASE /\ Stored(target[r])
           /\ \A q \in Requests \ {r} : ~HasRow(q, target[r]) /\ ~HasUrls(q, target[r])
           /\ projects' = [projects EXCEPT ![target[r]] = Store!NoRow]
           /\ urls' = urls \ UrlsOf(target[r])
  <2>1. Store!Remove(target[r])
    BY <1>7 DEF Store!Remove, Stored, UrlsOf
  <2>2. TablesTyped' /\ TablesFit'
    BY <1>1, <2>1, StoreKeeps
  <2>3. /\ \A x \in Ids \ {target[r]} : projects'[x] = projects[x]
        /\ projects'[target[r]].slug = None
    BY <1>1, <1>7 DEF TablesTyped, Store!NoRow
  <2>4. ASSUME NEW q \in Requests \ {r}
        PROVE  Held(q)'
    <3>1. Held(q) /\ LocalsFit(q) /\ LocalsTyped
      BY DEF Inv
    <3>2. UNCHANGED <<row, target, writes, added>> /\ Wrote(q)' = Wrote(q) /\ pc'[q] = pc[q]
      BY <1>1, <1>3 DEF locals, callback, Moves, OthersWait, Wrote
    <3>3. Wrote(q) # {} => target[q] \in Ids \ {target[r]} /\ row[q].slug \in Slugs
      BY <1>7, <3>1 DEF HasRow, LocalsFit, Wrote, InFlight, InTransaction
    <3>4. pc[q] = "commit" /\ added[q] # {} => target[q] \in Ids \ {target[r]}
      BY <1>7, <3>1 DEF HasUrls, LocalsFit, InFlight, InTransaction
    <3>5. "slug" \in Wrote(q) => Holders(row[q].slug)' \subseteq {target[q]}
      BY <2>3, <3>1, <3>2, <3>3, NullRow DEF Held, Holders, Store!Holders
    <3> QED
      BY <2>3, <3>1, <3>2, <3>3, <3>4, <3>5 DEF Held, Holders, Store!Holders, Stored, Store!Stored
  <2>5. \A q \in Requests \ {r} : pc[q] = "idle" => ~Stored(q)'
    BY <2>3 DEF Inv, Unborn, Stored, Store!Stored, Ids
  <2>6. Inv'
    BY <1>3, <1>4, <1>5, <2>2, <2>4, <2>5, NothingHeld, MovesKeepInv
  <2> QED
    BY <1>1, <2>1, <2>6 DEF Store!Next
<1> QED
  BY <1>6, <1>7 DEF Reply, Delete, Waits, Awaits

-----------------------------------------------------------------------------
LEMMA InitInv == Init => Inv
<1> SUFFICES ASSUME Init PROVE Inv
  OBVIOUS
<1>1. LocalsTyped
  BY NullRow, SomeAttempts DEF Init, LocalsTyped
<1>2. PICK slugOf \in [Existing -> Slugs] :
        /\ \A p, q \in Existing : slugOf[p] = slugOf[q] => p = q
        /\ projects = [p \in Ids |-> IF p \in Existing
                                     THEN [slug |-> slugOf[p], published |-> FALSE]
                                     ELSE Store!NoRow]
  BY DEF Init
<1> PICK links \in SUBSET Links :
      urls = {u \in Store!UrlRow : u.project \in Existing /\ u.link \in links /\ u.by = u.project}
  BY DEF Init
<1>3. Existing \subseteq Ids
  BY DEF Ids
<1>4. \A p \in Ids : /\ p \in Existing => projects[p].slug = slugOf[p] /\ Stored(p)
                     /\ p \notin Existing => ~Stored(p)
  BY <1>2, NullRow DEF Store!NoRow, Stored, Store!Stored
<1>5. TablesTyped
  <2>1. \A p \in Existing : [slug |-> slugOf[p], published |-> FALSE] \in Store!Row
    BY DEF Store!Row
  <2>2. projects \in [Ids -> Store!Row]
    BY <1>2, <2>1, NullRow
  <2>3. urls \subseteq Store!UrlRow
    BY <1>2, <1>3 DEF Store!UrlRow
  <2> QED
    BY <2>2, <2>3 DEF TablesTyped
<1>6. TablesFit
  <2>1. \A p, q \in Ids : Stored(p) /\ projects[p].slug = projects[q].slug => p = q
    <3> TAKE p, q \in Ids
    <3> HAVE Stored(p) /\ projects[p].slug = projects[q].slug
    <3>1. p \in Existing /\ Stored(q) /\ q \in Existing
      BY <1>4 DEF Stored, Store!Stored
    <3> QED
      BY <1>2, <1>4, <3>1
  <2>2. \A u \in urls : u.project \in Existing
    BY <1>2
  <2> QED
    BY <1>3, <1>4, <2>1, <2>2 DEF TablesFit
<1>7. ASSUME NEW r \in Requests
      PROVE  LocalsFit(r) /\ Held(r) /\ Unborn(r) /\ \A q \in Requests : Apart(r, q)
  <2>1. pc[r] = "idle" /\ writes[r] = {} /\ added[r] = {} /\ dropped[r] = {}
    BY DEF Init
  <2>2. \A q \in Requests : pc[q] = "idle"
    BY DEF Init
  <2>3. ~Stored(r)
    BY <1>4, NewIdsAreFresh DEF Ids
  <2>4. LocalsFit(r)
    BY <2>1 DEF LocalsFit, InFlight, InTransaction
  <2>5. Wrote(r) = {} /\ Held(r)
    BY <2>1 DEF Wrote, Held
  <2>6. Unborn(r)
    BY <2>2, <2>3, Labels DEF Unborn
  <2> QED
    BY <2>4, <2>5, <2>6 DEF Apart
<1> QED
  BY <1>1, <1>5, <1>6, <1>7 DEF Inv

\* Every step keeps the invariant, and is one of the store's or none of it.
LEMMA StepKeepsInv ==
  ASSUME Inv, [Next]_vars
  PROVE  /\ Inv'
         /\ UNCHANGED <<projects, urls>> \/ Store!Next
<1>1. CASE UNCHANGED vars
  <2>1. /\ UNCHANGED <<projects, urls, pc, target, body, seen, row, shared>>
        /\ UNCHANGED <<writes, added, dropped, attempt>>
    BY <1>1 DEF vars, locals, callback
  <2>2. LocalsTyped' /\ TablesTyped' /\ TablesFit'
    BY <2>1 DEF Inv, LocalsTyped, TablesTyped, TablesFit, Stored, Store!Stored
  <2>3. \A r \in Requests : LocalsFit(r)' /\ Held(r)' /\ Unborn(r)'
    BY <2>1 DEF Inv, LocalsFit, Held, Unborn, Wrote, Stored, Store!Stored, Holders, Store!Holders
  <2>4. \A r, q \in Requests : r # q => Apart(r, q)'
    BY <2>1 DEF Inv, Apart, Wrote
  <2> QED
    BY <2>1, <2>2, <2>3, <2>4 DEF Inv
<1>2. CASE \E r \in Requests : Arrive(r) \/ Progress(r) \/ Abort(r) \/ Fail(r)
  <2>1. PICK r \in Requests : Arrive(r) \/ Progress(r) \/ Abort(r) \/ Fail(r)
    BY <1>2
  <2>2. CASE Arrive(r)
    BY <2>2, ArriveKeepsInv
  <2>3. CASE Progress(r)
    BY <2>3, ReadsKeepInv, RowKeepsInv, UrlsKeepInv, CommitKeepsInv, EndKeepsInv DEF Progress
  <2>4. CASE Abort(r)
    BY <2>4, ReadsKeepInv
  <2>5. CASE Fail(r)
    BY <2>5, LeftKeepsInv DEF Fail, Final
  <2> QED
    BY <2>1, <2>2, <2>3, <2>4, <2>5
<1> QED
  BY <1>1, <1>2 DEF Next, Finished

\* In every state the variables have their types: among others, what a
\* transaction has planned to write is about its own project, whether it runs
\* for the first time or withRetry has started it again.
THEOREM TypeCorrect == Spec => []TypeOK
<1>1. Inv => TypeOK
  BY DEF Inv, LocalsTyped, TablesTyped, TypeOK, All
<1> QED
  BY <1>1, InitInv, StepKeepsInv, PTL DEF Spec

\* The handlers of projects.service.ts, interleaved at every await, aborted and
\* retried, implement the atomic operations of ProjectStore: slugs stay unique,
\* and a project is written with its urls, those of no other project.
THEOREM StoreImplemented == Spec => ImplementsProjectStore
<1>1. Inv => Store!Init
  BY NullRow DEF Inv, TablesTyped, TablesFit, Store!Init, Stored, Store!Holders, Store!Stored
<1>2. Inv /\ [Next]_vars => [Store!Next]_<<projects, urls>>
  BY StepKeepsInv
<1> QED
  BY <1>1, <1>2, InitInv, StepKeepsInv, PTL DEF Spec, ImplementsProjectStore, Store!Spec

-----------------------------------------------------------------------------
\* The steps that answer 409, and whose slug they have found.
LEMMA ConflictHasHolder ==
  ASSUME Inv, NEW r \in Requests, Arrive(r) \/ Progress(r) \/ Abort(r) \/ Fail(r),
         pc'[r] = "conflict"
  PROVE  \E p \in Ids \ {target'[r]} :
           Stored(p) /\ projects[p].slug \in {body[r].slug, body'[r].slug, row[r].slug}
<1>1. /\ LocalsTyped /\ TablesTyped /\ LocalsFit(r) /\ Unborn(r)
      /\ None \notin Slugs /\ Requests \subseteq Ids
  BY NullRow DEF Inv, Ids
<1>2. ASSUME NEW s \in Slugs, s \in {body[r].slug, body'[r].slug, row[r].slug},
             Holders(s) \ {target'[r]} # {}
      PROVE  \E p \in Ids \ {target'[r]} :
               Stored(p) /\ projects[p].slug \in {body[r].slug, body'[r].slug, row[r].slug}
  BY <1>1, <1>2 DEF Holders, Store!Holders, Stored, Store!Stored
<1>3. ASSUME Refuse(r, "conflict")
      PROVE  target' = target
  BY <1>3 DEF Refuse, Leave
<1>4. ASSUME NEW label \in (InFlight \cup Final) \ {"conflict"}, Goto(r, label)
      PROVE  FALSE
  BY <1>1, <1>4 DEF Goto, LocalsTyped
<1>5. CASE \E s \in Slugs, links \in SUBSET Links : Create(r, s, links)
  <2>1. PICK s \in Slugs, links \in SUBSET Links : Create(r, s, links)
    BY <1>5
  <2>2. pc[r] = "idle" /\ (Goto(r, "insert") \/ Holders(s) # {})
    BY <2>1 DEF Create, CanStart
  <2>3. Holders(s) # {}
    BY <1>4, <2>2 DEF InFlight, InTransaction
  <2>4. body'[r].slug = s /\ target'[r] = r
    BY <1>1, <2>1 DEF Create, LocalsTyped
  <2>5. Holders(s) \ {target'[r]} # {}
    BY <1>1, <2>2, <2>3, <2>4 DEF Unborn, Stored, Store!Stored, Holders, Store!Holders
  <2> QED
    BY <1>2, <2>4, <2>5
<1>6. CASE InsertRow(r)
  <2>1. pc[r] = "insert" /\ row[r].slug \in Slugs
    BY <1>1, <1>6 DEF InsertRow, LocalsFit, InTransaction
  <2>2. CASE Refuse(r, "conflict") /\ ~Stored(target[r]) /\ Holders(row[r].slug) # {}
    <3>1. Holders(row[r].slug) \ {target'[r]} # {}
      BY <1>1, <1>3, <2>1, <2>2 DEF Stored, Store!Stored, Holders, Store!Holders
    <3> QED
      BY <1>2, <2>1, <3>1
  <2>3. CASE Refuse(r, "error") \/ AfterRow(r)
    BY <1>4, <2>3 DEF Refuse, Leave, AfterRow, InFlight, InTransaction, Final
  <2> QED
    BY <1>6, <2>2, <2>3 DEF InsertRow
<1>7. CASE CheckSlug(r)
  <2>1. pc[r] = "check" /\ body[r].slug \in Slugs
    BY <1>1, <1>7 DEF CheckSlug, LocalsFit
  <2>2. CASE Refuse(r, "conflict") /\ Holders(body[r].slug) \ {target[r]} # {}
    BY <1>2, <1>3, <2>1, <2>2
  <2>3. CASE Edit(r, row[r], shared[r], body[r].slug)
    BY <1>4, <2>3 DEF Edit, InFlight, InTransaction
  <2> QED
    BY <1>7, <2>2, <2>3 DEF CheckSlug
<1>8. CASE WriteRow(r)
  <2>1. pc[r] = "write" /\ row[r].slug \in Slugs
    BY <1>1, <1>8 DEF WriteRow, LocalsFit, InTransaction
  <2>2. CASE Refuse(r, "conflict") /\ Holders(row[r].slug) \ {target[r]} # {}
    BY <1>2, <1>3, <2>1, <2>2
  <2>3. CASE AfterRow(r)
    BY <1>4, <2>3 DEF AfterRow, InFlight, InTransaction
  <2> QED
    BY <1>8, <2>2, <2>3 DEF WriteRow
<1>9. CASE \/ \E p \in Ids, patch \in Patches : Update(r, p, patch)
           \/ \E p \in Ids : Remove(r, p)
  BY <1>4, <1>9 DEF Update, Remove, InFlight, InTransaction, Final
<1>10. CASE Fetch(r)
  BY <1>4, <1>10 DEF Fetch, Edit, InFlight, InTransaction
<1>11. CASE PlanSave(r)
  BY <1>4, <1>11 DEF PlanSave, AfterRow, InFlight, InTransaction
<1>12. CASE DiffUrls(r) \/ WriteUrls(r)
  BY <1>4, <1>12 DEF DiffUrls, WriteUrls, Refuse, Leave, InFlight, InTransaction, Final
<1>13. CASE Commit(r)
  BY <1>4, <1>13 DEF Commit, Leave, InFlight, Final
<1>14. CASE Reply(r) \/ Delete(r)
  BY <1>4, <1>14 DEF Reply, Delete, Final
<1>15. CASE Abort(r) \/ Fail(r)
  BY <1>4, <1>15 DEF Abort, Fail, Refuse, Leave, InFlight, InTransaction, Final
<1> QED
  BY <1>5, <1>6, <1>7, <1>8, <1>9, <1>10, <1>11, <1>12, <1>13, <1>14, <1>15 DEF Arrive, Progress

\* The step of one request answers no other.
LEMMA StepAnswersOne ==
  ASSUME Inv, NEW r \in Requests, Arrive(r) \/ Progress(r) \/ Abort(r) \/ Fail(r),
         NEW q \in Requests \ {r}
  PROVE  pc'[q] = pc[q]
<1>1. pc \in [Requests -> {"idle"} \cup InFlight \cup Final]
  BY DEF Inv, LocalsTyped
<1>2. (\E label : Goto(r, label)) => pc'[q] = pc[q]
  BY <1>1 DEF Goto
<1>3. CASE Arrive(r)
  BY <1>2, <1>3 DEF Arrive, Create, Update, Remove
<1>4. CASE Progress(r)
  BY <1>2, <1>4 DEF Progress, Fetch, CheckSlug, PlanSave, WriteRow, InsertRow, DiffUrls,
       WriteUrls, Commit, Reply, Delete, AfterRow, Edit, Refuse, Leave
<1>5. CASE Abort(r) \/ Fail(r)
  BY <1>2, <1>5 DEF Abort, Fail, Refuse, Leave
<1> QED
  BY <1>3, <1>4, <1>5

\* Whatever overlaps, a 409 of create or update names a slug that another
\* project has at that moment: never the request's own project, and never the
\* unique violation of some other constraint.
THEOREM ConflictsCorrect == Spec => ConflictsAreReal
<1> DEFINE A == \A r \in Requests :
                  pc[r] # "conflict" /\ pc'[r] = "conflict" =>
                    \E p \in Ids \ {target'[r]} :
                      Stored(p) /\ projects[p].slug \in {body[r].slug, body'[r].slug, row[r].slug}
<1>1. ASSUME Inv, [Next]_vars
      PROVE  [A]_vars
  <2>1. CASE UNCHANGED vars
    BY <2>1
  <2>2. CASE \E q \in Requests : Arrive(q) \/ Progress(q) \/ Abort(q) \/ Fail(q)
    <3>1. PICK q \in Requests : Arrive(q) \/ Progress(q) \/ Abort(q) \/ Fail(q)
      BY <2>2
    <3> SUFFICES ASSUME NEW r \in Requests, pc[r] # "conflict", pc'[r] = "conflict"
                 PROVE  \E p \in Ids \ {target'[r]} :
                          Stored(p) /\ projects[p].slug \in {body[r].slug, body'[r].slug, row[r].slug}
      OBVIOUS
    <3>2. r = q
      BY <1>1, <3>1, StepAnswersOne
    <3> QED
      BY <1>1, <3>1, <3>2, ConflictHasHolder
  <2> QED
    BY <1>1, <2>1, <2>2 DEF Next, Finished
<1> QED
  BY <1>1, InitInv, StepKeepsInv, PTL DEF Spec, ConflictsAreReal
-----------------------------------------------------------------------------
\* No circle of locks: among any requests, one waits for no other of them.
\* For all that are open it is what SomeoneCanGoOn needs of the locks.
NoCircleOfLocks ==
  \A S \in (SUBSET Requests) \ {{}} :
    \E r \in S : \A q \in S \ {r} : ~Awaits(r, q)

\* A waiting request is at one of four statements, and what it waits for has
\* locked something.  Urls only wait for a commit, or for a slug that is being
\* written, which is another's by Apart.
LEMMA WhoWaits ==
  ASSUME Inv, NEW r \in Requests, NEW q \in Requests \ {r}, Awaits(r, q)
  PROVE  /\ pc[r] \in {"insert", "write", "links", "delete"}
         /\ pc[q] \in {"diff", "links", "commit"}
         /\ pc[r] = "links" => pc[q] = "commit" \/ "slug" \in writes[q]
         /\ pc[r] = "links" /\ "slug" \in writes[r] => pc[q] = "commit"
<1>1. /\ pc[r] \in {"insert", "write", "links", "delete"}
      /\ pc[q] \in {"diff", "links", "commit"}
      /\ pc[r] = "links" => pc[q] = "commit" \/ (target[q] = target[r] /\ "slug" \in writes[q])
  BY DEF Awaits, HasSlug, HasRow, HasSlugOf, HasReference, HasUrls, Wrote
<1>2. ASSUME pc[r] = "links", "slug" \in writes[r], pc[q] # "commit"
      PROVE  FALSE
  BY <1>1, <1>2 DEF Inv, Apart, Wrote
<1> QED
  BY <1>1, <1>2

\* The locks of create, update and remove make no circle, however many
\* requests overlap: a deadlock, which PostgreSQL would resolve by aborting one
\* of them, needs requests that each wait for another one of their number.
THEOREM LocksMakeNoCircle == Spec => []NoCircleOfLocks
<1>1. ASSUME Inv
      PROVE  NoCircleOfLocks
  <2>1. SUFFICES ASSUME NEW S \in (SUBSET Requests) \ {{}},
                        \A r \in S : \E q \in S \ {r} : Awaits(r, q)
                 PROVE  FALSE
    BY DEF NoCircleOfLocks
  <2>2. S \subseteq Requests /\ S # {}
    OBVIOUS
  <2>3. \A r \in S : pc[r] \notin {"diff", "commit"}
    BY <1>1, <2>1, <2>2, WhoWaits
  <2>4. \A r \in S : pc[r] = "links" => "slug" \notin writes[r]
    BY <1>1, <2>1, <2>2, <2>3, WhoWaits
  <2>5. \A r \in S : pc[r] # "links"
    BY <1>1, <2>1, <2>2, <2>3, <2>4, WhoWaits
  <2> QED
    BY <1>1, <2>1, <2>2, <2>3, <2>5, WhoWaits
<1> QED
  BY <1>1, InitInv, StepKeepsInv, PTL DEF Spec

\* What SomeoneCanGoOn asks, said of the waits instead of ENABLED: a statement
\* that does not wait has an outcome in every state.
SomeoneIsFree ==
  (\E r \in Requests : pc[r] \in InFlight) =>
    \E r \in Requests : pc[r] \in InFlight /\ ~Waits(r)

\* Of any requests that are open one waits for none: create, update and remove
\* never all stand still, without the help of an abort or a timeout.
THEOREM OpenRequestsGoOn == Spec => []SomeoneIsFree
<1>1. ASSUME Inv, NoCircleOfLocks, NEW x \in Requests, pc[x] \in InFlight
      PROVE  \E r \in Requests : pc[r] \in InFlight /\ ~Waits(r)
  <2> DEFINE S == {r \in Requests : pc[r] \in InFlight}
  <2>1. PICK r \in S : \A q \in S \ {r} : ~Awaits(r, q)
    BY <1>1 DEF NoCircleOfLocks
  <2>2. \A q \in Requests \ {r} : Awaits(r, q) => q \in S
    BY <1>1, WhoWaits DEF InFlight, InTransaction
  <2> QED
    BY <2>1, <2>2 DEF Waits
<1>2. Inv /\ NoCircleOfLocks => SomeoneIsFree
  BY <1>1 DEF SomeoneIsFree
<1> QED
  BY <1>2, InitInv, StepKeepsInv, LocksMakeNoCircle, PTL DEF Spec

-----------------------------------------------------------------------------
(***************************************************************************)
(* The work of a request is bounded, as that of the refresh tokens is: its *)
(* steps take it forward, the attempts of withRetry included, and the      *)
(* steps of others leave it alone.                                         *)
(***************************************************************************)
\* The statements from each label to the answer, with the reply of a create.
Statements == [fetch |-> 8, check |-> 7, plan |-> 6, write |-> 5, insert |-> 5,
               diff |-> 4, links |-> 3, commit |-> 2, reply |-> 1, delete |-> 1]

\* Statements left, with the seven of each attempt that may follow this one.
Work(r) ==
  IF pc[r] \in InTransaction THEN Statements[pc[r]] + 7 * (MaxAttempts - attempt[r])
  ELSE IF pc[r] \in InFlight THEN Statements[pc[r]]
  ELSE 0

Rests(r) == pc'[r] = pc[r] /\ attempt'[r] = attempt[r] /\ target'[r] = target[r]

\* A transaction has begun its first attempt.
AttemptsCount == \A r \in Requests : pc[r] \in InTransaction => attempt[r] >= 1

WorkFits == \A r \in Requests : Work(r) \in 0 .. 7 * MaxAttempts + 1
WorkOnlyShrinks ==
  [][\A r \in Requests : pc[r] # "idle" => Work(r)' < Work(r) \/ Rests(r)]_vars

LEMMA StatementsAre ==
  /\ Statements["fetch"] = 8 /\ Statements["check"] = 7 /\ Statements["plan"] = 6
  /\ Statements["write"] = 5 /\ Statements["insert"] = 5 /\ Statements["diff"] = 4
  /\ Statements["links"] = 3 /\ Statements["commit"] = 2
  /\ Statements["reply"] = 1 /\ Statements["delete"] = 1
BY DEF Statements

\* The work that each label stands for, before a step and after it.
LEMMA WorkIs ==
  ASSUME NEW r \in Requests
  PROVE  /\ pc[r] \in InTransaction =>
              Work(r) = Statements[pc[r]] + 7 * (MaxAttempts - attempt[r])
         /\ pc[r] \in {"reply", "delete"} => Work(r) = 1
         /\ pc[r] \in Final \cup {"idle"} => Work(r) = 0
BY StatementsAre, Labels DEF Work, InFlight, Final, InTransaction

LEMMA NextWorkIs ==
  ASSUME NEW r \in Requests
  PROVE  /\ pc'[r] \in InTransaction =>
              Work(r)' = Statements[pc'[r]] + 7 * (MaxAttempts - attempt'[r])
         /\ pc'[r] = "reply" => Work(r)' = 1
         /\ pc'[r] \in Final => Work(r)' = 0
BY StatementsAre, Labels DEF Work, InFlight, Final, InTransaction, Statements

\* Where a step takes its request: on within the attempt, to the next one, or
\* out of the transaction.
GoesOn(r) ==
  \/ /\ pc[r] \in InTransaction /\ pc'[r] \in InTransaction /\ attempt'[r] = attempt[r]
     /\ Statements[pc'[r]] < Statements[pc[r]]
  \/ /\ pc[r] \in InTransaction /\ pc'[r] \in {"fetch", "insert"}
     /\ attempt[r] < MaxAttempts /\ attempt'[r] = attempt[r] + 1
  \/ pc[r] = "commit" /\ pc'[r] = "reply"
  \/ pc[r] \in InFlight /\ pc'[r] \in Final

LEMMA Counts ==
  ASSUME Inv, NEW r \in Requests
  PROVE  /\ MaxAttempts \in Nat /\ MaxAttempts >= 1
         /\ attempt[r] \in 0 .. MaxAttempts
         /\ pc[r] \in {"idle"} \cup InFlight \cup Final
         /\ \A label \in InTransaction : Statements[label] \in 2 .. 8
BY SomeAttempts, StatementsAre DEF Inv, LocalsTyped, InTransaction

LEMMA GoingOnIsWork ==
  ASSUME Inv, Inv', NEW r \in Requests, GoesOn(r)
  PROVE  Work(r)' < Work(r)
<1>1. attempt'[r] \in 0 .. MaxAttempts
  BY Counts DEF Inv, LocalsTyped
<1>2. CASE pc[r] \in InTransaction /\ pc'[r] \in InTransaction
  <2>1. \/ attempt'[r] = attempt[r] /\ Statements[pc'[r]] < Statements[pc[r]]
        \/ attempt'[r] = attempt[r] + 1
    BY <1>2, Labels DEF GoesOn
  <2>2. /\ Work(r) = Statements[pc[r]] + 7 * (MaxAttempts - attempt[r])
        /\ Work(r)' = Statements[pc'[r]] + 7 * (MaxAttempts - attempt'[r])
        /\ Statements[pc[r]] \in 2 .. 8 /\ Statements[pc'[r]] \in 2 .. 8
    BY <1>2, WorkIs, NextWorkIs, Counts
  <2> QED
    BY <1>1, <2>1, <2>2, Counts
<1>3. CASE pc[r] \in InTransaction /\ pc'[r] \in Final \cup {"reply"}
  <2>1. /\ Work(r) = Statements[pc[r]] + 7 * (MaxAttempts - attempt[r])
        /\ Statements[pc[r]] \in 2 .. 8
        /\ Work(r)' \in {0, 1}
    BY <1>3, WorkIs, NextWorkIs, Counts
  <2> QED
    BY <2>1, Counts
<1>4. CASE pc[r] \in {"reply", "delete"} /\ pc'[r] \in Final
  BY <1>4, WorkIs, NextWorkIs
<1> QED
  BY <1>2, <1>3, <1>4 DEF GoesOn, InFlight, InTransaction

\* A step by one statement, with the attempts as they are.
LEMMA ByStatement ==
  ASSUME Inv, NEW r \in Requests, NEW label, Goto(r, label), attempt'[r] = attempt[r],
         pc[r] \in InTransaction, label \in InTransaction, Statements[label] < Statements[pc[r]]
  PROVE  GoesOn(r)
BY DEF Inv, LocalsTyped, Goto, GoesOn

LEMMA ByAnswer ==
  ASSUME Inv, NEW r \in Requests, pc[r] \in InFlight, NEW answer \in Final, Goto(r, answer)
  PROVE  GoesOn(r)
BY DEF Inv, LocalsTyped, Goto, GoesOn

LEMMA ProgressGoesOn ==
  ASSUME Inv, NEW r \in Requests, Progress(r)
  PROVE  GoesOn(r)
<1>1. pc[r] \in InFlight
  BY DEF Progress, Fetch, CheckSlug, PlanSave, WriteRow, InsertRow, DiffUrls, WriteUrls, Commit,
         Reply, Delete, InFlight, InTransaction
<1>2. ASSUME NEW answer \in Final, Refuse(r, answer) \/ Leave(r, answer) PROVE GoesOn(r)
  BY <1>1, <1>2, ByAnswer DEF Refuse, Leave
<1>3. ASSUME pc[r] \in {"plan", "write", "insert"}, AfterRow(r), attempt' = attempt
      PROVE  GoesOn(r)
  <2>1. \E label \in {"links", "commit", "diff"} : Goto(r, label)
    BY <1>3 DEF AfterRow
  <2> QED
    BY <1>3, <2>1, ByStatement, StatementsAre DEF InTransaction
<1>4. CASE Fetch(r)
  <2>1. pc[r] = "fetch" /\ attempt' = attempt /\ \E label \in {"check", "plan"} : Goto(r, label)
    BY <1>4 DEF Fetch, Edit
  <2> QED
    BY <2>1, ByStatement, StatementsAre DEF InTransaction
<1>5. CASE CheckSlug(r)
  <2>1. pc[r] = "check" /\ (Refuse(r, "conflict") \/ (attempt' = attempt /\ Goto(r, "plan")))
    BY <1>5 DEF CheckSlug, Edit
  <2> QED
    BY <1>2, <2>1, ByStatement, StatementsAre DEF InTransaction, Final
<1>6. CASE PlanSave(r)
  <2>1. /\ pc[r] = "plan" /\ attempt' = attempt
        /\ AfterRow(r) \/ \E label \in {"insert", "write"} : Goto(r, label)
    BY <1>6 DEF PlanSave
  <2> QED
    BY <1>3, <2>1, ByStatement, StatementsAre DEF InTransaction
<1>7. CASE WriteRow(r) \/ InsertRow(r)
  <2>1. /\ pc[r] \in {"write", "insert"}
        /\ \/ \E answer \in {"conflict", "error"} : Refuse(r, answer)
           \/ AfterRow(r) /\ attempt' = attempt
    BY <1>7 DEF WriteRow, InsertRow
  <2> QED
    BY <1>2, <1>3, <2>1 DEF Final
<1>8. CASE DiffUrls(r) \/ WriteUrls(r)
  <2>1. \/ Refuse(r, "error")
        \/ pc[r] = "diff" /\ attempt' = attempt /\ Goto(r, "links")
        \/ pc[r] = "links" /\ attempt' = attempt /\ Goto(r, "commit")
    BY <1>8 DEF DiffUrls, WriteUrls, locals
  <2> QED
    BY <1>2, <2>1, ByStatement, StatementsAre DEF InTransaction, Final
<1>9. CASE Commit(r)
  <2>1. pc[r] = "commit" /\ \E answer \in {"reply", "updated", "error"} : Leave(r, answer)
    BY <1>9 DEF Commit
  <2>2. Leave(r, "reply") => pc'[r] = "reply"
    BY DEF Leave, Goto, Inv, LocalsTyped
  <2> QED
    BY <1>2, <2>1, <2>2 DEF GoesOn, Final
<1>10. CASE Reply(r) \/ Delete(r)
  <2>1. \E answer \in Final : Goto(r, answer)
    BY <1>10 DEF Reply, Delete, Final
  <2> QED
    BY <1>1, <2>1, ByAnswer
<1> QED
  BY <1>4, <1>5, <1>6, <1>7, <1>8, <1>9, <1>10 DEF Progress

LEMMA AbortGoesOn ==
  ASSUME Inv, NEW r \in Requests, Abort(r) \/ Fail(r)
  PROVE  GoesOn(r)
<1>1. pc[r] \in InFlight
  BY Labels DEF Abort, Fail
<1>2. CASE Refuse(r, "error")
  BY <1>1, <1>2, ByAnswer DEF Refuse, Leave, Final
<1>3. CASE /\ pc[r] \in InTransaction /\ attempt[r] < MaxAttempts
           /\ attempt' = [attempt EXCEPT ![r] = @ + 1]
           /\ \E label \in {"fetch", "insert"} : Goto(r, label)
  BY <1>3 DEF Goto, GoesOn, Inv, LocalsTyped
<1> QED
  BY <1>2, <1>3 DEF Abort, Fail

\* The step of a request leaves the others at rest.
LEMMA OthersRest ==
  ASSUME Inv, NEW r \in Requests, Arrive(r) \/ Progress(r) \/ Abort(r) \/ Fail(r),
         NEW q \in Requests \ {r}
  PROVE  Rests(q)
<1> DEFINE Counted == attempt' = attempt \/ \E n : attempt' = [attempt EXCEPT ![r] = n]
           Aimed == target' = target \/ \E p : target' = [target EXCEPT ![r] = p]
<1>1. pc'[q] = pc[q]
  BY StepAnswersOne
<1>2. Counted /\ Aimed => Rests(q)
  BY <1>1 DEF Rests, Inv, LocalsTyped
<1> HIDE DEF Counted, Aimed
<1>3. CASE Arrive(r)
  BY <1>2, <1>3 DEF Arrive, Create, Update, Remove, Counted, Aimed
<1>4. CASE Progress(r)
  <2>1. (\E answer : Leave(r, answer)) => Counted /\ Aimed
    BY DEF Leave, Counted, Aimed
  <2>2. attempt' = attempt /\ target' = target => Counted /\ Aimed
    BY DEF Counted, Aimed
  <2> QED
    BY <1>2, <1>4, <2>1, <2>2
       DEF Progress, Fetch, CheckSlug, PlanSave, WriteRow, InsertRow, DiffUrls, WriteUrls, Commit,
           Reply, Delete, Refuse, locals
<1>5. CASE Abort(r) \/ Fail(r)
  BY <1>2, <1>5 DEF Abort, Fail, Refuse, Leave, Counted, Aimed
<1> QED
  BY <1>3, <1>4, <1>5

\* The first attempt is counted from 1.
LEMMA StepCounts ==
  ASSUME Inv, AttemptsCount, [Next]_vars
  PROVE  AttemptsCount'
<1>1. CASE UNCHANGED vars
  BY <1>1 DEF vars, locals, AttemptsCount
<1>2. ASSUME NEW r \in Requests, Arrive(r) \/ Progress(r) \/ Abort(r) \/ Fail(r)
      PROVE  AttemptsCount'
  <2>1. \A q \in Requests \ {r} : pc'[q] \in InTransaction => attempt'[q] >= 1
    BY <1>2, OthersRest DEF Rests, AttemptsCount
  <2>2. pc'[r] \in InTransaction => attempt'[r] >= 1
    <3>1. CASE Arrive(r)
      BY <3>1, Labels
         DEF Arrive, Create, Update, Remove, Goto, Inv, LocalsTyped, InTransaction, Final
    <3>2. CASE GoesOn(r)
      BY <3>2, Labels, Counts DEF GoesOn, AttemptsCount
    <3> QED
      BY <1>2, <3>1, <3>2, ProgressGoesOn, AbortGoesOn
  <2> QED
    BY <2>1, <2>2 DEF AttemptsCount
<1> QED
  BY <1>1, <1>2 DEF Next, Finished

\* An open request has at most seven statements for each attempt before it,
\* and its reply: no step of another request makes it do one again, and once
\* it is answered nothing changes that.
THEOREM WorkIsBounded == Spec => []WorkFits /\ WorkOnlyShrinks
<1> DEFINE Shrinks == \A r \in Requests : pc[r] # "idle" => Work(r)' < Work(r) \/ Rests(r)
<1>1. ASSUME Inv, AttemptsCount, NEW r \in Requests
      PROVE  Work(r) \in 0 .. 7 * MaxAttempts + 1
  <2>1. CASE pc[r] \in InTransaction
    <3>1. attempt[r] >= 1 /\ Work(r) = Statements[pc[r]] + 7 * (MaxAttempts - attempt[r])
      BY <1>1, <2>1, WorkIs DEF AttemptsCount
    <3>2. Statements[pc[r]] \in 2 .. 8
      BY <1>1, <2>1, Counts
    <3> QED
      BY <1>1, <3>1, <3>2, Counts
  <2>2. CASE pc[r] \notin InTransaction
    BY <1>1, <2>2, WorkIs, Counts DEF InFlight
  <2> QED
    BY <2>1, <2>2
<1>2. ASSUME Inv, Inv', [Next]_vars
      PROVE  [Shrinks]_vars
  <2>1. CASE UNCHANGED vars
    BY <2>1
  <2>2. ASSUME NEW r \in Requests, Arrive(r) \/ Progress(r) \/ Abort(r) \/ Fail(r)
        PROVE  Shrinks
    <3>1. \A q \in Requests \ {r} : Rests(q)
      BY <1>2, <2>2, OthersRest
    <3>2. pc[r] # "idle" => Work(r)' < Work(r)
      <4>1. Arrive(r) => pc[r] = "idle"
        BY DEF Arrive, Create, Update, Remove, CanStart
      <4> QED
        BY <1>2, <2>2, <4>1, ProgressGoesOn, AbortGoesOn, GoingOnIsWork
    <3> QED
      BY <3>1, <3>2
  <2> QED
    BY <1>2, <2>1, <2>2 DEF Next, Finished
<1>3. Inv /\ AttemptsCount => WorkFits
  BY <1>1 DEF WorkFits
<1>4. Init => AttemptsCount
  BY Labels DEF Init, AttemptsCount
<1> QED
  BY <1>2, <1>3, <1>4, InitInv, StepKeepsInv, StepCounts, PTL DEF Spec, WorkOnlyShrinks
=============================================================================
