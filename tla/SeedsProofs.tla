---------------------------- MODULE SeedsProofs ----------------------------
(***************************************************************************)
(* Proofs about the reviews, the desk and the seeds together, for any      *)
(* number of requests, rows and seeds: the handlers and the seeds          *)
(* implement ReviewStore, no list of comments shows one, the seed of the   *)
(* projects leaves at most one of them without its urls, removals and      *)
(* saves take effect while one request is open at a time, and types hold.  *)
(***************************************************************************)
EXTENDS Seeds, FiniteSetTheorems, TLAPS

States == {"waiting", "listed"}

\* A request that has come to an answer, or to a statement that needs none of
\* its locals.
Free == {"created", "removed", "saved", "commented", "notFound", "broken", "error",
         "stats", "counted", "change", "new", "seeded", "present"}

Labels == Free \cup {"idle", "save", "write", "insert", "comment", "comments", "countComments",
                     "count", "countLetters", "listed", "work", "urls", "review", "seedComments"}

\* What a request can have as its entity, or as the filter of its list.
Columns == {"waiting", "listed", "absent", "any"} \cup Statuses

Types ==
  /\ reviews \in [ReviewIds -> States \cup {"absent"}]
  /\ comments \subseteq [review : ReviewIds, by : Requests, nr : Samples, approved : {FALSE}]
  /\ pc \in [Requests -> Labels]
  /\ target \in [Requests -> ReviewIds \cup Letters \cup {None}]
  /\ entity \in [Requests -> Columns]
  /\ DOMAIN counts = Requests
  /\ \A r \in Requests : DOMAIN counts[r] = {"page", "rows", "total"}
  /\ place \in [Requests -> Nat \ {0}]

\* What its statement tells of the locals of a request.
LocalsFit(r) ==
  /\ pc[r] = "idle" => target[r] = None /\ place[r] = 1
  /\ pc[r] \in {"save", "write", "insert"} =>
       \/ target[r] \in Letters
       \/ target[r] \in ReviewIds /\ entity[r] \in States
  /\ pc[r] \in {"comment", "comments", "countComments"} => target[r] \in ReviewIds
  /\ pc[r] \in {"count", "countLetters"} => target[r] = None
  /\ pc[r] \in {"work", "urls"} => place[r] \in DOMAIN ProjectSeed
  /\ pc[r] \in {"review", "seedComments"} => place[r] \in DOMAIN ReviewSeed
  /\ pc[r] = "countComments" => counts[r].rows = 0
  /\ pc[r] = "listed" /\ target[r] # None => counts[r].rows = 0 /\ counts[r].total = 0

Inv == Types /\ \A r \in Requests : LocalsFit(r)

\* A step of r leaves the others alone.
OthersWait(r) ==
  \A q \in Requests \ {r} :
    /\ pc'[q] = pc[q] /\ target'[q] = target[q] /\ entity'[q] = entity[q]
    /\ counts'[q] = counts[q] /\ place'[q] = place[q]

TablesFit == UNCHANGED tables \/ Store!Next

\* What every step of a request is shown to do.
Fits(r) == Types' /\ OthersWait(r) /\ LocalsFit(r)' /\ TablesFit

-----------------------------------------------------------------------------
\* The writes of the two tables, as operations of ReviewStore.
LEMMA Putting ==
  ASSUME Types, NEW p \in ReviewIds, NEW s \in States,
         reviews' = [reviews EXCEPT ![p] = s], comments' = comments
  PROVE  Store!Next /\ reviews' \in [ReviewIds -> States \cup {"absent"}]
<1>1. reviews' \in [ReviewIds -> States \cup {"absent"}]
  BY DEF Types
<1>2. \A q \in ReviewIds : reviews'[q] = IF q = p THEN s ELSE reviews[q]
  BY DEF Types
<1>3. Store!Put(p)
  <2>1. CASE s = "waiting"
    BY <1>2, <2>1 DEF Store!Put
  <2>2. CASE s = "listed"
    BY <1>2, <2>2 DEF Store!Put
  <2> QED
    BY <2>1, <2>2 DEF States
<1> QED
  BY <1>1, <1>3 DEF Store!Next

LEMMA Removing ==
  ASSUME Types, NEW p \in ReviewIds, Stored(p),
         reviews' = [reviews EXCEPT ![p] = "absent"], comments' = comments \ CommentsOf(p)
  PROVE  Store!Next /\ Types!1' /\ Types!2'
<1>1. reviews' \in [ReviewIds -> States \cup {"absent"}]
  BY DEF Types
<1>2. \A q \in ReviewIds : reviews'[q] = IF q = p THEN "absent" ELSE reviews[q]
  BY DEF Types
<1>3. reviews[p] \in States
  BY DEF Types, Stored
<1>4. {<<c.review, <<c.by, c.nr>>>> : c \in comments'} =
        {t \in {<<c.review, <<c.by, c.nr>>>> : c \in comments} : t[1] # p}
  BY DEF CommentsOf
<1>5. Store!Remove(p)
  BY <1>2, <1>3, <1>4 DEF Store!Remove, Store!Stored, States
<1> QED
  BY <1>1, <1>5 DEF Store!Next, Types, CommentsOf

LEMMA Commenting ==
  ASSUME Types, NEW p \in ReviewIds, Stored(p), reviews' = reviews,
         NEW new \in SUBSET [review : {p}, by : Requests, nr : Samples, approved : {FALSE}],
         comments' = comments \cup new
  PROVE  Store!Next /\ Types!2'
<1>1. reviews[p] \in States
  BY DEF Types, Stored
<1> DEFINE Pairs(C) == {<<c.review, <<c.by, c.nr>>>> : c \in C}
<1>2. Pairs(comments) \subseteq Pairs(comments')
  OBVIOUS
<1>3. Pairs(comments') \subseteq Pairs(comments) \cup ({p} \X (Requests \X Samples))
  <2>1. \A c \in new : <<c.review, <<c.by, c.nr>>>> \in {p} \X (Requests \X Samples)
    OBVIOUS
  <2> QED
    BY <2>1
<1>4. p \in Store!Stored
  BY <1>1 DEF Store!Stored, States
<1>5. Store!Comment(p)
  BY <1>2, <1>3, <1>4 DEF Store!Comment
<1> QED
  BY <1>5 DEF Store!Next, Types

\* A step that leaves the reviews and their comments alone.
LEMMA Quiet ==
  ASSUME Types, NEW r \in Requests, UNCHANGED tables,
         NEW label \in Labels, pc' = [pc EXCEPT ![r] = label],
         target' = target \/ \E t \in ReviewIds \cup Letters : target' = [target EXCEPT ![r] = t],
         entity' = entity \/ \E e \in Columns : entity' = [entity EXCEPT ![r] = e],
         UNCHANGED <<counts, place>>
  PROVE  Types' /\ OthersWait(r) /\ TablesFit /\ pc'[r] = label
<1>1. /\ pc' \in [Requests -> Labels] /\ pc'[r] = label
      /\ target' \in [Requests -> ReviewIds \cup Letters \cup {None}]
      /\ entity' \in [Requests -> Columns]
  BY DEF Types
<1>2. Types'
  BY <1>1 DEF Types, tables
<1>3. OthersWait(r)
  BY DEF OthersWait, Types
<1> QED
  BY <1>1, <1>2, <1>3 DEF TablesFit

\* The requests for a review, up to the result of their findOne.
LEMMA StepFound ==
  ASSUME Inv, NEW r \in Requests, NEW p \in ReviewIds, UNCHANGED place,
         ToggleApproval(r, p) \/ AddComment(r, p)
  PROVE  Fits(r)
<1>t. Types /\ LocalsFit(r) /\ pc[r] = "idle"
  BY DEF Inv, ToggleApproval, AddComment, CanStart
<1>1. CASE ToggleApproval(r, p)
  <2>1. PICK label \in {"save", "notFound"} :
          /\ pc' = [pc EXCEPT ![r] = label]
          /\ label = "save" => Stored(p)
    BY <1>1 DEF ToggleApproval, Goto
  <2>2. /\ target' = [target EXCEPT ![r] = p]
        /\ entity' = [entity EXCEPT ![r] = IF Stored(p) THEN Flip(reviews[p]) ELSE @]
        /\ UNCHANGED <<tables, counts, place>>
    BY <1>1 DEF ToggleApproval
  <2>3. /\ (IF Stored(p) THEN Flip(reviews[p]) ELSE entity[r]) \in Columns
        /\ label \in Labels
    BY <1>t DEF Types, Flip, Columns, Labels, Free
  <2>4. Types' /\ OthersWait(r) /\ TablesFit /\ pc'[r] = label
    BY <1>t, <2>1, <2>2, <2>3, Quiet
  <2>5. target'[r] = p /\ (label = "save" => entity'[r] \in States)
    BY <1>t, <2>1, <2>2 DEF Types, Flip, States
  <2> QED
    BY <2>1, <2>4, <2>5 DEF Fits, LocalsFit
<1>2. CASE AddComment(r, p)
  <2>1. PICK label \in {"comment", "notFound"} : pc' = [pc EXCEPT ![r] = label]
    BY <1>2 DEF AddComment, Goto
  <2>2. target' = [target EXCEPT ![r] = p] /\ UNCHANGED <<tables, entity, counts, place>>
    BY <1>2 DEF AddComment
  <2>3. Types' /\ OthersWait(r) /\ TablesFit /\ pc'[r] = label
    BY <1>t, <2>1, <2>2, Quiet DEF Labels, Free
  <2>4. target'[r] = p
    BY <1>t, <2>2 DEF Types
  <2> QED
    BY <2>1, <2>3, <2>4 DEF Fits, LocalsFit
<1> QED
  BY <1>1, <1>2

\* The other steps that only move a request on.
LEMMA StepQuiet ==
  ASSUME Inv, NEW r \in Requests,
         \/ UNCHANGED place /\ ((\E l \in Letters : UpdateStatus(r, l)) \/ GetAdminStats(r))
         \/ UNCHANGED place /\ (\E f \in Figures : AnswerFigure(r, f))
         \/ UNCHANGED place /\ Fail(r)
         \/ SeedSuperuser(r) \/ ChangePassword(r) \/ InsertSuperuser(r)
         \/ StartProjectSeed(r) \/ StartReviewSeed(r)
  PROVE  Fits(r)
<1>t. Types /\ LocalsFit(r) /\ r \in DOMAIN pc
  BY DEF Inv, Types
<1>1. ASSUME UNCHANGED <<tables, target, entity, counts, place>>,
             NEW label \in Free, Goto(r, label)
      PROVE  Fits(r)
  <2>1. label \in Labels
    BY DEF Labels
  <2>2. Types' /\ OthersWait(r) /\ TablesFit /\ pc'[r] = label
    BY <1>1, <1>t, <2>1, Quiet DEF Goto
  <2> QED
    BY <1>1, <2>2 DEF Fits, LocalsFit, Free
<1>2. ASSUME NEW l \in Letters, UpdateStatus(r, l), UNCHANGED place PROVE Fits(r)
  <2>1. PICK status \in Statuses : entity' = [entity EXCEPT ![r] = status]
    BY <1>2 DEF UpdateStatus
  <2>2. /\ pc' = [pc EXCEPT ![r] = "save"] /\ target' = [target EXCEPT ![r] = l]
        /\ UNCHANGED <<tables, counts, place>>
    BY <1>2 DEF UpdateStatus, Goto
  <2>3. Types' /\ OthersWait(r) /\ TablesFit /\ pc'[r] = "save"
    BY <1>t, <2>1, <2>2, Quiet DEF Labels, Columns
  <2>4. target'[r] = l
    BY <1>t, <2>2 DEF Types
  <2> QED
    BY <2>3, <2>4 DEF Fits, LocalsFit
<1>3. ASSUME UNCHANGED <<tables, target, entity, counts, place>>,
             NEW label \in {"work", "review"}, Goto(r, label), place[r] = 1
      PROVE  Fits(r)
  <2>1. Types' /\ OthersWait(r) /\ TablesFit /\ pc'[r] = label
    BY <1>3, <1>t, Quiet DEF Goto, Labels
  <2>2. 1 \in DOMAIN ProjectSeed /\ 1 \in DOMAIN ReviewSeed
    BY SlugsAreWorks, SeedsAreSamples
  <2> QED
    BY <1>3, <2>1, <2>2 DEF Fits, LocalsFit
<1>4. CASE UNCHANGED place /\ (GetAdminStats(r) \/ (\E f \in Figures : AnswerFigure(r, f)) \/ Fail(r))
  <2>1. UNCHANGED <<tables, target, entity, counts, place>>
    BY <1>4 DEF GetAdminStats, AnswerFigure, Fail, locals
  <2>2. \E label \in Free : Goto(r, label)
    BY <1>4 DEF GetAdminStats, AnswerFigure, Fail, Free
  <2> QED
    BY <1>1, <2>1, <2>2
<1>5. CASE SeedSuperuser(r) \/ ChangePassword(r) \/ InsertSuperuser(r)
  <2>1. UNCHANGED <<tables, target, entity, counts, place>>
    BY <1>5 DEF SeedSuperuser, ChangePassword, InsertSuperuser, OnlyLocals, locals, tables, seedVars
  <2>2. \E label \in Free : Goto(r, label)
    BY <1>5 DEF SeedSuperuser, ChangePassword, InsertSuperuser, Answered, Free
  <2> QED
    BY <1>1, <2>1, <2>2
<1>6. CASE StartProjectSeed(r) \/ StartReviewSeed(r)
  <2>1. UNCHANGED <<tables, target, entity, counts, place>> /\ place[r] = 1
    BY <1>6, <1>t
       DEF StartProjectSeed, StartReviewSeed, OnlyLocals, locals, tables, seedVars, CanStart, LocalsFit
  <2>2. \E label \in {"work", "review", "seeded"} : Goto(r, label)
    BY <1>6 DEF StartProjectSeed, StartReviewSeed
  <2> QED
    BY <1>1, <1>3, <2>1, <2>2 DEF Free
<1> QED
  BY <1>2, <1>4, <1>5, <1>6

-----------------------------------------------------------------------------
\* A step that may write the tables, the counts and the place as well.
LEMMA Moving ==
  ASSUME Types, NEW r \in Requests, NEW label \in Labels, pc' = [pc EXCEPT ![r] = label],
         entity' = entity \/ \E e \in Columns : entity' = [entity EXCEPT ![r] = e],
         target' = target \/ \E t \in ReviewIds : target' = [target EXCEPT ![r] = t],
         UNCHANGED counts \/ (/\ DOMAIN counts' = Requests
                              /\ DOMAIN counts'[r] = {"page", "rows", "total"}
                              /\ \A q \in Requests \ {r} : counts'[q] = counts[q]),
         place' = place \/ place' = [place EXCEPT ![r] = @ + 1],
         TablesFit, (Types!1 /\ Types!2)'
  PROVE  Types' /\ OthersWait(r) /\ pc'[r] = label
<1>1. /\ pc' \in [Requests -> Labels] /\ pc'[r] = label
      /\ target' \in [Requests -> ReviewIds \cup Letters \cup {None}]
      /\ place' \in [Requests -> Nat \ {0}]
      /\ entity' \in [Requests -> Columns]
  BY DEF Types
<1>2. DOMAIN counts' = Requests /\ \A q \in Requests : DOMAIN counts'[q] = {"page", "rows", "total"}
  BY DEF Types
<1>3. OthersWait(r)
  BY DEF OthersWait, Types
<1> QED
  BY <1>1, <1>2, <1>3 DEF Types

\* A review is stored, by a visitor or by a save of one that was read before.
LEMMA StepReview ==
  ASSUME Inv, NEW r \in Requests, UNCHANGED place,
         \/ Create(r)
         \/ Saved!Save(r) /\ UNCHANGED <<comments, counts>>
  PROVE  Fits(r)
<1>t. Types /\ LocalsFit(r) /\ Types!1 /\ Types!2
  BY DEF Inv, Types
<1>1. ASSUME NEW p \in ReviewIds, NEW s \in States, reviews' = [reviews EXCEPT ![p] = s],
             NEW label \in Free, Goto(r, label),
             UNCHANGED <<comments, target, entity, counts>>
      PROVE  Fits(r)
  <2>1. TablesFit /\ (Types!1 /\ Types!2)'
    BY <1>1, <1>t, Putting DEF TablesFit
  <2>2. Types' /\ OthersWait(r) /\ pc'[r] = label
    BY <1>1, <1>t, <2>1, Moving DEF Goto, Labels
  <2> QED
    BY <2>1, <2>2 DEF Fits, LocalsFit, Free
<1>2. ASSUME UNCHANGED <<tables, target, entity, counts>>,
             NEW label \in {"insert", "write", "saved", "broken"}, Goto(r, label), pc[r] \in {"save", "write", "insert"}
      PROVE  Fits(r)
  <2>1. Types' /\ OthersWait(r) /\ TablesFit /\ pc'[r] = label
    BY <1>t, <1>2, Quiet DEF Goto, Labels, Free
  <2> QED
    BY <1>t, <1>2, <2>1 DEF Fits, LocalsFit
<1>3. CASE Create(r)
  <2>1. <<r, 1>> \in ReviewIds
    BY FirstSample DEF ReviewIds
  <2>2. PICK label \in {"created", "error"} : Goto(r, label)
    BY <1>3 DEF Create, Answered
  <2>3. /\ reviews' = [reviews EXCEPT ![<<r, 1>>] = "waiting"]
        /\ UNCHANGED <<comments, target, entity, counts>>
    BY <1>3 DEF Create, locals
  <2> QED
    BY <1>1, <2>1, <2>2, <2>3 DEF States, Free
<1>4. CASE Saved!Save(r) /\ UNCHANGED <<comments, counts>>
  <2>1. /\ pc[r] \in {"save", "write", "insert"} /\ target[r] \in ReviewIds
    BY <1>4, <1>t DEF Saved!Save, Saved!Compare, Saved!Write, Saved!Insert, Saved!IsHere, Types
  <2>2. entity[r] \in States
    BY <1>t, <2>1, LettersAreNoReviews DEF LocalsFit
  <2>3. CASE Saved!Put(r)
    <3>1. PICK label \in {"saved", "error"} : Goto(r, label)
      BY <2>3 DEF Saved!Put, Saved!Goto, Goto
    <3>2. reviews' = [reviews EXCEPT ![target[r]] = entity[r]] /\ UNCHANGED <<target, entity>>
      BY <2>3 DEF Saved!Put
    <3> QED
      BY <1>1, <1>4, <2>1, <2>2, <3>1, <3>2 DEF Free
  <2>4. CASE ~Saved!Put(r)
    <3>1. /\ \E label \in {"insert", "write", "saved", "broken"} : Goto(r, label)
          /\ UNCHANGED <<reviews, target, entity>>
      BY <1>4, <2>4 DEF Saved!Save, Saved!Compare, Saved!Write, Saved!Insert, Saved!Goto, Goto
    <3> QED
      BY <1>2, <1>4, <2>1, <3>1 DEF tables
  <2> QED
    BY <2>3, <2>4
<1> QED
  BY <1>3, <1>4

\* A save of a contact leaves the reviews alone.
LEMMA StepInbox ==
  ASSUME Inv, NEW r \in Requests, InboxSaved!Save(r), UNCHANGED <<tables, counts, place>>
  PROVE  Fits(r)
<1>t. Types /\ LocalsFit(r)
  BY DEF Inv
<1>1. /\ pc[r] \in {"save", "write", "insert"}
      /\ UNCHANGED <<target, entity>>
  BY DEF InboxSaved!Save, InboxSaved!Compare, InboxSaved!Write, InboxSaved!Insert, InboxSaved!Put
<1>2. PICK label \in {"insert", "write", "saved", "broken", "error"} : Goto(r, label)
  BY DEF InboxSaved!Save, InboxSaved!Compare, InboxSaved!Write, InboxSaved!Insert,
         InboxSaved!Put, InboxSaved!Goto, Goto
<1>3. Types' /\ OthersWait(r) /\ TablesFit /\ pc'[r] = label
  BY <1>t, <1>1, <1>2, Quiet DEF Goto, Labels, Free
<1> QED
  BY <1>t, <1>1, <1>2, <1>3 DEF Fits, LocalsFit

\* A review goes with its comments.
LEMMA StepRemove ==
  ASSUME Inv, NEW r \in Requests, NEW p \in ReviewIds, Remove(r, p), UNCHANGED place
  PROVE  Fits(r)
<1>t. Types
  BY DEF Inv
<1>1. PICK label \in {"removed", "notFound", "error"} :
        /\ Goto(r, label)
        /\ \/ UNCHANGED tables
           \/ /\ Stored(p)
              /\ reviews' = [reviews EXCEPT ![p] = "absent"]
              /\ comments' = comments \ CommentsOf(p)
  BY DEF Remove, Answered
<1>2. target' = [target EXCEPT ![r] = p] /\ UNCHANGED <<entity, counts>>
  BY DEF Remove
<1>3. TablesFit /\ (Types!1 /\ Types!2)'
  <2>1. CASE UNCHANGED tables
    BY <1>t, <2>1 DEF Types, tables, TablesFit
  <2>2. CASE ~UNCHANGED tables
    BY <1>1, <1>t, <2>2, Removing DEF TablesFit
  <2> QED
    BY <2>1, <2>2
<1>4. Types' /\ OthersWait(r) /\ pc'[r] = label
  BY <1>1, <1>2, <1>3, <1>t, Moving DEF Goto, Labels, Free
<1> QED
  BY <1>3, <1>4 DEF Fits, LocalsFit

\* New comments are of one review, and not approved.
LEMMA NewComment ==
  ASSUME NEW r \in Requests, NEW p, NEW n, 1 .. n \subseteq Samples
  PROVE  NewComments(r, p, n)
           \in SUBSET [review : {p}, by : Requests, nr : Samples, approved : {FALSE}]
<1>1. \A k \in 1 .. n : [review |-> p, by |-> r, nr |-> k, approved |-> FALSE]
                          \in [review : {p}, by : Requests, nr : Samples, approved : {FALSE}]
  OBVIOUS
<1> QED
  BY <1>1 DEF NewComments

\* A comment of a visitor is stored, or refused by the foreign key.
LEMMA StepComment ==
  ASSUME Inv, NEW r \in Requests, InsertComment(r), UNCHANGED place
  PROVE  Fits(r)
<1>t. Types /\ Types!1 /\ Types!2 /\ target[r] \in ReviewIds
  BY DEF Inv, Types, LocalsFit, InsertComment
<1>1. PICK label \in {"commented", "broken", "error"} :
        /\ Goto(r, label)
        /\ \/ UNCHANGED comments
           \/ Stored(target[r]) /\ comments' = comments \cup NewComments(r, target[r], 1)
  BY DEF InsertComment, Answered
<1>2. UNCHANGED <<reviews, target, entity, counts>>
  BY DEF InsertComment, locals
<1>3. TablesFit /\ (Types!1 /\ Types!2)'
  <2>1. CASE UNCHANGED comments
    BY <1>2, <1>t, <2>1 DEF TablesFit, tables
  <2>2. CASE ~UNCHANGED comments
    <3>1. NewComments(r, target[r], 1)
            \in SUBSET [review : {target[r]}, by : Requests, nr : Samples, approved : {FALSE}]
      <4>1. 1 .. 1 \subseteq Samples
        BY FirstSample
      <4> QED
        BY <4>1, NewComment
    <3> QED
      BY <1>1, <1>2, <1>t, <2>2, <3>1, Commenting DEF TablesFit
  <2> QED
    BY <2>1, <2>2
<1>4. Types' /\ OthersWait(r) /\ pc'[r] = label
  BY <1>1, <1>2, <1>3, <1>t, Moving DEF Goto, Labels, Free
<1> QED
  BY <1>3, <1>4 DEF Fits, LocalsFit

\* After an element of a seed.
LEMMA NextPlace ==
  ASSUME Types, NEW r \in Requests, NEW T, NEW seed \in Seq(T), NEW label \in {"work", "review"},
         place[r] \in DOMAIN seed, NextElement(r, seed, label)
  PROVE  /\ place' = [place EXCEPT ![r] = @ + 1]
         /\ \E next \in {label, "seeded", "error"} :
              Goto(r, next) /\ (next = label => place'[r] \in DOMAIN seed)
<1>1. place' = [place EXCEPT ![r] = @ + 1] /\ place'[r] = place[r] + 1
  BY DEF NextElement, Types
<1>2. Len(seed) \in Nat /\ DOMAIN seed = 1 .. Len(seed)
  OBVIOUS
<1>3. CASE place[r] < Len(seed)
  BY <1>1, <1>2, <1>3 DEF NextElement
<1>4. CASE ~(place[r] < Len(seed))
  BY <1>1, <1>2, <1>4 DEF NextElement
<1> QED
  BY <1>1, <1>3, <1>4

\* The seed of the projects writes neither reviews nor comments.
LEMMA StepProjectSeed ==
  ASSUME Inv, NEW r \in Requests, InsertWork(r) \/ InsertUrls(r)
  PROVE  Fits(r)
<1>t. Types /\ Types!1 /\ Types!2 /\ place[r] \in DOMAIN ProjectSeed
  BY DEF Inv, Types, LocalsFit, InsertWork, InsertUrls
<1>1. UNCHANGED <<reviews, comments, target, entity, counts>>
  BY DEF InsertWork, InsertUrls, OnlyLocals, locals
<1>2. TablesFit /\ (Types!1 /\ Types!2)'
  BY <1>1, <1>t DEF TablesFit, tables
<1>3. PICK label \in {"work", "urls", "present", "seeded", "error"} :
        /\ Goto(r, label)
        /\ place' = place \/ place' = [place EXCEPT ![r] = @ + 1]
        /\ label \in {"work", "urls"} => place'[r] \in DOMAIN ProjectSeed
  <2>1. CASE InsertWork(r)
    BY <1>t, <2>1 DEF InsertWork, Answered, seedVars
  <2>2. CASE InsertUrls(r)
    BY <1>t, <2>2, NextPlace, SlugsAreWorks DEF InsertUrls
  <2> QED
    BY <2>1, <2>2
<1>4. Types' /\ OthersWait(r) /\ pc'[r] = label
  BY <1>1, <1>2, <1>3, <1>t, Moving DEF Goto, Labels, Free
<1> QED
  BY <1>2, <1>3, <1>4 DEF Fits, LocalsFit

\* The seed of the reviews stores a review, and then its comments.
LEMMA StepReviewSeed ==
  ASSUME Inv, NEW r \in Requests, InsertReview(r) \/ InsertSeedComments(r)
  PROVE  Fits(r)
<1>t. Types /\ Types!1 /\ Types!2 /\ place[r] \in DOMAIN ReviewSeed
  BY DEF Inv, Types, LocalsFit, InsertReview, InsertSeedComments
<1> DEFINE p == <<r, place[r]>>
           seed == ReviewSeed[place[r]]
<1>1. p \in ReviewIds /\ seed.state \in States /\ 1 .. seed.comments \subseteq Samples
  <2>1. place[r] \in Samples /\ 1 .. seed.comments \subseteq Samples
    BY <1>t, SeedsAreSamples
  <2> DEFINE T == [state : {"waiting", "listed"}, comments : Nat]
  <2>a. ASSUME NEW S, NEW q \in Seq(S), NEW i \in DOMAIN q PROVE q[i] \in S
    BY <2>a
  <2>2. seed \in T
    <3>1. ReviewSeed \in Seq(T)
      BY SeedsAreSamples
    <3> HIDE DEF T
    <3> QED
      BY <1>t, <2>a, <3>1
  <2>3. seed.state \in States
    BY <2>2 DEF States
  <2> QED
    BY <2>1, <2>3 DEF ReviewIds
<1>2. UNCHANGED <<target, entity, counts>>
  BY DEF InsertReview, InsertSeedComments, locals
<1>3. PICK label \in {"review", "seedComments", "seeded", "broken", "error"} :
        /\ Goto(r, label)
        /\ place' = place \/ place' = [place EXCEPT ![r] = @ + 1]
        /\ label \in {"review", "seedComments"} => place'[r] \in DOMAIN ReviewSeed
  <2>1. CASE NextElement(r, ReviewSeed, "review")
    BY <1>t, <2>1, NextPlace, SeedsAreSamples
  <2>2. CASE ~NextElement(r, ReviewSeed, "review")
    BY <1>t, <2>2 DEF InsertReview, InsertSeedComments, Answered
  <2> QED
    BY <2>1, <2>2
<1>4. TablesFit /\ (Types!1 /\ Types!2)'
  <2>1. CASE InsertReview(r)
    BY <1>1, <1>t, <2>1, Putting DEF InsertReview, TablesFit
  <2>2. CASE InsertSeedComments(r) /\ UNCHANGED comments
    BY <1>t, <2>2 DEF InsertSeedComments, TablesFit, tables
  <2>3. CASE InsertSeedComments(r) /\ ~UNCHANGED comments
    <3>1. /\ Stored(p) /\ reviews' = reviews
          /\ comments' = comments \cup NewComments(r, p, seed.comments)
      BY <2>3 DEF InsertSeedComments
    <3>2. NewComments(r, p, seed.comments)
            \in SUBSET [review : {p}, by : Requests, nr : Samples, approved : {FALSE}]
      BY <1>1, NewComment
    <3> QED
      BY <1>1, <1>t, <3>1, <3>2, Commenting DEF TablesFit
  <2> QED
    BY <2>1, <2>2, <2>3
<1>5. Types' /\ OthersWait(r) /\ pc'[r] = label
  BY <1>2, <1>3, <1>4, <1>t, Moving DEF Goto, Labels, Free
<1> QED
  BY <1>3, <1>4, <1>5 DEF Fits, LocalsFit

-----------------------------------------------------------------------------
\* No comment is approved, so a page of the approved ones is empty and its
\* number of rows is that of an empty page.
LEMMA NothingApproved ==
  ASSUME Types
  PROVE  /\ \A p \in ReviewIds : Cardinality(ApprovedComments(p)) = 0
         /\ \A page : RowsOnPage(0, page) = 0
         /\ Skipped(1) = 0
<1>1. \A p \in ReviewIds : ApprovedComments(p) = {}
  BY DEF Types, ApprovedComments, CommentsOf
<1>2. 1 .. 0 = {}
  OBVIOUS
<1>3. \A page : RowsOnPage(0, page) = Cardinality({})
  BY <1>2 DEF RowsOnPage
<1>4. Skipped(1) = 0
  BY PagesAreNumbers DEF Skipped
<1> QED
  BY <1>1, <1>3, <1>4, FS_EmptySet

\* Every step of a list: it writes nothing but the locals of its request.
Lists(r, label) ==
  /\ Goto(r, label)
  /\ UNCHANGED <<tables, place>>
  /\ DOMAIN counts' = Requests
  /\ DOMAIN counts'[r] = {"page", "rows", "total"}
  /\ \A q \in Requests \ {r} : counts'[q] = counts[q]

\* The first query of a list, and the second.
LEMMA FirstQuery ==
  ASSUME Types, NEW r \in Requests, NEW page, NEW n, NEW counting \in {"count", "countLetters", "countComments"},
         ReadPage(r, page, n, counting), UNCHANGED <<tables, place>>
  PROVE  /\ \E label \in {"listed", counting} : Lists(r, label)
         /\ counts'[r].rows = RowsOnPage(n, page)
         /\ counts'[r].total = Skipped(page) + counts'[r].rows
         /\ Goto(r, "listed") => page = 1 \/ counts'[r].rows > 0
<1> DEFINE rows == RowsOnPage(n, page)
           known == rows < PageSize /\ (page = 1 \/ rows > 0)
<1>1. /\ counts' = [counts EXCEPT ![r] = [page |-> page, rows |-> rows, total |-> Skipped(page) + rows]]
      /\ Goto(r, IF known THEN "listed" ELSE counting)
  BY DEF ReadPage
<1>2. counts'[r] = [page |-> page, rows |-> rows, total |-> Skipped(page) + rows]
  BY <1>1 DEF Types
<1>3. DOMAIN counts' = Requests /\ \A q \in Requests \ {r} : counts'[q] = counts[q]
  BY <1>1 DEF Types
<1> HIDE DEF rows
<1>4. Goto(r, "listed") => known
  BY <1>1 DEF Goto, Types
<1>5. \E label \in {"listed", counting} : Goto(r, label)
  BY <1>1
<1> QED
  BY <1>2, <1>3, <1>4, <1>5 DEF Lists, rows

LEMMA SecondQuery ==
  ASSUME Types, NEW r \in Requests, NEW n, CountRows(r, n), UNCHANGED place
  PROVE  /\ Lists(r, "listed") /\ UNCHANGED <<target, entity>>
         /\ counts'[r].rows = counts[r].rows /\ counts'[r].total = n
<1>1. counts' = [counts EXCEPT ![r] = [counts[r] EXCEPT !.total = n]]
  BY DEF CountRows
<1>2. counts'[r] = [counts[r] EXCEPT !.total = n]
  BY <1>1 DEF Types
<1> QED
  BY <1>1, <1>2 DEF CountRows, Lists, Types

\* What a step of a list has to show beside.
LEMMA Listing ==
  ASSUME Types, NEW r \in Requests, NEW label \in Labels, Lists(r, label),
         entity' = entity \/ \E e \in Columns : entity' = [entity EXCEPT ![r] = e],
         target' = target \/ \E t \in ReviewIds : target' = [target EXCEPT ![r] = t],
         LocalsFit(r)'
  PROVE  Fits(r)
<1>1. TablesFit /\ (Types!1 /\ Types!2)'
  BY DEF Lists, TablesFit, Types, tables
<1> QED
  BY <1>1, Moving DEF Fits, Lists, Goto

LEMMA StepList ==
  ASSUME Inv, NEW r \in Requests, UNCHANGED place,
         \/ \E page \in Pages, filter \in {"listed", "waiting", "any"} : FindAll(r, filter, page)
         \/ \E page \in Pages : FindAllContacts(r, page)
         \/ Count(r) \/ CountLetters(r)
  PROVE  Fits(r)
<1>t. Types /\ LocalsFit(r)
  BY DEF Inv
<1>1. ASSUME NEW page \in Pages, NEW filter \in {"listed", "waiting", "any"}, FindAll(r, filter, page)
      PROVE  Fits(r)
  <2>1. /\ ReadPage(r, page, Cardinality(Matching(filter)), "count")
        /\ entity' = [entity EXCEPT ![r] = filter] /\ UNCHANGED <<tables, target>>
        /\ target[r] = None
    BY <1>1, <1>t DEF FindAll, CanStart, LocalsFit
  <2>2. PICK label \in {"listed", "count"} : Lists(r, label)
    BY <1>t, <2>1, FirstQuery
  <2>3. LocalsFit(r)'
    BY <1>t, <2>1, <2>2 DEF LocalsFit, Lists, Goto, Types
  <2> QED
    BY <1>t, <2>1, <2>2, <2>3, Listing DEF Columns, Labels
<1>2. ASSUME NEW page \in Pages, FindAllContacts(r, page) PROVE Fits(r)
  <2>1. /\ ReadPage(r, page, Cardinality(Letters), "countLetters")
        /\ UNCHANGED <<entity, tables, target>>
        /\ target[r] = None
    BY <1>2, <1>t DEF FindAllContacts, CanStart, LocalsFit
  <2>2. PICK label \in {"listed", "countLetters"} : Lists(r, label)
    BY <1>t, <2>1, FirstQuery
  <2>3. LocalsFit(r)'
    BY <1>t, <2>1, <2>2 DEF LocalsFit, Lists, Goto, Types
  <2> QED
    BY <1>t, <2>1, <2>2, <2>3, Listing DEF Labels
<1>3. CASE Count(r) \/ CountLetters(r)
  <2>1. target[r] = None /\ \E n : CountRows(r, n)
    BY <1>3, <1>t DEF Count, CountLetters, LocalsFit
  <2>2. Lists(r, "listed") /\ UNCHANGED <<target, entity>>
    BY <1>t, <2>1, SecondQuery
  <2>3. LocalsFit(r)'
    BY <1>t, <2>1, <2>2 DEF LocalsFit, Lists, Goto, Types
  <2> QED
    BY <1>t, <2>2, <2>3, Listing DEF Labels
<1> QED
  BY <1>1, <1>2, <1>3

\* The comments of a review: whatever page is asked for, it is empty.
LEMMA StepListComments ==
  ASSUME Inv, NEW r \in Requests, UNCHANGED place,
         \/ \E p \in ReviewIds, page \in Pages : ListComments(r, p, page)
         \/ ReadComments(r) \/ CountComments(r)
  PROVE  Fits(r)
<1>t. Types /\ LocalsFit(r)
  BY DEF Inv
<1>1. ASSUME NEW p \in ReviewIds, NEW page \in Pages, ListComments(r, p, page) PROVE Fits(r)
  <2>1. PICK label \in {"comments", "notFound"} : Goto(r, label)
    BY <1>1 DEF ListComments
  <2>2. /\ counts' = [counts EXCEPT ![r] = [counts[r] EXCEPT !.page = page]]
        /\ target' = [target EXCEPT ![r] = p] /\ target'[r] = p
        /\ UNCHANGED <<tables, entity>>
    BY <1>1, <1>t DEF ListComments, Types
  <2>3. Lists(r, label)
    BY <1>t, <2>1, <2>2 DEF Lists, Types
  <2>4. LocalsFit(r)'
    BY <1>t, <2>2, <2>3 DEF LocalsFit, Lists, Goto, Types
  <2> QED
    BY <1>t, <2>2, <2>3, <2>4, Listing DEF Labels, Free
<1>2. CASE ReadComments(r)
  <2>1. target[r] \in ReviewIds
    BY <1>2, <1>t DEF ReadComments, LocalsFit
  <2>2. /\ ReadPage(r, counts[r].page, 0, "countComments")
        /\ UNCHANGED <<tables, target, entity>>
    BY <1>2, <1>t, <2>1, NothingApproved DEF ReadComments
  <2>3. /\ \E label \in {"listed", "countComments"} : Lists(r, label)
        /\ counts'[r].rows = 0
        /\ Goto(r, "listed") => counts'[r].total = 0
    BY <1>t, <2>2, FirstQuery, NothingApproved
  <2>4. PICK label \in {"listed", "countComments"} : Lists(r, label)
    BY <2>3
  <2>5. LocalsFit(r)'
    BY <1>t, <2>1, <2>2, <2>3, <2>4 DEF LocalsFit, Lists, Goto, Types
  <2> QED
    BY <1>t, <2>2, <2>4, <2>5, Listing DEF Labels
<1>3. CASE CountComments(r)
  <2>1. target[r] \in ReviewIds /\ counts[r].rows = 0
    BY <1>3, <1>t DEF CountComments, LocalsFit
  <2>2. CountRows(r, 0)
    BY <1>3, <1>t, <2>1, NothingApproved DEF CountComments
  <2>3. /\ Lists(r, "listed") /\ UNCHANGED <<target, entity>>
        /\ counts'[r].rows = 0 /\ counts'[r].total = 0
    BY <1>t, <2>1, <2>2, SecondQuery
  <2>4. LocalsFit(r)'
    BY <1>t, <2>1, <2>3 DEF LocalsFit, Lists, Goto, Types
  <2> QED
    BY <1>t, <2>3, <2>4, Listing DEF Labels
<1> QED
  BY <1>1, <1>2, <1>3

-----------------------------------------------------------------------------
\* Every step of a request fits, so the invariant is inductive.
LEMMA StepFits ==
  ASSUME Inv, NEW r \in Requests, Step(r)
  PROVE  Fits(r)
<1>1. CASE SeedStep(r)
  BY <1>1, StepQuiet, StepProjectSeed, StepReviewSeed DEF SeedStep
<1>2. CASE DeskStep(r) /\ UNCHANGED seedVars
  <2>1. UNCHANGED place
    BY <1>2 DEF seedVars
  <2>2. CASE ReviewStep(r)
    <3>1. CASE ReviewArrives(r)
      BY <2>1, <3>1, StepReview, StepFound, StepRemove, StepList, StepListComments
         DEF ReviewArrives, FindAllApproved, FindAllForAdmin
    <3>2. CASE Saved!Save(r) /\ UNCHANGED <<comments, counts, load>>
      BY <2>1, <3>2, StepReview
    <3>3. CASE InsertComment(r) \/ Count(r) \/ ReadComments(r) \/ CountComments(r) \/ Fail(r)
      BY <2>1, <3>3, StepComment, StepList, StepListComments, StepQuiet
    <3> QED
      BY <2>2, <3>1, <3>2, <3>3 DEF ReviewStep
  <2>3. CASE \/ \E l \in Letters : UpdateStatus(r, l)
             \/ GetAdminStats(r)
             \/ \E figure \in Figures : AnswerFigure(r, figure)
    BY <2>1, <2>3, StepQuiet
  <2>4. CASE \/ \E page \in Pages : FindAllContacts(r, page)
             \/ CountLetters(r)
    BY <2>1, <2>4, StepList
  <2>5. CASE InboxSaved!Save(r) /\ UNCHANGED <<tables, works, counts, tally, load>>
    BY <2>1, <2>5, StepInbox
  <2> QED
    BY <1>2, <2>2, <2>3, <2>4, <2>5 DEF DeskStep
<1> QED
  BY <1>1, <1>2 DEF Step

LEMMA FitsKeepsInv ==
  ASSUME Inv, NEW r \in Requests, Fits(r)
  PROVE  Inv'
<1>1. ASSUME NEW q \in Requests \ {r} PROVE LocalsFit(q)'
  <2>1. LocalsFit(q)
    BY DEF Inv
  <2>2. /\ pc'[q] = pc[q] /\ target'[q] = target[q] /\ entity'[q] = entity[q]
        /\ counts'[q] = counts[q] /\ place'[q] = place[q]
    BY DEF Fits, OthersWait
  <2> QED
    BY <2>1, <2>2 DEF LocalsFit
<1> QED
  BY <1>1 DEF Inv, Fits

LEMMA IdleKeepsInv ==
  ASSUME Inv, UNCHANGED vars
  PROVE  Inv' /\ UNCHANGED tables
<1>1. UNCHANGED <<reviews, comments, pc, target, entity, counts, place>>
  BY DEF vars, reviewVars, tables, locals, seedVars
<1> QED
  BY <1>1 DEF Inv, Types, LocalsFit, tables

LEMMA InitInv == Init => Inv
<1> SUFFICES ASSUME Init PROVE Inv
  OBVIOUS
<1>1. PICK start \in [Existing -> States] :
        reviews = [p \in ReviewIds |-> IF p \in Existing THEN start[p] ELSE "absent"]
  BY DEF Init, DeskInit, ReviewInit, States
<1>2. /\ comments = {}
      /\ pc     = [r \in Requests |-> "idle"]
      /\ target = [r \in Requests |-> None]
      /\ entity = [r \in Requests |-> "absent"]
      /\ counts = [r \in Requests |-> [page |-> 1, rows |-> 0, total |-> 0]]
      /\ place = [r \in Requests |-> 1]
  BY DEF Init, DeskInit, ReviewInit
<1>3. Types
  <2>1. reviews \in [ReviewIds -> States \cup {"absent"}]
    BY <1>1
  <2>2. \A r \in Requests : DOMAIN counts[r] = {"page", "rows", "total"}
    BY <1>2
  <2> QED
    BY <1>2, <2>1, <2>2 DEF Types, Labels, Free, Columns
<1>4. \A r \in Requests : LocalsFit(r)
  BY <1>2 DEF LocalsFit
<1> QED
  BY <1>3, <1>4 DEF Inv

LEMMA NextKeepsInv ==
  ASSUME Inv, [NextStep]_vars
  PROVE  Inv' /\ TablesFit
<1>1. CASE UNCHANGED vars
  BY <1>1, IdleKeepsInv DEF TablesFit
<1>2. ASSUME NEW r \in Requests, Step(r) PROVE Inv' /\ TablesFit
  BY <1>2, StepFits, FitsKeepsInv DEF Fits
<1> QED
  BY <1>1, <1>2 DEF NextStep, Idle

LEMMA InvHolds == SeedsSpec => []Inv
<1>1. Inv /\ [NextStep]_vars => Inv'
  BY NextKeepsInv
<1> QED
  BY InitInv, <1>1, PTL DEF SeedsSpec

(***************************************************************************)
(* Whatever overlaps, and whatever statement fails, the reviews, the desk  *)
(* and the seeds implement ReviewStore: a comment never outlives its       *)
(* review, and a request writes one review at a time.                      *)
(***************************************************************************)
THEOREM StoreImplemented == SeedsSpec => ImplementsReviewStore
<1>1. Init => Store!Init
  <2> SUFFICES ASSUME Init PROVE Store!Init
    OBVIOUS
  <2>1. {<<c.review, <<c.by, c.nr>>>> : c \in comments} = {}
    BY DEF Init, DeskInit, ReviewInit
  <2> QED
    BY <2>1 DEF Store!Init
<1>2. Inv /\ [NextStep]_vars => [Store!Next]_<<{p \in ReviewIds : reviews[p] = "waiting"}, {p \in ReviewIds : reviews[p] = "listed"}, {<<c.review, <<c.by, c.nr>>>> : c \in comments}>>
  BY NextKeepsInv DEF TablesFit, tables
<1> QED
  BY <1>1, <1>2, InvHolds, PTL DEF SeedsSpec, ImplementsReviewStore, Store!Spec

-----------------------------------------------------------------------------
(***************************************************************************)
(* The seed of the projects.  A run is past the first slug only when it    *)
(* has inserted it itself, so at most one run ever is; what has no urls is *)
(* the project this run is at, or the one it has stopped at.               *)
(***************************************************************************)
Bare == {w \in Works : works[w] = "bare"}
Past(r) ==
  \/ pc[r] = "urls"
  \/ pc[r] = "work" /\ place[r] > 1

OneRun ==
  /\ works \in [Works -> {"absent", "old", "bare", "linked"}]
  /\ works[ProjectSeed[1]] = "absent" => Bare = {} /\ \A r \in Requests : ~Past(r)
  /\ \A r \in Requests : pc[r] = "urls" => Bare = {ProjectSeed[place[r]]}
  /\ \A r \in Requests : pc[r] = "work" /\ place[r] > 1 => Bare = {}
  /\ \A r, q \in Requests : Past(r) /\ Past(q) => r = q
  /\ \E w \in Works : Bare \subseteq {w}

\* The slugs are projects.
LEMMA SlugsAreStored ==
  /\ \A i \in DOMAIN ProjectSeed : ProjectSeed[i] \in Works
  /\ 1 \in DOMAIN ProjectSeed
BY SlugsAreWorks

\* What everything but the seed of the projects does to its tables: nothing.
LEMMA OtherSteps ==
  ASSUME Inv, NEW r \in Requests, Step(r), ~InsertWork(r), ~InsertUrls(r)
  PROVE  UNCHANGED works /\ ~Past(r)'
<1>t. Types /\ LocalsFit(r)
  BY DEF Inv
<1>g. ASSUME NEW label, Goto(r, label), label \notin {"work", "urls"} PROVE ~Past(r)'
  BY <1>t, <1>g DEF Goto, Types, Past
<1>1. CASE StartProjectSeed(r)
  <2>1. place[r] = 1 /\ UNCHANGED <<works, place>>
    BY <1>1, <1>t DEF StartProjectSeed, CanStart, LocalsFit, seedVars
  <2>2. PICK label \in {"work", "seeded"} : Goto(r, label)
    BY <1>1 DEF StartProjectSeed
  <2> QED
    BY <1>t, <2>1, <2>2 DEF Goto, Types, Past
<1>2. CASE SeedSuperuser(r) \/ ChangePassword(r) \/ InsertSuperuser(r) \/ StartReviewSeed(r)
  <2>1. \E label \in {"new", "change", "seeded", "error", "broken", "review"} : Goto(r, label)
    BY <1>2 DEF SeedSuperuser, ChangePassword, InsertSuperuser, StartReviewSeed, Answered
  <2>2. UNCHANGED works
    BY <1>2 DEF SeedSuperuser, ChangePassword, InsertSuperuser, StartReviewSeed
  <2> QED
    BY <1>g, <2>1, <2>2
<1>3. CASE InsertReview(r) \/ InsertSeedComments(r)
  <2>1. \E label \in {"review", "seedComments", "seeded", "broken", "error"} : Goto(r, label)
    BY <1>3 DEF InsertReview, InsertSeedComments, NextElement, Answered
  <2>2. UNCHANGED works
    BY <1>3 DEF InsertReview, InsertSeedComments, desk
  <2> QED
    BY <1>g, <2>1, <2>2
<1>4. CASE DeskStep(r) /\ UNCHANGED seedVars
  <2>1. CASE ReviewStep(r) /\ UNCHANGED <<desk, tally>>
    <3>1. CASE ReviewArrives(r)
      <4>1. \E label : Goto(r, label) /\ label \notin {"work", "urls"}
        BY <3>1 DEF ReviewArrives, Create, ToggleApproval, Remove, AddComment, FindAllApproved,
                    FindAllForAdmin, FindAll, ReadPage, ListComments, Answered
      <4> QED
        BY <1>g, <2>1, <4>1 DEF desk
    <3>2. CASE Saved!Save(r)
      <4>1. \E label \in {"insert", "write", "saved", "broken", "error"} : Goto(r, label)
        BY <3>2 DEF Saved!Save, Saved!Compare, Saved!Write, Saved!Insert, Saved!Put, Saved!Goto, Goto
      <4> QED
        BY <1>g, <2>1, <4>1 DEF desk
    <3>3. CASE InsertComment(r) \/ Count(r) \/ ReadComments(r) \/ CountComments(r) \/ Fail(r)
      <4>1. \E label : Goto(r, label) /\ label \notin {"work", "urls"}
        BY <3>3 DEF InsertComment, Count, ReadComments, CountComments, CountRows, ReadPage, Fail, Answered
      <4> QED
        BY <1>g, <2>1, <4>1 DEF desk
    <3> QED
      BY <2>1, <3>1, <3>2, <3>3 DEF ReviewStep
  <2>2. CASE \E l \in Letters : UpdateStatus(r, l)
    BY <1>g, <2>2 DEF UpdateStatus, desk
  <2>3. CASE InboxSaved!Save(r) /\ UNCHANGED <<tables, works, counts, tally, load>>
    <3>1. \E label \in {"insert", "write", "saved", "broken", "error"} : Goto(r, label)
      BY <2>3 DEF InboxSaved!Save, InboxSaved!Compare, InboxSaved!Write, InboxSaved!Insert,
                  InboxSaved!Put, InboxSaved!Goto, Goto
    <3> QED
      BY <1>g, <2>3, <3>1
  <2>4. CASE (\E page \in Pages : FindAllContacts(r, page)) \/ CountLetters(r)
    <3>1. \E label \in {"listed", "countLetters"} : Goto(r, label)
      BY <2>4 DEF FindAllContacts, CountLetters, CountRows, ReadPage
    <3>2. UNCHANGED works
      BY <2>4 DEF FindAllContacts, CountLetters, desk
    <3> QED
      BY <1>g, <3>1, <3>2
  <2>5. CASE GetAdminStats(r) \/ \E figure \in Figures : AnswerFigure(r, figure)
    <3>1. \E label \in {"stats", "counted"} : Goto(r, label)
      BY <2>5 DEF GetAdminStats, AnswerFigure
    <3>2. UNCHANGED works
      BY <2>5 DEF GetAdminStats, AnswerFigure, desk
    <3> QED
      BY <1>g, <3>1, <3>2
  <2> QED
    BY <1>4, <2>1, <2>2, <2>3, <2>4, <2>5 DEF DeskStep
<1> QED
  BY <1>1, <1>2, <1>3, <1>4 DEF Step, SeedStep

\* The other requests are as far past the first slug as they were.
LEMMA OthersPast ==
  ASSUME Inv, NEW r \in Requests, Step(r)
  PROVE  \A q \in Requests \ {r} : pc'[q] = pc[q] /\ place'[q] = place[q] /\ Past(q)' = Past(q)
BY StepFits DEF Fits, OthersWait, Past

LEMMA StepKeepsOneRun ==
  ASSUME Inv, OneRun, NEW r \in Requests, Step(r)
  PROVE  OneRun'
<1>t. Types /\ LocalsFit(r) /\ place[r] \in Nat \ {0}
  BY DEF Inv, Types
<1>q. \A q \in Requests \ {r} : pc'[q] = pc[q] /\ place'[q] = place[q] /\ Past(q)' = Past(q)
  BY OthersPast
<1>g. ASSUME NEW label, Goto(r, label) PROVE pc'[r] = label
  BY <1>t, <1>g DEF Goto, Types
<1>1. CASE InsertWork(r)
  <2> DEFINE slug == ProjectSeed[place[r]]
  <2>1. slug \in Works /\ UNCHANGED place
    BY <1>1, <1>t, SlugsAreStored DEF InsertWork, seedVars, LocalsFit
  <2>2. CASE works[slug] # "absent"
    <3>1. UNCHANGED works /\ pc'[r] = "present"
      BY <1>1, <1>g, <2>2 DEF InsertWork
    <3>2. ~Past(r)' /\ Bare' = Bare
      BY <3>1 DEF Past, Bare
    <3> QED
      BY <1>q, <3>1, <3>2 DEF OneRun, Past
  <2>3. CASE works[slug] = "absent"
    <3>1. /\ works' = [works EXCEPT ![slug] = "bare"]
          /\ pc'[r] = "urls" \/ pc'[r] = "error"
      BY <1>1, <1>g, <2>3 DEF InsertWork, Answered
    <3>2. Bare = {} /\ \A q \in Requests \ {r} : ~Past(q)
      <4>1. CASE place[r] = 1
        BY <2>3, <4>1 DEF OneRun
      <4>2. CASE place[r] > 1
        BY <1>1, <4>2 DEF InsertWork, OneRun, Past
      <4> QED
        BY <1>t, <4>1, <4>2
    <3>3. Bare' = {slug}
      BY <2>1, <3>1, <3>2 DEF Bare, OneRun
    <3>4. works'[ProjectSeed[1]] # "absent"
      <4>1. CASE slug = ProjectSeed[1]
        BY <2>1, <3>1, <4>1 DEF OneRun
      <4>2. CASE slug # ProjectSeed[1]
        <5>1. place[r] > 1
          BY <1>t, <4>2
        <5>2. works[ProjectSeed[1]] # "absent"
          BY <1>1, <5>1 DEF OneRun, Past, InsertWork
        <5> QED
          BY <2>1, <3>1, <4>2, <5>2, SlugsAreStored DEF OneRun
      <4> QED
        BY <4>1, <4>2
    <3>5. works' \in [Works -> {"absent", "old", "bare", "linked"}]
      BY <3>1 DEF OneRun
    <3>6. \A q \in Requests : Past(q)' => q = r
      BY <1>q, <3>2
    <3>7. \A q \in Requests : pc'[q] = "urls" => q = r /\ place'[q] = place[r]
      BY <2>1, <3>6 DEF Past
    <3>8. \A q \in Requests : ~(pc'[q] = "work" /\ place'[q] > 1)
      BY <3>1, <3>6 DEF Past
    <3> QED
      BY <2>1, <3>3, <3>4, <3>5, <3>6, <3>7, <3>8 DEF OneRun
  <2> QED
    BY <2>2, <2>3
<1>2. CASE InsertUrls(r)
  <2> DEFINE slug == ProjectSeed[place[r]]
  <2>1. /\ slug \in Works /\ pc[r] = "urls"
        /\ works' = [works EXCEPT ![slug] = "linked"]
    BY <1>2, <1>t, SlugsAreStored DEF InsertUrls, LocalsFit
  <2>2. pc'[r] # "urls"
    <3>1. \E label \in {"work", "seeded", "error"} : Goto(r, label)
      BY <1>2 DEF InsertUrls, NextElement
    <3> QED
      BY <1>g, <3>1
  <2>3. Bare = {slug} /\ \A q \in Requests \ {r} : ~Past(q)
    BY <2>1 DEF OneRun, Past
  <2>4. Bare' = {}
    BY <2>1, <2>3 DEF Bare, OneRun
  <2>5. works'[ProjectSeed[1]] # "absent"
    BY <2>1, <2>3, SlugsAreStored DEF OneRun
  <2>6. works' \in [Works -> {"absent", "old", "bare", "linked"}]
    BY <2>1 DEF OneRun
  <2>7. \A q \in Requests : Past(q)' => q = r
    BY <1>q, <2>3
  <2>8. \A q \in Requests : pc'[q] # "urls"
    BY <2>2, <2>7 DEF Past
  <2> QED
    BY <2>1, <2>4, <2>5, <2>6, <2>7, <2>8 DEF OneRun
<1>3. CASE ~InsertWork(r) /\ ~InsertUrls(r)
  <2>1. UNCHANGED works /\ ~Past(r)' /\ Bare' = Bare
    BY <1>3, OtherSteps DEF Bare
  <2> QED
    BY <1>q, <2>1 DEF OneRun, Past
<1> QED
  BY <1>1, <1>2, <1>3

\* What has no urls in every state: the slug of the only run past the first.
LEMMA OneRunHolds == SeedsSpec => []OneRun
<1>1. Init => OneRun
  <2> SUFFICES ASSUME Init PROVE OneRun
    OBVIOUS
  <2>1. works \in [Works -> {"absent", "old"}] /\ pc = [r \in Requests |-> "idle"]
    BY DEF Init, DeskInit, ReviewInit
  <2>2. Bare = {} /\ \A r \in Requests : ~Past(r)
    BY <2>1 DEF Bare, Past
  <2>3. ProjectSeed[1] \in Works
    BY SlugsAreStored
  <2> QED
    BY <2>1, <2>2, <2>3 DEF OneRun
<1>2. Inv /\ OneRun /\ [NextStep]_vars => OneRun'
  <2> SUFFICES ASSUME Inv, OneRun, [NextStep]_vars PROVE OneRun'
    OBVIOUS
  <2>1. CASE UNCHANGED vars
    <3>1. UNCHANGED <<works, pc, place>>
      BY <2>1 DEF vars, reviewVars, desk, seedVars
    <3> QED
      BY <3>1 DEF OneRun, Bare, Past
  <2> QED
    BY <2>1, StepKeepsOneRun DEF NextStep, Idle
<1> QED
  BY <1>1, <1>2, InvHolds, PTL DEF SeedsSpec

(***************************************************************************)
(* For any number of runs of seed-projects, overlapping or stopped by a    *)
(* failure, at most one project is left without its urls.                  *)
(***************************************************************************)
THEOREM AtMostOneBareCorrect == SeedsSpec => []AtMostOneBare
<1>1. OneRun => AtMostOneBare
  <2> SUFFICES ASSUME OneRun PROVE Cardinality(Bare) <= 1
    BY DEF AtMostOneBare, Bare
  <2>1. PICK w \in Works : Bare \subseteq {w}
    BY DEF OneRun
  <2>2. Bare = {} \/ Bare = {w}
    BY <2>1
  <2> QED
    BY <2>2, FS_EmptySet, FS_Singleton
<1> QED
  BY <1>1, OneRunHolds, PTL

-----------------------------------------------------------------------------
(***************************************************************************)
(* One request at a time.                                                  *)
(***************************************************************************)
OpenOnes == {q \in Requests : Open(q)}
OneAtATime == IsFiniteSet(OpenOnes) /\ \A q, r \in OpenOnes : q = r

\* What the toggle of r has read of its review is still so.
Current(r) ==
  pc[r] \in {"save", "write", "insert"} /\ target[r] \in ReviewIds =>
    /\ pc[r] # "insert" /\ Stored(target[r])
    /\ entity[r] = Flip(reviews[target[r]])

\* A request that has not begun has stored no review.
Unborn(r) == pc[r] = "idle" => \A k \in Samples : ~Stored(<<r, k>>)

\* A removed review is not there, and who stored it has come to an end.
Gone(r) ==
  pc[r] = "removed" =>
    /\ target[r] \in ReviewIds /\ ~Stored(target[r])
    /\ \A q \in Requests, k \in Samples : target[r] = <<q, k>> => pc[q] \in Done

SerialInv == Serial => OneAtATime /\ \A r \in Requests : Current(r) /\ Unborn(r) /\ Gone(r)

\* The answers and statements that no property here is about.
Elsewhere == Labels \ {"idle", "save", "write", "insert", "saved", "removed"}

\* Who acts has begun, or begins when the load lets it, and asks for no other.
LEMMA Begins ==
  ASSUME Inv, NEW r \in Requests, Step(r)
  PROVE  /\ load' = load
         /\ pc[r] \notin Done
         /\ pc[r] = "idle" => Cardinality(OpenOnes) < load.atOnce
<1> DEFINE Good == /\ load' = load
                   /\ pc[r] \notin Done
                   /\ pc[r] = "idle" => Cardinality(OpenOnes) < load.atOnce
<1>1. ASSUME NEW service, CanStart(r, service) PROVE pc[r] = "idle" /\ Cardinality(OpenOnes) < load.atOnce
  BY <1>1 DEF CanStart, OpenOnes
<1>2. "idle" \notin Done
  BY DEF Done
<1>3. CASE SeedStep(r)
  <2>1. load' = load
    BY <1>3 DEF SeedStep, SeedSuperuser, ChangePassword, InsertSuperuser, StartProjectSeed,
       StartReviewSeed, InsertWork, InsertUrls, InsertReview, InsertSeedComments, OnlyLocals
  <2>2. CASE SeedSuperuser(r) \/ StartProjectSeed(r) \/ StartReviewSeed(r)
    BY <1>1, <1>2, <2>1, <2>2 DEF SeedSuperuser, StartProjectSeed, StartReviewSeed
  <2>3. CASE ~(SeedSuperuser(r) \/ StartProjectSeed(r) \/ StartReviewSeed(r))
    <3>1. pc[r] \in {"change", "new", "work", "urls", "review", "seedComments"}
      BY <1>3, <2>3 DEF SeedStep, ChangePassword, InsertSuperuser, InsertWork, InsertUrls,
         InsertReview, InsertSeedComments
    <3> QED
      BY <2>1, <3>1 DEF Done
  <2> QED
    BY <2>2, <2>3
<1>4. CASE ReviewStep(r)
  <2>1. CASE ReviewArrives(r)
    <3>1. load' = load /\ \E service : CanStart(r, service)
      BY <2>1 DEF ReviewArrives, Create, ToggleApproval, Remove, AddComment, FindAllApproved,
         FindAllForAdmin, FindAll, ListComments
    <3> QED
      BY <1>1, <1>2, <3>1
  <2>2. CASE ReviewStep(r) /\ ~ReviewArrives(r)
    <3>1. load' = load
      BY <2>2 DEF ReviewStep, InsertComment, Count, ReadComments, CountComments, CountRows, Fail
    <3>2. pc[r] \in {"save", "write", "insert", "comment", "count", "comments", "countComments"} \/ Open(r)
      BY <2>2 DEF ReviewStep, InsertComment, Count, ReadComments, CountComments, Fail, Saved!Save,
         Saved!Compare, Saved!Write, Saved!Insert
    <3> QED
      BY <3>1, <3>2 DEF Done, Open
  <2> QED
    BY <1>4, <2>1, <2>2
<1>5. CASE DeskStep(r) /\ ~ReviewStep(r)
  <2>1. load' = load
    BY <1>5 DEF DeskStep, UpdateStatus, FindAllContacts, CountLetters, CountRows, GetAdminStats, AnswerFigure
  <2>2. \/ \E service : CanStart(r, service)
        \/ pc[r] \in {"save", "write", "insert", "countLetters", "stats"}
    BY <1>5 DEF DeskStep, UpdateStatus, FindAllContacts, CountLetters, GetAdminStats, AnswerFigure,
       InboxSaved!Save, InboxSaved!Compare, InboxSaved!Write, InboxSaved!Insert
  <2> QED
    BY <1>1, <1>2, <2>1, <2>2 DEF Done
<1> QED
  BY <1>3, <1>4, <1>5 DEF Step

\* The steps that store or remove reviews, or save one or a contact.
LEMMA Kinds ==
  ASSUME Inv, NEW r \in Requests, Step(r)
  PROVE  \/ UNCHANGED <<reviews, contacts>> /\ \E label \in Elsewhere : Goto(r, label)
         \/ UNCHANGED contacts /\ (Create(r) \/ InsertReview(r))
         \/ UNCHANGED contacts /\ \E p \in ReviewIds : ToggleApproval(r, p) \/ Remove(r, p)
         \/ UNCHANGED <<reviews, contacts>> /\ \E l \in Letters : UpdateStatus(r, l)
         \/ UNCHANGED contacts /\ Saved!Save(r)
         \/ UNCHANGED reviews /\ InboxSaved!Save(r)
<1> DEFINE Quietly == UNCHANGED <<reviews, contacts>> /\ \E label \in Elsewhere : Goto(r, label)
<1>e. Elsewhere = (Free \ {"saved", "removed"}) \cup {"comment", "comments", "countComments",
                     "count", "countLetters", "listed", "work", "urls", "review", "seedComments"}
  BY DEF Elsewhere, Labels, Free
<1>1. ASSUME SeedSuperuser(r) \/ ChangePassword(r) \/ InsertSuperuser(r) PROVE Quietly
  BY <1>1, <1>e DEF SeedSuperuser, ChangePassword, InsertSuperuser, OnlyLocals, Answered, Free
<1>2. ASSUME StartProjectSeed(r) \/ StartReviewSeed(r) PROVE Quietly
  BY <1>2, <1>e DEF StartProjectSeed, StartReviewSeed, OnlyLocals, Free
<1>3. ASSUME InsertWork(r) \/ InsertUrls(r) PROVE Quietly
  BY <1>3, <1>e DEF InsertWork, InsertUrls, NextElement, OnlyLocals, Answered, Free
<1>4. ASSUME InsertSeedComments(r) PROVE Quietly
  BY <1>4, <1>e DEF InsertSeedComments, NextElement, desk, Free
<1>5. ASSUME InsertReview(r) PROVE UNCHANGED contacts
  BY <1>5 DEF InsertReview, desk
<1>6. ASSUME NEW p \in ReviewIds, AddComment(r, p), UNCHANGED desk PROVE Quietly
  BY <1>6, <1>e DEF AddComment, tables, desk, Free
<1>7. ASSUME NEW page, NEW filter, FindAll(r, filter, page), UNCHANGED desk PROVE Quietly
  BY <1>7, <1>e DEF FindAll, ReadPage, tables, desk
<1>8. ASSUME NEW p \in ReviewIds, NEW page, ListComments(r, p, page), UNCHANGED desk PROVE Quietly
  BY <1>8, <1>e DEF ListComments, tables, desk, Free
<1>9. ASSUME InsertComment(r) \/ Count(r) \/ ReadComments(r) \/ CountComments(r) \/ Fail(r), UNCHANGED desk
      PROVE  Quietly
  BY <1>9, <1>e DEF InsertComment, Count, ReadComments, CountComments, CountRows, ReadPage, Fail,
     Answered, tables, desk, Free
<1>10. ASSUME ReviewStep(r), UNCHANGED desk
       PROVE  \/ Quietly
              \/ UNCHANGED contacts /\ Create(r)
              \/ UNCHANGED contacts /\ \E p \in ReviewIds : ToggleApproval(r, p) \/ Remove(r, p)
              \/ UNCHANGED contacts /\ Saved!Save(r)
  <2>1. UNCHANGED contacts
    BY <1>10 DEF desk
  <2> QED
    BY <1>6, <1>7, <1>8, <1>9, <1>10, <2>1 DEF ReviewStep, ReviewArrives, FindAllApproved, FindAllForAdmin
<1>11. ASSUME NEW page, FindAllContacts(r, page) \/ CountLetters(r) PROVE Quietly
  BY <1>11, <1>e DEF FindAllContacts, CountLetters, CountRows, ReadPage, tables, desk
<1>12. ASSUME NEW figure, GetAdminStats(r) \/ AnswerFigure(r, figure) PROVE Quietly
  BY <1>12, <1>e DEF GetAdminStats, AnswerFigure, tables, desk, Free
<1>13. ASSUME NEW l \in Letters, UpdateStatus(r, l) PROVE UNCHANGED <<reviews, contacts>>
  BY <1>13 DEF UpdateStatus, tables, desk
<1>14. CASE DeskStep(r)
  BY <1>10, <1>11, <1>12, <1>13, <1>14 DEF DeskStep, tables
<1>15. CASE SeedStep(r)
  BY <1>1, <1>2, <1>3, <1>4, <1>5, <1>15 DEF SeedStep
<1> QED
  BY <1>14, <1>15 DEF Step

\* A step of r leaves the others where they are.
LEMMA OthersStay ==
  ASSUME Inv, NEW r \in Requests, Step(r), NEW q \in Requests \ {r}
  PROVE  pc'[q] = pc[q] /\ target'[q] = target[q] /\ entity'[q] = entity[q]
BY StepFits DEF Fits, OthersWait

LEMMA ActsAlone ==
  ASSUME Inv, Serial, OneAtATime, NEW r \in Requests, Step(r), NEW q \in Requests \ {r}
  PROVE  ~Open(q)
<1>1. CASE pc[r] = "idle"
  <2>1. IsFiniteSet(OpenOnes) /\ Cardinality(OpenOnes) < 1
    BY <1>1, Begins DEF OneAtATime, Serial
  <2>2. Cardinality(OpenOnes) = 0
    BY <2>1, FS_CardinalityType
  <2>3. OpenOnes = {}
    BY <2>1, <2>2, FS_EmptySet
  <2> QED
    BY <2>3 DEF OpenOnes
<1>2. CASE pc[r] # "idle"
  <2>1. r \in OpenOnes
    BY <1>2, Begins DEF OpenOnes, Open
  <2> QED
    BY <2>1 DEF OneAtATime, OpenOnes
<1> QED
  BY <1>1, <1>2

LEMMA StepOneAtATime ==
  ASSUME Inv, Serial, OneAtATime, NEW r \in Requests, Step(r)
  PROVE  OneAtATime'
<1>1. OpenOnes' \subseteq {r}
  BY ActsAlone, OthersStay DEF OpenOnes, Open
<1> QED
  BY <1>1, FS_Singleton, FS_Subset DEF OneAtATime

\* A save that is under way, in a load where nobody else is.
LEMMA StepSaves ==
  ASSUME Inv, NEW r \in Requests, Current(r), Unborn(r), Saved!Save(r)
  PROVE  /\ target' = target /\ entity' = entity
         /\ target[r] \in ReviewIds /\ Stored(target[r]) /\ pc[r] \in {"save", "write"}
         /\ entity[r] = Flip(reviews[target[r]])
         /\ \/ reviews' = reviews /\ pc' = [pc EXCEPT ![r] = "write"]
            \/ /\ reviews' = [reviews EXCEPT ![target[r]] = entity[r]]
               /\ \E answer \in {"saved", "error"} : pc' = [pc EXCEPT ![r] = answer]
<1>t. Types
  BY DEF Inv
<1>1. /\ pc[r] \in {"save", "write", "insert"} /\ target[r] \in ReviewIds
      /\ UNCHANGED <<target, entity>>
  BY <1>t DEF Saved!Save, Saved!Compare, Saved!Write, Saved!Insert, Saved!IsHere, Saved!Put, Types
<1>2. /\ pc[r] # "insert" /\ Stored(target[r])
      /\ entity[r] = Flip(reviews[target[r]])
  BY <1>1 DEF Current
<1>3. reviews[target[r]] \in {"waiting", "listed"}
  BY <1>t, <1>1, <1>2 DEF Types, States, Stored
<1>4. entity[r] # reviews[target[r]]
  BY <1>2, <1>3 DEF Flip
<1>5. CASE Saved!Compare(r)
  BY <1>1, <1>2, <1>4, <1>5 DEF Saved!Compare, Saved!Goto, Stored
<1>6. CASE Saved!Write(r)
  BY <1>1, <1>2, <1>6 DEF Saved!Write, Saved!Put, Saved!Goto, Stored
<1>7. ~Saved!Insert(r)
  BY <1>2 DEF Saved!Insert
<1> QED
  BY <1>1, <1>2, <1>5, <1>6, <1>7 DEF Saved!Save

\* The save of a contact: no contact is ever away.
LEMMA StepSavesLetter ==
  ASSUME Inv, contacts \in [Letters -> Statuses], NEW r \in Requests, InboxSaved!Save(r)
  PROVE  /\ target' = target /\ entity' = entity /\ target[r] \in Letters
         /\ \/ /\ contacts' = contacts
               /\ \/ \E label \in {"write", "broken"} : pc' = [pc EXCEPT ![r] = label]
                  \/ pc' = [pc EXCEPT ![r] = "saved"] /\ contacts[target[r]] = entity[r]
            \/ /\ contacts' = [contacts EXCEPT ![target[r]] = entity[r]]
               /\ \E answer \in {"saved", "error"} : pc' = [pc EXCEPT ![r] = answer]
<1>1. target[r] \in Letters /\ UNCHANGED <<target, entity>>
  BY DEF InboxSaved!Save, InboxSaved!Compare, InboxSaved!Write, InboxSaved!Insert,
     InboxSaved!IsHere, InboxSaved!Put
<1>2. contacts[target[r]] # "gone"
  BY <1>1 DEF Statuses
<1>3. CASE InboxSaved!Compare(r)
  BY <1>1, <1>2, <1>3 DEF InboxSaved!Compare, InboxSaved!Goto
<1>4. CASE InboxSaved!Write(r)
  BY <1>1, <1>2, <1>4 DEF InboxSaved!Write, InboxSaved!Put, InboxSaved!Goto
<1>5. CASE InboxSaved!Insert(r)
  BY <1>1, <1>2, <1>5 DEF InboxSaved!Insert, InboxSaved!Goto
<1> QED
  BY <1>1, <1>3, <1>4, <1>5 DEF InboxSaved!Save

\* What r itself knows after its step.
LEMMA StepCurrent ==
  ASSUME Inv, contacts \in [Letters -> Statuses], NEW r \in Requests, Step(r), Current(r), Unborn(r)
  PROVE  Current(r)' /\ pc'[r] # "idle"
<1>t. Types /\ pc \in [Requests -> Labels]
  BY DEF Inv, Types
<1>g. ASSUME NEW label, Goto(r, label) PROVE pc'[r] = label
  BY <1>t, <1>g DEF Goto
<1>h. ASSUME NEW label \in (Elsewhere \cup {"created", "removed", "saved", "error"}), Goto(r, label)
      PROVE  Current(r)' /\ pc'[r] # "idle"
  BY <1>g, <1>h DEF Current, Elsewhere
<1>1. CASE Create(r) \/ InsertReview(r)
  <2>1. \E label \in {"created", "error", "review", "seedComments", "seeded"} : Goto(r, label)
    BY <1>1 DEF Create, InsertReview, NextElement, Answered
  <2> QED
    BY <1>h, <2>1 DEF Elsewhere, Labels, Free
<1>2. ASSUME NEW p \in ReviewIds, ToggleApproval(r, p) PROVE Current(r)' /\ pc'[r] # "idle"
  <2>1. CASE ~Stored(p)
    BY <1>2, <1>h, <2>1 DEF ToggleApproval, Elsewhere, Labels, Free
  <2>2. CASE Stored(p)
    <3>1. /\ pc'[r] = "save" /\ target'[r] = p /\ reviews' = reviews
          /\ entity'[r] = Flip(reviews[p])
      BY <1>2, <1>g, <1>t, <2>2 DEF ToggleApproval, Types, tables
    <3> QED
      BY <2>2, <3>1 DEF Current, Stored
  <2> QED
    BY <2>1, <2>2
<1>3. ASSUME NEW p \in ReviewIds, Remove(r, p) PROVE Current(r)' /\ pc'[r] # "idle"
  <2>1. \E label \in {"removed", "error", "notFound"} : Goto(r, label)
    BY <1>3 DEF Remove, Answered
  <2> QED
    BY <1>h, <2>1 DEF Elsewhere, Labels, Free
<1>4. ASSUME NEW l \in Letters, UpdateStatus(r, l) PROVE Current(r)' /\ pc'[r] # "idle"
  <2>1. pc'[r] = "save" /\ target'[r] = l
    BY <1>4, <1>g, <1>t DEF UpdateStatus, Types
  <2> QED
    BY <2>1, LettersAreNoReviews DEF Current
<1>5. CASE Saved!Save(r)
  <2>1. /\ target' = target /\ entity' = entity
        /\ Stored(target[r]) /\ entity[r] = Flip(reviews[target[r]])
        /\ \/ reviews' = reviews /\ pc' = [pc EXCEPT ![r] = "write"]
           \/ \E answer \in {"saved", "error"} : pc' = [pc EXCEPT ![r] = answer]
    BY <1>5, StepSaves
  <2>2. CASE \E answer \in {"saved", "error"} : pc' = [pc EXCEPT ![r] = answer]
    BY <1>h, <2>2 DEF Goto
  <2>3. CASE reviews' = reviews /\ pc' = [pc EXCEPT ![r] = "write"]
    BY <1>g, <2>1, <2>3 DEF Goto, Current, Stored
  <2> QED
    BY <2>1, <2>2, <2>3
<1>6. CASE InboxSaved!Save(r)
  <2>1. target'[r] \in Letters /\ pc'[r] \in {"write", "saved", "broken", "error"}
    BY <1>6, <1>g, StepSavesLetter DEF Goto
  <2> QED
    BY <2>1, LettersAreNoReviews DEF Current
<1> QED
  BY <1>1, <1>2, <1>3, <1>4, <1>5, <1>6, <1>h, Kinds

\* Which reviews a step can bring in: those of its request.
LEMMA StoresOwn ==
  ASSUME Inv, NEW r \in Requests, Step(r), Current(r), Unborn(r),
         NEW p \in ReviewIds, ~Stored(p), Stored(p)'
  PROVE  \E k \in Samples : p = <<r, k>>
<1>t. reviews \in [ReviewIds -> States \cup {"absent"}] /\ LocalsFit(r)
  BY DEF Inv, Types
<1>1. CASE Create(r)
  BY <1>t, <1>1, FirstSample DEF Create, Stored
<1>2. CASE InsertReview(r)
  <2>1. place[r] \in Samples
    BY <1>t, <1>2, SeedsAreSamples DEF InsertReview, LocalsFit
  <2>2. p = <<r, place[r]>>
    BY <1>t, <1>2 DEF InsertReview, Stored
  <2> QED
    BY <2>1, <2>2
<1>3. CASE UNCHANGED reviews
  BY <1>3 DEF Stored
<1>4. ASSUME NEW q \in ReviewIds, ToggleApproval(r, q) PROVE UNCHANGED reviews
  BY <1>4 DEF ToggleApproval, tables
<1>5. ASSUME NEW q \in ReviewIds, Remove(r, q) PROVE FALSE
  BY <1>t, <1>5 DEF Remove, Stored, tables
<1>6. CASE Saved!Save(r)
  <2>1. Stored(target[r]) /\ (reviews' = reviews \/ reviews' = [reviews EXCEPT ![target[r]] = entity[r]])
    BY <1>6, StepSaves
  <2> QED
    BY <1>t, <2>1 DEF Stored
<1> QED
  BY <1>1, <1>2, <1>3, <1>4, <1>5, <1>6, Kinds

\* A review is removed by one statement, when r begins.
LEMMA Removes ==
  ASSUME Inv, contacts \in [Letters -> Statuses], NEW r \in Requests, Step(r), Current(r), Unborn(r),
         pc'[r] = "removed"
  PROVE  \E p \in ReviewIds : Remove(r, p) /\ Stored(p)
<1>t. pc \in [Requests -> Labels]
  BY DEF Inv, Types
<1>g. ASSUME NEW label, Goto(r, label) PROVE label = "removed"
  BY <1>t, <1>g DEF Goto
<1>1. CASE Create(r) \/ InsertReview(r)
  BY <1>1, <1>g DEF Create, InsertReview, NextElement, Answered
<1>2. ASSUME NEW p \in ReviewIds, ToggleApproval(r, p) PROVE FALSE
  BY <1>2, <1>g DEF ToggleApproval
<1>3. ASSUME NEW p \in ReviewIds, Remove(r, p), ~Stored(p) PROVE FALSE
  BY <1>3, <1>g DEF Remove
<1>4. ASSUME NEW l \in Letters, UpdateStatus(r, l) PROVE FALSE
  BY <1>4, <1>g DEF UpdateStatus
<1>5. ~Saved!Save(r)
  BY <1>g, StepSaves DEF Goto
<1>6. ~InboxSaved!Save(r)
  BY <1>g, StepSavesLetter DEF Goto
<1>7. ~\E label \in Elsewhere : Goto(r, label)
  BY <1>g DEF Elsewhere
<1> QED
  BY <1>1, <1>2, <1>3, <1>4, <1>5, <1>6, <1>7, Kinds

-----------------------------------------------------------------------------
\* The status an inbox request saves is one.
Desk ==
  /\ contacts \in [Letters -> Statuses]
  /\ \A r \in Requests :
       pc[r] \in {"save", "write", "insert"} /\ target[r] \in Letters => entity[r] \in Statuses

LEMMA StepDesk ==
  ASSUME Inv, Desk, NEW r \in Requests, Step(r)
  PROVE  Desk'
<1>t. Types /\ pc \in [Requests -> Labels] /\ LocalsFit(r)
  BY DEF Inv, Types
<1>g. ASSUME NEW label, Goto(r, label) PROVE pc'[r] = label
  BY <1>t, <1>g DEF Goto
<1>o. ASSUME contacts' \in [Letters -> Statuses],
             pc'[r] \in {"save", "write", "insert"} /\ target'[r] \in Letters => entity'[r] \in Statuses
      PROVE  Desk'
  BY <1>o, OthersStay DEF Desk
<1>h. ASSUME NEW label \in (Elsewhere \cup {"created", "removed", "saved", "error"}), Goto(r, label),
             contacts' = contacts
      PROVE  Desk'
  BY <1>g, <1>h, <1>o DEF Elsewhere, Desk
<1>1. CASE contacts' = contacts /\ (Create(r) \/ InsertReview(r))
  <2>1. \E label \in {"created", "error", "review", "seedComments", "seeded"} : Goto(r, label)
    BY <1>1 DEF Create, InsertReview, NextElement, Answered
  <2> QED
    BY <1>1, <1>h, <2>1 DEF Elsewhere, Labels, Free
<1>2. ASSUME NEW p \in ReviewIds, ToggleApproval(r, p), contacts' = contacts PROVE Desk'
  <2>1. target'[r] = p
    BY <1>2, <1>t DEF ToggleApproval, Types
  <2> QED
    BY <1>2, <1>o, <2>1, LettersAreNoReviews DEF Desk
<1>3. ASSUME NEW p \in ReviewIds, Remove(r, p), contacts' = contacts PROVE Desk'
  <2>1. target'[r] = p
    BY <1>3, <1>t DEF Remove, Types
  <2> QED
    BY <1>3, <1>o, <2>1, LettersAreNoReviews DEF Desk
<1>4. ASSUME NEW l \in Letters, UpdateStatus(r, l), contacts' = contacts PROVE Desk'
  <2>1. entity'[r] \in Statuses
    BY <1>4, <1>t DEF UpdateStatus, Types
  <2> QED
    BY <1>4, <1>o, <2>1 DEF Desk
<1>5. CASE contacts' = contacts /\ Saved!Save(r)
  <2>1. target[r] \in ReviewIds /\ target' = target
    BY <1>5, <1>t DEF Saved!Save, Saved!Compare, Saved!Write, Saved!Insert, Saved!IsHere, Saved!Put, Types
  <2> QED
    BY <1>5, <1>o, <2>1, LettersAreNoReviews DEF Desk
<1>6. CASE InboxSaved!Save(r)
  <2>1. /\ target' = target /\ entity' = entity /\ target[r] \in Letters
        /\ contacts' \in {contacts, [contacts EXCEPT ![target[r]] = entity[r]]}
    BY <1>6, StepSavesLetter DEF Desk
  <2>2. entity[r] \in Statuses
    BY <1>6, <2>1 DEF Desk, InboxSaved!Save, InboxSaved!Compare, InboxSaved!Write, InboxSaved!Insert
  <2> QED
    BY <1>o, <2>1, <2>2 DEF Desk
<1> QED
  BY <1>1, <1>2, <1>3, <1>4, <1>5, <1>6, <1>h, Kinds

LEMMA InitSerial == Init => Desk /\ SerialInv
<1> SUFFICES ASSUME Init PROVE Desk /\ SerialInv
  OBVIOUS
<1>1. PICK start \in [Existing -> States] :
        reviews = [p \in ReviewIds |-> IF p \in Existing THEN start[p] ELSE "absent"]
  BY DEF Init, DeskInit, ReviewInit, States
<1>2. /\ \A r \in Requests : pc[r] = "idle"
      /\ contacts \in [Letters -> Statuses]
  BY DEF Init, DeskInit, ReviewInit
<1>3. OpenOnes = {}
  BY <1>2 DEF OpenOnes, Open
<1>4. \A r \in Requests, k \in Samples : <<r, k>> \in ReviewIds /\ <<r, k>> \notin Existing
  BY NewReviewsAreNew DEF ReviewIds
<1>5. \A r \in Requests : Unborn(r)
  BY <1>1, <1>4 DEF Unborn, Stored
<1> QED
  BY <1>2, <1>3, <1>5, FS_EmptySet DEF Desk, SerialInv, OneAtATime, Current, Gone

LEMMA StepUnborn ==
  ASSUME Inv, Desk, NEW r \in Requests, Step(r), Current(r), Unborn(r),
         NEW q \in Requests, Unborn(q)
  PROVE  Unborn(q)'
<1> SUFFICES ASSUME pc'[q] = "idle", NEW k \in Samples PROVE ~Stored(<<q, k>>)'
  BY DEF Unborn
<1>1. q # r
  BY StepCurrent DEF Desk
<1>2. pc[q] = "idle" /\ <<q, k>> \in ReviewIds
  BY <1>1, OthersStay DEF ReviewIds
<1>3. ~Stored(<<q, k>>)
  BY <1>2 DEF Unborn
<1>4. \A j \in Samples : <<q, k>> # <<r, j>>
  BY <1>1
<1> QED
  BY <1>2, <1>3, <1>4, StoresOwn

LEMMA StepGone ==
  ASSUME Inv, Desk, Serial, SerialInv, NEW r \in Requests, Step(r), NEW q \in Requests
  PROVE  Gone(q)'
<1> SUFFICES ASSUME pc'[q] = "removed" PROVE Gone(q)'
  BY DEF Gone
<1>t. /\ Types /\ OneAtATime
      /\ \A u \in Requests : Current(u) /\ Unborn(u) /\ Gone(u)
  BY DEF Inv, SerialInv
<1>1. CASE q = r
  <2>1. PICK p \in ReviewIds : Remove(r, p) /\ Stored(p)
    BY <1>1, <1>t, Removes DEF Desk
  <2>2. target'[r] = p /\ ~Stored(p)'
    BY <1>t, <2>1 DEF Remove, Types, Stored, tables
  <2>3. ASSUME NEW u \in Requests, NEW k \in Samples, p = <<u, k>> PROVE pc'[u] \in Done
    <3>1. CASE u = r
      BY <1>1, <3>1 DEF Done
    <3>2. CASE u # r
      <4>1. pc[u] # "idle"
        BY <1>t, <2>1, <2>3 DEF Unborn
      <4>2. ~Open(u)
        BY <1>t, <3>2, ActsAlone
      <4> QED
        BY <3>2, <4>1, <4>2, OthersStay DEF Open
    <3> QED
      BY <3>1, <3>2
  <2> QED
    BY <1>1, <2>2, <2>3 DEF Gone, Stored
<1>2. CASE q # r
  <2>1. pc[q] = "removed" /\ target'[q] = target[q]
    BY <1>2, OthersStay
  <2>2. /\ target[q] \in ReviewIds /\ ~Stored(target[q])
        /\ \A u \in Requests, k \in Samples : target[q] = <<u, k>> => pc[u] \in Done
    BY <1>t, <2>1 DEF Gone
  <2>3. \A u \in Requests : pc[u] \in Done => u # r /\ pc'[u] = pc[u]
    BY Begins, OthersStay
  <2>4. PICK m \in ReviewIds : m = target[q]
    BY <2>2
  <2>5. ~Stored(m)'
    <3>1. ~Stored(m) /\ \A k \in Samples : m # <<r, k>>
      BY <2>2, <2>3, <2>4
    <3> QED
      BY <1>t, <3>1, StoresOwn
  <2>6. ~Stored(target[q])'
    BY <2>1, <2>4, <2>5 DEF Stored
  <2> QED
    BY <2>1, <2>2, <2>3, <2>6 DEF Gone, Stored
<1> QED
  BY <1>1, <1>2

\* While the clients send one request after the other, what each has read is so.
LEMMA StepSerial ==
  ASSUME Inv, Desk, SerialInv, NEW r \in Requests, Step(r)
  PROVE  SerialInv'
<1>1. Serial' = Serial
  BY Begins DEF Serial
<1> SUFFICES ASSUME Serial PROVE SerialInv'
  BY <1>1 DEF SerialInv
<1>2. OneAtATime /\ \A u \in Requests : Current(u) /\ Unborn(u) /\ Gone(u)
  BY DEF SerialInv
<1>3. OneAtATime'
  BY <1>2, StepOneAtATime
<1>4. ASSUME NEW q \in Requests \ {r} PROVE Current(q)'
  <2>1. ~Open(q) /\ pc'[q] = pc[q]
    BY <1>2, ActsAlone, OthersStay
  <2> QED
    BY <2>1 DEF Open, Done, Current
<1>5. Current(r)'
  BY <1>2, StepCurrent DEF Desk
<1>6. \A q \in Requests : Unborn(q)' /\ Gone(q)'
  BY <1>2, StepUnborn, StepGone
<1> QED
  BY <1>3, <1>4, <1>5, <1>6 DEF SerialInv

LEMMA SerialHolds == SeedsSpec => [](Inv /\ Desk /\ SerialInv)
<1>1. Inv /\ Desk /\ SerialInv /\ [NextStep]_vars => (Desk /\ SerialInv)'
  <2> SUFFICES ASSUME Inv, Desk, SerialInv, [NextStep]_vars PROVE (Desk /\ SerialInv)'
    OBVIOUS
  <2>1. CASE UNCHANGED vars
    <3>1. UNCHANGED <<reviews, pc, target, entity, contacts, load>>
      BY <2>1 DEF vars, reviewVars, tables, locals, desk
    <3>2. Serial' = Serial /\ OpenOnes' = OpenOnes
      BY <3>1 DEF Serial, OpenOnes, Open
    <3>3. \A r \in Requests : /\ Current(r)' = Current(r)
                              /\ Unborn(r)' = Unborn(r)
                              /\ Gone(r)' = Gone(r)
      BY <3>1 DEF Current, Unborn, Gone, Stored
    <3> QED
      BY <3>1, <3>2, <3>3 DEF Desk, SerialInv, OneAtATime
  <2>2. ASSUME NEW r \in Requests, Step(r) PROVE (Desk /\ SerialInv)'
    BY <2>2, StepDesk, StepSerial
  <2> QED
    BY <2>1, <2>2 DEF NextStep, Idle
<1> QED
  BY <1>1, InitSerial, InvHolds, PTL DEF SeedsSpec

(***************************************************************************)
(* A review whose DELETE was answered with 204 stays away, as long as the  *)
(* clients send one request after the other: no toggle, seed or create     *)
(* stores it again.                                                        *)
(***************************************************************************)
THEOREM RemovalCorrect == SeedsSpec => []RemovedStaysRemoved
<1>1. SerialInv => RemovedStaysRemoved
  BY DEF SerialInv, Gone, RemovedStaysRemoved
<1> QED
  BY <1>1, SerialHolds, PTL

\* The save of r, in a load where nobody else is, does what was asked.
LEMMA SaveTakesEffect ==
  ASSUME Inv, Desk, Serial, SerialInv, NEW r \in Requests, Step(r),
         pc'[r] = "saved"
  PROVE  IF target[r] \in Letters
         THEN contacts'[target[r]] = entity[r]
         ELSE {reviews[target[r]], reviews'[target[r]]} = {"waiting", "listed"}
<1>t. Types /\ pc \in [Requests -> Labels] /\ Current(r) /\ Unborn(r)
  BY DEF Inv, Types, SerialInv
<1>g. ASSUME NEW label, Goto(r, label) PROVE label = "saved"
  BY <1>t, <1>g DEF Goto
<1>1. ~Create(r) /\ ~InsertReview(r)
  BY <1>g DEF Create, InsertReview, NextElement, Answered
<1>2. ~\E p \in ReviewIds : ToggleApproval(r, p) \/ Remove(r, p)
  BY <1>g DEF ToggleApproval, Remove, Answered
<1>3. ~\E l \in Letters : UpdateStatus(r, l)
  BY <1>g DEF UpdateStatus
<1>4. ~\E label \in Elsewhere : Goto(r, label)
  BY <1>g DEF Elsewhere
<1>5. CASE Saved!Save(r)
  <2>1. /\ target[r] \in ReviewIds /\ Stored(target[r])
        /\ entity[r] = Flip(reviews[target[r]])
        /\ \/ reviews' = reviews /\ pc' = [pc EXCEPT ![r] = "write"]
           \/ reviews' = [reviews EXCEPT ![target[r]] = entity[r]]
    BY <1>t, <1>5, StepSaves
  <2>2. reviews' = [reviews EXCEPT ![target[r]] = entity[r]]
    BY <1>g, <2>1 DEF Goto
  <2>3. reviews[target[r]] \in {"waiting", "listed"}
    BY <1>t, <2>1 DEF Types, States, Stored
  <2>4. reviews'[target[r]] = Flip(reviews[target[r]])
    BY <1>t, <2>1, <2>2 DEF Types
  <2> QED
    BY <2>1, <2>3, <2>4, LettersAreNoReviews DEF Flip
<1>6. CASE InboxSaved!Save(r)
  <2>1. /\ target[r] \in Letters
        /\ \/ /\ contacts' = contacts
              /\ \/ \E label \in {"write", "broken"} : pc' = [pc EXCEPT ![r] = label]
                 \/ contacts[target[r]] = entity[r]
           \/ contacts' = [contacts EXCEPT ![target[r]] = entity[r]]
    BY <1>6, StepSavesLetter DEF Desk
  <2>2. ~\E label \in {"write", "broken"} : pc' = [pc EXCEPT ![r] = label]
    BY <1>g DEF Goto
  <2> QED
    BY <2>1, <2>2 DEF Desk
<1> QED
  BY <1>1, <1>2, <1>3, <1>4, <1>5, <1>6, Kinds

(***************************************************************************)
(* As long as the clients send one request after the other, an answered    *)
(* toggleApproval has turned the approval of its review over, and an       *)
(* answered updateStatus has stored the status it was given.               *)
(***************************************************************************)
THEOREM SavesCorrect == SeedsSpec => SavesTakeEffect
<1> DEFINE Effect(r) == IF target[r] \in Letters
                        THEN contacts'[target[r]] = entity[r]
                        ELSE {reviews[target[r]], reviews'[target[r]]} = {"waiting", "listed"}
<1>1. Inv /\ Desk /\ SerialInv /\ [NextStep]_vars
        => [Serial => \A r \in Requests : pc[r] # "saved" /\ pc'[r] = "saved" => Effect(r)]_<<pc, tables, desk>>
  <2> SUFFICES ASSUME Inv, Desk, SerialInv, [NextStep]_vars, Serial,
                      NEW r \in Requests, pc[r] # "saved", pc'[r] = "saved"
               PROVE  Effect(r)
    OBVIOUS
  <2>1. ~UNCHANGED vars
    BY DEF vars, reviewVars
  <2>2. PICK q \in Requests : Step(q)
    BY <2>1 DEF NextStep, Idle
  <2>3. r = q
    BY <2>2, OthersStay
  <2> QED
    BY <2>2, <2>3, SaveTakesEffect
<1> QED
  BY <1>1, SerialHolds, PTL DEF SeedsSpec, SavesTakeEffect

-----------------------------------------------------------------------------
\* The types of what is counted: the tables are finite.
TheRest ==
  /\ superuser \in {None, "owner"} \cup Requests
  /\ \A r \in Requests : counts[r].page \in Pages \cup {1}
  /\ tally \in [Requests -> [Figures -> Nat \cup {Awaited}]]

LEMMA RowsAreCounted ==
  ASSUME IsFiniteSet(ReviewIds), IsFiniteSet(Letters), IsFiniteSet(Works), NEW figure \in Figures
  PROVE  Cardinality(Rows(figure)) \in Nat
<1>1. ActiveWorks \subseteq Works /\ ActiveWorksThisMonth \subseteq Works
  BY PublishedAreWorks DEF ActiveWorks, ActiveWorksThisMonth
<1>2. Matching("waiting") \subseteq ReviewIds
  BY DEF Matching
<1>3. {l \in Letters : contacts[l] = "pending"} \subseteq Letters
  OBVIOUS
<1>4. \/ Rows(figure) \subseteq Works \/ Rows(figure) \subseteq ReviewIds
      \/ Rows(figure) \subseteq Letters
  BY <1>1, <1>2, <1>3 DEF Rows, Figures
<1> QED
  BY <1>4, FS_Subset, FS_CardinalityType

LEMMA StepRest ==
  ASSUME IsFiniteSet(ReviewIds), IsFiniteSet(Letters), IsFiniteSet(Works),
         Inv, TheRest, NEW r \in Requests, Step(r)
  PROVE  TheRest'
<1>t. /\ r \in DOMAIN counts /\ DOMAIN counts = Requests
      /\ DOMAIN counts[r] = {"page", "rows", "total"}
  BY DEF Inv, Types
<1> DEFINE SuperuserTyped == superuser \in {None, "owner"} \cup Requests
           PagesTyped == \A q \in Requests : counts[q].page \in Pages \cup {1}
           TallyTyped == tally \in [Requests -> [Figures -> Nat \cup {Awaited}]]
<1>r. ASSUME NEW page \in Pages \cup {1}, NEW n, NEW counting, ReadPage(r, page, n, counting)
      PROVE  PagesTyped'
  <2>1. PICK rows, total :
          counts' = [counts EXCEPT ![r] = [page |-> page, rows |-> rows, total |-> total]]
    BY <1>r DEF ReadPage
  <2> QED
    BY <1>t, <2>1 DEF TheRest
<1>c. ASSUME NEW n, CountRows(r, n) PROVE PagesTyped'
  <2>1. counts' = [counts EXCEPT ![r] = [counts[r] EXCEPT !.total = n]]
    BY <1>c DEF CountRows
  <2>2. [counts[r] EXCEPT !.total = n].page = counts[r].page
    BY <1>t
  <2> QED
    BY <1>t, <2>1, <2>2 DEF TheRest
<1>k. counts' = counts => PagesTyped'
  BY DEF TheRest
<1>1. CASE SeedStep(r)
  <2>1. SuperuserTyped'
    BY <1>1 DEF SeedStep, SeedSuperuser, ChangePassword, InsertSuperuser, StartProjectSeed,
       StartReviewSeed, InsertWork, InsertUrls, InsertReview, InsertSeedComments, seedVars, TheRest
  <2>2. UNCHANGED <<counts, tally>>
    BY <1>1 DEF SeedStep, SeedSuperuser, ChangePassword, InsertSuperuser, StartProjectSeed,
       StartReviewSeed, InsertWork, InsertUrls, InsertReview, InsertSeedComments, OnlyLocals, locals
  <2> QED
    BY <2>1, <2>2 DEF TheRest
<1>2. CASE DeskStep(r) /\ UNCHANGED seedVars
  <2>1. SuperuserTyped'
    BY <1>2 DEF seedVars, TheRest
  <2>2. CASE ReviewStep(r) /\ UNCHANGED tally
    <3>1. ASSUME NEW page \in Pages, NEW filter, FindAll(r, filter, page) PROVE PagesTyped'
      BY <1>r, <3>1 DEF FindAll
    <3>2. ASSUME NEW p, NEW page \in Pages, ListComments(r, p, page) PROVE PagesTyped'
      <4>1. counts' = [counts EXCEPT ![r] = [counts[r] EXCEPT !.page = page]]
        BY <3>2 DEF ListComments
      <4>2. [counts[r] EXCEPT !.page = page].page = page
        BY <1>t
      <4> QED
        BY <1>t, <4>1, <4>2 DEF TheRest
    <3>3. ASSUME ReadComments(r) PROVE PagesTyped'
      BY <1>r, <3>3 DEF ReadComments, TheRest
    <3>4. ASSUME Count(r) \/ CountComments(r) PROVE PagesTyped'
      BY <1>c, <3>4 DEF Count, CountComments
    <3>5. ASSUME \/ Create(r) \/ InsertComment(r) \/ Fail(r)
                 \/ \E p \in ReviewIds : ToggleApproval(r, p) \/ Remove(r, p) \/ AddComment(r, p)
          PROVE  PagesTyped'
      BY <1>k, <3>5 DEF Create, InsertComment, Fail, ToggleApproval, Remove, AddComment, locals
    <3>6. PagesTyped'
      BY <1>k, <2>2, <3>1, <3>2, <3>3, <3>4, <3>5
         DEF ReviewStep, ReviewArrives, FindAllApproved, FindAllForAdmin
    <3> QED
      BY <2>1, <2>2, <3>6 DEF TheRest
  <2>3. ASSUME NEW figure \in Figures, AnswerFigure(r, figure) PROVE TheRest'
    <3>1. tally' = [tally EXCEPT ![r] = [tally[r] EXCEPT ![figure] = Cardinality(Rows(figure))]]
      BY <2>3 DEF AnswerFigure
    <3>2. TallyTyped'
      BY <3>1, RowsAreCounted DEF TheRest
    <3> QED
      BY <1>k, <2>1, <2>3, <3>2 DEF AnswerFigure, locals, TheRest
  <2>4. ASSUME (\E page \in Pages : FindAllContacts(r, page)) \/ CountLetters(r) PROVE TheRest'
    <3>1. PagesTyped' /\ UNCHANGED tally
      BY <1>r, <1>c, <2>4 DEF FindAllContacts, CountLetters
    <3> QED
      BY <2>1, <3>1 DEF TheRest
  <2>5. ASSUME UNCHANGED <<counts, tally>> PROVE TheRest'
    BY <1>k, <2>1, <2>5 DEF TheRest
  <2>6. (\E l \in Letters : UpdateStatus(r, l)) \/ GetAdminStats(r) => UNCHANGED <<counts, tally>>
    BY DEF UpdateStatus, GetAdminStats, locals
  <2> QED
    BY <1>2, <2>2, <2>3, <2>4, <2>5, <2>6 DEF DeskStep
<1> QED
  BY <1>1, <1>2 DEF Step

(***************************************************************************)
(* In every state the variables have their types: a request saves a status *)
(* that exists and asks for a page that exists, a comment is of a review   *)
(* and numbered as one of its request, and a count is a number.            *)
(***************************************************************************)
THEOREM TypeCorrect ==
  ASSUME IsFiniteSet(ReviewIds), IsFiniteSet(Letters), IsFiniteSet(Works)
  PROVE  SeedsSpec => []SeedsTypeOK
<1>1. Init => TheRest
  <2> SUFFICES ASSUME Init PROVE TheRest
    OBVIOUS
  <2>1. /\ tally = [r \in Requests |-> [f \in Figures |-> Awaited]]
        /\ counts = [r \in Requests |-> [page |-> 1, rows |-> 0, total |-> 0]]
        /\ superuser \in {None, "owner"}
    BY DEF Init, DeskInit, ReviewInit
  <2> QED
    BY <2>1 DEF TheRest
<1>2. Inv /\ TheRest /\ [NextStep]_vars => TheRest'
  <2> SUFFICES ASSUME Inv, TheRest, [NextStep]_vars PROVE TheRest'
    OBVIOUS
  <2>1. CASE UNCHANGED vars
    <3>1. UNCHANGED <<counts, tally, superuser>>
      BY <2>1 DEF vars, reviewVars, locals, seedVars
    <3> QED
      BY <3>1 DEF TheRest
  <2> QED
    BY <2>1, StepRest DEF NextStep, Idle
<1>3. Inv /\ Desk /\ OneRun /\ TheRest => SeedsTypeOK
  <2> SUFFICES ASSUME Inv, Desk, OneRun, TheRest PROVE SeedsTypeOK
    OBVIOUS
  <2>1. ReviewsTypeOK
    BY DEF ReviewsTypeOK, Inv, Types, TheRest, States
  <2> QED
    BY <2>1 DEF SeedsTypeOK, DeskTypeOK, Desk, OneRun, TheRest, Inv, Types
<1> QED
  BY <1>1, <1>2, <1>3, SerialHolds, OneRunHolds, PTL DEF SeedsSpec
=============================================================================
