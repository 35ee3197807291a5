---------------------------- MODULE ProjectStore ----------------------------
(***************************************************************************)
(* What the tables projects and project_urls promise, every operation      *)
(* atomic: the abstract specification that Projects (the handlers of       *)
(* src/src/projects/projects.service.ts, interleaved) is checked to        *)
(* implement.                                                              *)
(***************************************************************************)

CONSTANTS
  Ids,    \* the ids projects can have
  Slugs,
  Links,  \* what a url row shows: a title with a url in lower case
  None    \* NULL: not a slug

VARIABLES
  projects,  \* the rows of projects, by id
  urls       \* the rows of project_urls

\* Of the columns that an update can set, the slug and one other.
Row == [slug : Slugs \cup {None}, published : BOOLEAN]
NoRow == [slug |-> None, published |-> FALSE]

\* A url row has an id of its own: the request that inserted it, which
\* inserts a link at most once, stands for it.
UrlRow == [project : Ids, link : Links, by : Ids]

Stored(p) == projects[p].slug # None
Holders(s) == {p \in Ids : projects[p].slug = s}
UrlsOf(p) == {u \in urls : u.project = p}
LinksOf(p) == {u.link : u \in UrlsOf(p)}

\* A write of one project: slugs stay unique.
PutRow(p) ==
  \E row \in Row :
    /\ projects' = [projects EXCEPT ![p] = row]
    /\ row.slug # None
    /\ Holders(row.slug) \subseteq {p}

\* The url rows that a request adds to a project.
NewUrls(p, links, by) == {[project |-> p, link |-> k, by |-> by] : k \in links}

\* At the same time its urls are written, those of no other project.
PutUrls(p, newUrls) == urls' = (urls \ UrlsOf(p)) \cup newUrls

Create(p) ==
  /\ ~Stored(p)
  /\ PutRow(p)
  /\ \E links \in SUBSET Links : PutUrls(p, NewUrls(p, links, p))

\* An update adds url rows of its own and drops others.
Update(p) ==
  /\ PutRow(p)
  /\ \E by \in Ids, added \in SUBSET Links, kept \in SUBSET UrlsOf(p) :
       PutUrls(p, kept \cup NewUrls(p, added, by))

\* A delete takes the urls with it.
Remove(p) ==
  /\ Stored(p)
  /\ projects' = [projects EXCEPT ![p] = NoRow]
  /\ urls' = urls \ UrlsOf(p)

Init ==
  /\ projects \in [Ids -> Row]
  /\ urls \subseteq UrlRow
  /\ \A s \in Slugs : \A p, q \in Holders(s) : p = q
  /\ \A u \in urls : Stored(u.project)

Next == \E p \in Ids : Create(p) \/ Update(p) \/ Remove(p)

Spec == Init /\ [][Next]_<<projects, urls>>

-----------------------------------------------------------------------------
(***************************************************************************)
(* The stronger contract of openspec/specs/projects-domain/spec.md: an     *)
(* update is of a stored project, and one that names a list of urls leaves *)
(* exactly that list, each link once, in the rows that already had it.     *)
(***************************************************************************)
Relist(p, links) ==
  \E by \in Ids :
    PutUrls(p, {u \in UrlsOf(p) : u.link \in links} \cup NewUrls(p, links \ LinksOf(p), by))

DocumentedUpdate(p) ==
  /\ Stored(p)
  /\ PutRow(p)
  /\ \E links \in SUBSET Links : Relist(p, links)

DocumentedNext == \E p \in Ids : Create(p) \/ DocumentedUpdate(p) \/ Remove(p)

DocumentedSpec == Init /\ [][DocumentedNext]_<<projects, urls>>
=============================================================================
