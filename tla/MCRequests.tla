----------------------------- MODULE MCRequests -----------------------------
(* Requests on small instances: every route with every input, one request   *)
(* at a time; every spelling of JWT_EXPIRES_IN; and a flood of requests on   *)
(* three routes.                                                            *)
EXTENDS Requests, TLC

TheSettings == [login |-> 2, contactWrite |-> 1, reviewWrite |-> 2, reviewRead |-> 3]

Ids == {"uuid", "other"}

Durations ==
  [n : {0, 1, 15}, unit : KnownUnits \cup {"w"}] \cup [n : {499, 500, 1499, 1500}, unit : {"ms"}]
Minutes == [n |-> 15, unit |-> "m"]

Texts(word) == {<<word>>} \cup {<<word, x>> : x \in {"name", "subject", "message"} \cup Patterns}
Forms ==
  [valid : {TRUE}, name : Texts("Ana"), email : {<<"ana@x.y">>},
   subject : Texts("Hi") \cup {<<>>}, message : Texts("Hello")]
NoForm == [valid |-> FALSE]

Tags == [word : {"a", "b", ""}, odd : BOOLEAN]
TagLists == {<<>>} \cup {<<t>> : t \in Tags} \cup {<<t, u>> : t, u \in Tags}
Works(sizes, csv, tags, stored, published) ==
  [pageSize : sizes, csv : csv, tags : tags, stored : stored, isPublished : published]
WorksQueries ==
  Works({Absent, NotANumber, 0, 1, 100, 101}, {TRUE}, {<<>>}, {<<>>}, {Absent})
  \cup Works({Absent}, BOOLEAN, TagLists, {<<[word |-> "a", odd |-> TRUE]>>, <<>>}, {Absent})
  \cup Works({20}, {TRUE}, {<<>>}, {<<>>}, {Absent, "true", "TRUE", "false", "FALSE", "", "yes"})

Entries == [title : {"t", "u"}, url : {"x", "y"}, odd : BOOLEAN]
UrlLists == {<<>>} \cup {<<e>> : e \in Entries} \cup {<<e, f>> : e, f \in Entries}

Files ==
  {Absent} \cup [mime : {"png", "text"}, size : {"small", "tooLarge"}]

AllInputs ==
  [nothing |-> [id : Ids],
   body    |-> [id : Ids, valid : BOOLEAN],
   contact |-> Forms \cup {NoForm},
   page    |-> [id : Ids, pageSize : {Absent, NotANumber, 0, 1, 100, 101}],
   works   |-> WorksQueries,
   project |-> [id : Ids, urls : UrlLists],
   image   |-> [file : Files]]

PlainInputs ==
  [AllInputs EXCEPT !.nothing = [id : {"uuid"}], !.body = [id : {"uuid"}, valid : BOOLEAN],
                    !.contact = {NoForm}, !.page = [id : {"uuid"}, pageSize : {1}]]

Names == {route.name : route \in Routes}
Flooded == {"reviews.create", "contacts.create", "stats.getStats"}

Load(routes, inputs, total, production, storage, durations) ==
  [routes |-> routes, inputs |-> inputs, total |-> total,
   production |-> production, storage |-> storage, expires |-> durations]

TheLoads ==
  <<Load(Names, AllInputs, 1, TRUE, TRUE, {Minutes}),
    Load(Names, AllInputs, 1, FALSE, FALSE, {Minutes}),
    Load(Flooded, PlainInputs, 5, TRUE, TRUE, {Minutes}),
    Load({"login"}, PlainInputs, 1, TRUE, TRUE, Durations)>>
=============================================================================
