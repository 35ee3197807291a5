---------------------------- MODULE Conversions ----------------------------
(***************************************************************************)
(* What the code computes from one request or one setting: conversions of  *)
(* query parameters and bodies, durations, mail texts, file names.  A      *)
(* text is what its conversion tells apart in it.                          *)
(***************************************************************************)
EXTENDS Integers, FiniteSets, SequencesExt

CONSTANTS
  Absent,     \* a parameter that is not given
  NotANumber  \* one that is not the number it should be

-----------------------------------------------------------------------------
(* JWT_EXPIRES_IN, as [n, unit].                                            *)

Millis(d) ==
  CASE d.unit = "ms" -> d.n
    [] d.unit = "s" -> d.n * 1000
    [] d.unit = "m" -> d.n * 60000
    [] d.unit = "h" -> d.n * 3600000
    [] d.unit = "d" -> d.n * 86400000
KnownUnits == {"ms", "s", "m", "h", "d"}

\* A faulty variant: milliseconds are rounded up.
DurationStringToSeconds_RoundsUp(d) ==
  IF d.unit \in KnownUnits THEN Max({1, (Millis(d) + 1999) \div 1000}) ELSE 900

\* Any other unit is 15 minutes.  Math.round of a half goes up.
DurationStringToSeconds(d) ==
  CASE d.unit = "ms" -> Max({1, (Millis(d) + 500) \div 1000})
    [] d.unit \in KnownUnits \ {"ms"} -> Millis(d) \div 1000
    [] OTHER -> 900

\* When the token runs out that @nestjs/jwt signs, in whole seconds.
TokenSeconds(d) == Millis(d) \div 1000

-----------------------------------------------------------------------------
(* The mails.  A template is the sequence of its placeholders and of the    *)
(* copy between them, a field of the form a sequence of words,              *)
(* placeholders, and the patterns that String#replaceAll gives a meaning    *)
(* of its own in a replacement when it searches for a string: a dollar, the *)
(* match, the text before it and the text after it.                         *)

Fields == <<"name", "email", "subject", "message">>
Patterns == {"$$", "$&", "$`", "$'"}

CONTACT_NOTIFICATION_HTML ==
  <<"copy", "name", "copy", "email", "copy", "subject", "copy", "message",
    "copy", "name", "copy", "email", "copy", "subject", "copy", "message",
    "copy", "name", "copy", "name", "copy">>
CONTACT_AUTO_REPLY_HTML == <<"copy", "name", "copy", "name", "copy">>
CONTACT_NOTIFICATION_TEXT == CONTACT_NOTIFICATION_HTML
CONTACT_AUTO_REPLY_TEXT == CONTACT_AUTO_REPLY_HTML
Templates ==
  {CONTACT_NOTIFICATION_HTML, CONTACT_NOTIFICATION_TEXT,
   CONTACT_AUTO_REPLY_HTML, CONTACT_AUTO_REPLY_TEXT}

\* What a value becomes at place i of the text that is searched.
Expand(value, text, i) ==
  FlattenSeq([j \in DOMAIN value |->
    CASE value[j] = "$$" -> <<"$">>
      [] value[j] = "$&" -> <<text[i]>>
      [] value[j] = "$`" -> SubSeq(text, 1, i - 1)
      [] value[j] = "$'" -> SubSeq(text, i + 1, Len(text))
      [] OTHER -> <<value[j]>>])

\* A faulty variant: replace, which fills in the first place and no other.
Replaced_FirstPlace(text, field, value) ==
  FlattenSeq([i \in DOMAIN text |->
    IF text[i] = field /\ \A j \in 1 .. i - 1 : text[j] # field
    THEN Expand(value, text, i) ELSE <<text[i]>>])

\* Every place, each by its own text before and after it.
Replaced(text, field, value) ==
  FlattenSeq([i \in DOMAIN text |->
    IF text[i] = field THEN Expand(value, text, i) ELSE <<text[i]>>])

\* A faulty variant: the message is filled in first.
Substitute_MessageFirst(template, row) ==
  LET one == Replaced(template, "message", row.message)
      two == Replaced(one, "subject", row.subject)
      three == Replaced(two, "email", row.email)
  IN Replaced(three, "name", row.name)

Substitute(template, row) ==
  LET one == Replaced(template, "name", row.name)
      two == Replaced(one, "email", row.email)
      three == Replaced(two, "subject", row.subject)
  IN Replaced(three, "message", row.message)

-----------------------------------------------------------------------------
(* Tags, as [word, odd]: odd is with capitals or blanks around it, and      *)
(* "" is the word of a tag that is blank.                                   *)

Normal(tag) == [tag EXCEPT !.odd = FALSE]
Normals(tags) == {Normal(tags[i]) : i \in {j \in DOMAIN tags : tags[j].word # ""}}

\* What create and update store: normalised, without repetition.
StoredTags(tags) == Normals(tags)

\* ?tags=a,b is normalised like them, ?tags=a&tags=b is taken as it is.
QueryTags(query) == IF query.csv THEN Normals(query.tags) ELSE ToSet(query.tags)

-----------------------------------------------------------------------------
(* Numbers and booleans of a query.                                         *)

\* Boolean(text), the implicit conversion of the ValidationPipe.
Implicit(text) == text # ""

\* A faulty variant: the result of the implicit conversion is kept.
QueryBoolean_Implicit(text) == IF text = Absent THEN Absent ELSE Implicit(text)

\* The @Transform goes back to the text that was sent.
QueryBoolean(text) ==
  CASE text = Absent -> Absent
    [] text \in {"true", "TRUE"} -> TRUE
    [] text \in {"false", "FALSE"} -> FALSE
    [] OTHER -> Implicit(text)

\* Which projects, as [published, tags], the lists are about: @> is for the
\* tags of the query, when there are any, and the public list leaves out what
\* is not published unless the query says otherwise.
FindPublic(query, project) ==
  LET wanted == QueryBoolean(query.isPublished)
  IN /\ project.published = (IF wanted = Absent THEN TRUE ELSE wanted)
     /\ QueryTags(query) \subseteq project.tags

FindAllForAdmin(query, project) ==
  LET wanted == QueryBoolean(query.isPublished)
  IN /\ wanted \in {Absent, project.published}
     /\ QueryTags(query) \subseteq project.tags

\* @IsInt @Min(1) @Max(100): a page size above 100 is refused.
PageSizeIsValid(n) == n = Absent \/ (n # NotANumber /\ n \in 1 .. 100)

-----------------------------------------------------------------------------
(* The urls of a project, each as [title, url, odd]: odd is with capitals.  *)

\* Compared in lower case, whatever the titles.
IsUniqueUrlInArray(urls) == \A i, j \in DOMAIN urls : i # j => urls[i].url # urls[j].url

-----------------------------------------------------------------------------
(* A cover image, as [mime, size], or no file.                               *)

\* What stops an upload: a file above the limit ends in the interceptor,
\* before the handler's own test of the size, so in a 413 and not a 400.
UploadRefusals(file) ==
  IF file = Absent THEN {400}
  ELSE IF file.size = "tooLarge" THEN {413}
  ELSE IF file.mime = "text" THEN {400} ELSE {}
=============================================================================
