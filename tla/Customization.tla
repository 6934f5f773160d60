---------------------------- MODULE Customization ----------------------------
(***************************************************************************)
(* Field schemas and theme of a merchant.  A schema is edited under        *)
(* optimistic concurrency: an editor fetches it and sends his edit with    *)
(* the version he saw (If-Match); without one, the edit creates version 1. *)
(* Requests may be repeated and reordered.  The theme is an upsert made of *)
(* two statements, with no version.                                        *)
(***************************************************************************)
EXTENDS Naturals, Sequences

CONSTANTS
  Targets,        \* what schemas are for: payment, customer, ...
  Edits,          \* edits of schemas, one per PUT that an editor composes
  Looks, Styles,  \* a theme's required fields, and its optional css
  Handlers,       \* requests being served at the same time
  NoRow, NoPut, NoEdit, NoCss, NoBody,
  MaxDeletes,     \* bound on the deletions of schemas
  MaxThemePuts    \* bound on the PUTs of the theme

Rows == [version : Nat \ {0}, edit : Edits]
Puts == [target : Targets, saw : Rows \cup {NoRow}]
Bodies == [look : Looks, css : Styles \cup {NoCss}]

ASSUME CustomizationAssumption ==
  /\ NoRow \notin Rows /\ NoPut \notin Puts /\ NoBody \notin Bodies
  /\ NoEdit \notin Edits /\ NoCss \notin Styles
  /\ MaxDeletes \in Nat /\ MaxThemePuts \in Nat

VARIABLES
  schema,     \* the field_schema row of each target
  put,        \* what each composed PUT asks for: the target and the row seen
  job,        \* per handler: the edit whose checks on the row it read passed
  themes,     \* the theme rows, in the order of their insertion
  theming,    \* per handler: the theme its UPDATE found no row for
  applied,    \* history: how often each edit was applied
  blind,      \* history: edits that replaced a row their editor had not seen
  deleted,    \* history: targets whose schema was deleted once
  overlapped, \* history: two theme PUTs both missed a row at the same time
  deletes, themePuts

schemaVars == <<schema, put, applied, blind, deleted, deletes>>
themeVars == <<themes, theming, overlapped, themePuts>>
vars == <<schemaVars, job, themeVars>>

Init ==
  /\ schema = [t \in Targets |-> NoRow]
  /\ put = [e \in Edits |-> NoPut]
  /\ job = [h \in Handlers |-> NoEdit]
  /\ themes = <<>>
  /\ theming = [h \in Handlers |-> NoBody]
  /\ applied = [e \in Edits |-> 0]
  /\ blind = {} /\ deleted = {} /\ overlapped = FALSE
  /\ deletes = 0 /\ themePuts = 0

Idle(h) == job[h] = NoEdit /\ theming[h] = NoBody

-----------------------------------------------------------------------------
(* PUT, GET and DELETE /schema/:target_entity.                             *)

\* An editor fetches the schema and composes an edit of what he saw.
Compose(e, t) ==
  /\ put[e] = NoPut
  /\ put' = [put EXCEPT ![e] = [target |-> t, saw |-> schema[t]]]
  /\ UNCHANGED <<schema, applied, blind, deleted, deletes, job, themeVars>>

\* putSchema lets a PUT pass: without If-Match when there is no row, else with
\* the version of the row.
Matches(p, row) ==
  IF p.saw = NoRow THEN row = NoRow
                   ELSE row # NoRow /\ p.saw.version = row.version

\* A copy of the PUT arrives, the first or one sent again; the row is read and
\* the PUT passes, or it gets 409 and nothing changes.
Receive(h, e) ==
  /\ Idle(h)
  /\ put[e] # NoPut
  /\ Matches(put[e], schema[put[e].target])
  /\ job' = [job EXCEPT ![h] = e]
  /\ UNCHANGED <<schemaVars, themeVars>>

\* What the edit becomes in the table, and what is remembered of it.
Applied(e, row) ==
  LET t == put[e].target
  IN  /\ schema' = [schema EXCEPT ![t] = row]
      /\ applied' = [applied EXCEPT ![e] = @ + 1]
      /\ blind' = IF put[e].saw = schema[t] THEN blind ELSE blind \cup {e}
      /\ UNCHANGED <<put, deleted, deletes>>

Gone(h) == job' = [job EXCEPT ![h] = NoEdit] /\ UNCHANGED themeVars

\* Mutant: versions are counted from zero.
FirstVersion_Zero == 0
FirstVersion == 1

\* The first version; the UNIQUE index refuses a second row of the target.
Insert(h, e) ==
  /\ job[h] = e /\ put[e].saw = NoRow
  /\ IF schema[put[e].target] = NoRow
     THEN Applied(e, [version |-> FirstVersion, edit |-> e])
     ELSE UNCHANGED schemaVars
  /\ Gone(h)

\* Mutants: the UPDATE forgets the version it expects, or to count on.
WhereVersion_Any(row, expected) == row # NoRow
WhereVersion(row, expected) == row # NoRow /\ row.version = expected
NextVersion_Same(v) == v
NextVersion(v) == v + 1

\* UPDATE ... WHERE version = $expected; 409 when no row matched.
Update(h, e) ==
  LET row == schema[put[e].target]
  IN  /\ job[h] = e /\ put[e].saw # NoRow
      /\ IF WhereVersion(row, put[e].saw.version)
         THEN Applied(e, [version |-> NextVersion(row.version), edit |-> e])
         ELSE UNCHANGED schemaVars
      /\ Gone(h)

\* DELETE takes no version.
Delete(t) ==
  /\ schema[t] # NoRow
  /\ deletes < MaxDeletes
  /\ deletes' = deletes + 1
  /\ schema' = [schema EXCEPT ![t] = NoRow]
  /\ deleted' = deleted \cup {t}
  /\ UNCHANGED <<put, applied, blind, job, themeVars>>

-----------------------------------------------------------------------------
(* PUT /theme.                                                             *)

\* An absent css is left out of the UPDATE: the row keeps the one it has.
Upserted(row, body) ==
  [body EXCEPT !.css = IF body.css = NoCss THEN row.css ELSE body.css]

\* Mutant: the UPDATE never finds the row, say for an id of another type.
NoTheme_Ever == TRUE
NoTheme == themes = <<>>

\* The UPDATE reaches every row of the scope; when there is none the INSERT
\* follows as a request of its own.
PutTheme(h, body) ==
  /\ Idle(h)
  /\ themePuts < MaxThemePuts
  /\ themePuts' = themePuts + 1
  /\ IF NoTheme
     THEN /\ theming' = [theming EXCEPT ![h] = body]
          /\ overlapped' = (overlapped \/ \E g \in Handlers : theming[g] # NoBody)
          /\ UNCHANGED themes
     ELSE /\ themes' = [i \in DOMAIN themes |-> Upserted(themes[i], body)]
          /\ UNCHANGED <<theming, overlapped>>
  /\ UNCHANGED <<schemaVars, job>>

InsertTheme(h) ==
  /\ theming[h] # NoBody
  /\ themes' = Append(themes, theming[h])
  /\ theming' = [theming EXCEPT ![h] = NoBody]
  /\ UNCHANGED <<schemaVars, job, overlapped, themePuts>>

-----------------------------------------------------------------------------

\* A handler fails, or the process stops, before its write.
Die(h) ==
  /\ ~Idle(h)
  /\ job' = [job EXCEPT ![h] = NoEdit]
  /\ theming' = [theming EXCEPT ![h] = NoBody]
  /\ UNCHANGED <<schemaVars, themes, overlapped, themePuts>>

Handle(h) ==
  \/ \E e \in Edits : Receive(h, e) \/ Insert(h, e) \/ Update(h, e)
  \/ \E body \in Bodies : PutTheme(h, body)
  \/ InsertTheme(h)
  \/ Die(h)

Next ==
  \/ \E t \in Targets : Delete(t) \/ \E e \in Edits : Compose(e, t)
  \/ \E h \in Handlers : Handle(h)

Spec == Init /\ [][Next]_vars

-----------------------------------------------------------------------------
(* Properties.                                                             *)

\* Every variable has its type; a stored schema has version 1 or more.
TypeOK ==
  /\ schema \in [Targets -> Rows \cup {NoRow}]
  /\ put \in [Edits -> Puts \cup {NoPut}]
  /\ job \in [Handlers -> Edits \cup {NoEdit}]
  /\ \A h \in Handlers : job[h] # NoEdit => put[job[h]] # NoPut
  /\ themes \in Seq(Bodies)
  /\ theming \in [Handlers -> Bodies \cup {NoBody}]
  /\ applied \in [Edits -> Nat]
  /\ blind \subseteq Edits /\ deleted \subseteq Targets
  /\ overlapped \in BOOLEAN
  /\ deletes \in Nat /\ themePuts \in Nat

\* The schema an edit is for was never deleted (a deletion starts the versions
\* anew and takes no version itself).
Undisturbed(e) == put[e] # NoPut /\ put[e].target \notin deleted

\* No lost update: an edit replaces exactly the row its editor saw, however
\* the reads and writes of concurrent PUTs interleave.
NoLostUpdate == \A e \in Edits : Undisturbed(e) => e \notin blind

\* A PUT that is sent again, or arrives twice, is applied at most once.
AppliedOnce == \A e \in Edits : Undisturbed(e) => applied[e] <= 1

\* There is one theme, unless two first PUTs overlapped between their UPDATE
\* and their INSERT: nothing else makes a second row.
OneTheme == Len(themes) > 1 => overlapped

-----------------------------------------------------------------------------
(* What the repository's documents say and the code does not keep; the     *)
(* README tells how each comes about.                                      *)

\* Two editors do not clobber each other, deletions or not.
EditorsDoNotClobber == blind = {}

\* The table holds one theme per merchant and environment.
ThemePerScope == Len(themes) <= 1

\* A theme that was PUT is the theme that a GET returns next.
ThemeAsPut ==
  [][\A h \in Handlers, body \in Bodies :
       PutTheme(h, body) /\ ~NoTheme =>
         \A i \in DOMAIN themes' : themes'[i] = body]_vars
=============================================================================
