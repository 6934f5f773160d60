------------------------- MODULE CustomizationProofs -------------------------
(***************************************************************************)
(* Optimistic concurrency of the field schemas, for any number of targets, *)
(* edits, handlers and repeated requests: no update is lost and none is    *)
(* applied twice, as long as the schema is not deleted.                    *)
(***************************************************************************)
EXTENDS Customization, TLAPS

\* What an editor saw is the row as it is, or an older version of it: versions
\* only grow, and two rows of one version are the same row.
SeenIsOlder ==
  \A e \in Edits : Undisturbed(e) /\ put[e].saw # NoRow =>
    LET row == schema[put[e].target]
    IN  /\ row # NoRow
        /\ put[e].saw.version <= row.version
        /\ put[e].saw.version = row.version => put[e].saw = row

\* An edit that was applied left a row newer than the one its editor saw, so
\* the same edit does not match again.
AppliedIsNewer ==
  \A e \in Edits : Undisturbed(e) /\ applied[e] > 0 =>
    LET row == schema[put[e].target]
    IN  /\ row # NoRow
        /\ put[e].saw # NoRow => put[e].saw.version < row.version

\* Nothing is known to the table of an edit that was not composed.
OnlyComposed ==
  \A e \in Edits : put[e] = NoPut => applied[e] = 0 /\ e \notin blind

Versioned ==
  /\ TypeOK /\ SeenIsOlder /\ AppliedIsNewer /\ OnlyComposed
  /\ NoLostUpdate /\ AppliedOnce

-----------------------------------------------------------------------------

LEMMA VersionedInit == Init => Versioned
<1> SUFFICES ASSUME Init PROVE Versioned
  OBVIOUS
<1>1. TypeOK
  <2>1. themes \in Seq(Bodies)
    BY DEF Init
  <2>2. /\ schema \in [Targets -> Rows \cup {NoRow}]
        /\ put \in [Edits -> Puts \cup {NoPut}]
        /\ job \in [Handlers -> Edits \cup {NoEdit}]
        /\ theming \in [Handlers -> Bodies \cup {NoBody}]
        /\ applied \in [Edits -> Nat]
    BY DEF Init
  <2>3. \A h \in Handlers : job[h] = NoEdit
    BY DEF Init
  <2>4. overlapped \in BOOLEAN /\ blind = {} /\ deleted = {}
    BY DEF Init
  <2>5. deletes \in Nat /\ themePuts \in Nat
    BY DEF Init
  <2>. QED
    BY <2>1, <2>2, <2>3, <2>4, <2>5 DEF TypeOK
<1>2. \A e \in Edits : put[e] = NoPut /\ applied[e] = 0 /\ e \notin blind
  BY DEF Init
<1>. QED
  BY <1>1, <1>2
  DEF Versioned, SeenIsOlder, AppliedIsNewer, OnlyComposed, NoLostUpdate,
      AppliedOnce, Undisturbed

\* Steps that leave schemas and PUTs alone keep all that is said about them.
LEMMA SchemaUntouched ==
  ASSUME Versioned, TypeOK', UNCHANGED schemaVars
  PROVE  Versioned'
  BY DEF Versioned, SeenIsOlder, AppliedIsNewer, OnlyComposed, NoLostUpdate,
         AppliedOnce, Undisturbed, schemaVars

LEMMA ComposeStep ==
  ASSUME Versioned, NEW e \in Edits, NEW t \in Targets, Compose(e, t)
  PROVE  Versioned'
<1>1. [target |-> t, saw |-> schema[t]] \in Puts
  BY DEF Versioned, TypeOK, Puts
<1>2. TypeOK'
  BY <1>1, SMT DEF Versioned, TypeOK, Compose, themeVars
<1>3. /\ put'[e].target = t /\ put'[e].saw = schema[t]
      /\ put[e] = NoPut /\ put'[e] # NoPut
      /\ \A d \in Edits \ {e} : put'[d] = put[d]
      /\ UNCHANGED <<schema, applied, blind, deleted>>
  BY <1>1, CustomizationAssumption DEF Compose, Versioned, TypeOK
<1>4. applied[e] = 0 /\ e \notin blind
  BY <1>3 DEF Versioned, OnlyComposed
<1>5. SeenIsOlder'
  <2>1. schema[t] # NoRow => schema[t].version \in Nat
    BY DEF Versioned, TypeOK, Rows
  <2>. QED
    BY <1>3, <2>1 DEF Versioned, SeenIsOlder, Undisturbed
<1>6. AppliedIsNewer' /\ OnlyComposed' /\ NoLostUpdate' /\ AppliedOnce'
  BY <1>3, <1>4
  DEF Versioned, AppliedIsNewer, OnlyComposed, NoLostUpdate, AppliedOnce, Undisturbed
<1>. QED
  BY <1>2, <1>5, <1>6 DEF Versioned

\* A request that writes a row, and is done, keeps the types.
LEMMA WritesStayTyped ==
  ASSUME TypeOK, NEW h \in Handlers, NEW e \in Edits, NEW row \in Rows,
         put[e] # NoPut, Applied(e, row), Gone(h)
  PROVE  TypeOK'
<1>1. schema' \in [Targets -> Rows \cup {NoRow}]
  BY DEF Applied, TypeOK
<1>2. /\ job' \in [Handlers -> Edits \cup {NoEdit}]
      /\ \A g \in Handlers : job'[g] # NoEdit => put'[job'[g]] # NoPut
  BY DEF Applied, Gone, TypeOK
<1>3. applied' \in [Edits -> Nat] /\ blind' \subseteq Edits
  BY DEF Applied, TypeOK
<1>. QED
  BY <1>1, <1>2, <1>3 DEF Applied, Gone, themeVars, TypeOK

\* An edit replaces the row its editor saw, by one with a higher version.
LEMMA AppliedStep ==
  ASSUME Versioned, TypeOK', NEW e \in Edits, NEW row \in Rows, put[e] # NoPut,
         Applied(e, row),
         LET now == schema[put[e].target]
         IN  \/ now = NoRow /\ put[e].saw = NoRow
             \/ /\ now # NoRow /\ put[e].saw # NoRow
                /\ put[e].saw.version = now.version
                /\ row.version = now.version + 1
  PROVE  Versioned'
<1> DEFINE t == put[e].target
<1>1. /\ t \in Targets /\ schema'[t] = row /\ row # NoRow
      /\ \A u \in Targets \ {t} : schema'[u] = schema[u]
      /\ applied'[e] = applied[e] + 1
      /\ \A d \in Edits \ {e} : applied'[d] = applied[d]
      /\ UNCHANGED <<put, deleted>>
  BY CustomizationAssumption DEF Applied, Versioned, TypeOK, Puts
<1>2. /\ \A u \in Targets : schema[u] # NoRow => schema[u].version \in Nat
      /\ \A d \in Edits : put[d] # NoPut =>
           put[d].target \in Targets /\ (put[d].saw # NoRow => put[d].saw.version \in Nat)
      /\ row.version \in Nat
      /\ \A d \in Edits : applied[d] \in Nat
  BY DEF Versioned, TypeOK, Puts, Rows
<1>3. Undisturbed(e) => put[e].saw = schema[t] /\ applied[e] = 0
  BY <1>1, <1>2 DEF Versioned, SeenIsOlder, AppliedIsNewer, Undisturbed
<1>4. SeenIsOlder'
  BY <1>1, <1>2 DEF Versioned, SeenIsOlder, Undisturbed
<1>5. AppliedIsNewer'
  <2> SUFFICES ASSUME NEW d \in Edits, Undisturbed(d)', applied'[d] > 0
               PROVE  /\ schema'[put'[d].target] # NoRow
                      /\ put'[d].saw # NoRow =>
                           put'[d].saw.version < schema'[put'[d].target].version
    BY DEF AppliedIsNewer
  <2>1. CASE d = e
    BY <1>1, <1>2, <2>1
  <2>2. CASE d # e
    BY <1>1, <1>2, <2>2 DEF Versioned, AppliedIsNewer, Undisturbed
  <2>. QED
    BY <2>1, <2>2
<1>6. OnlyComposed' /\ NoLostUpdate'
  BY <1>1, <1>3 DEF Applied, Versioned, OnlyComposed, NoLostUpdate, Undisturbed
<1>7. AppliedOnce'
  BY <1>1, <1>2, <1>3 DEF Versioned, AppliedOnce, Undisturbed
<1>. QED
  BY <1>4, <1>5, <1>6, <1>7 DEF Versioned

LEMMA InsertStep ==
  ASSUME Versioned, NEW h \in Handlers, NEW e \in Edits, Insert(h, e)
  PROVE  Versioned'
<1>1. put[e] # NoPut
  BY CustomizationAssumption DEF Insert, Versioned, TypeOK
<1>2. CASE schema[put[e].target] = NoRow
  <2>1. [version |-> FirstVersion, edit |-> e] \in Rows
    BY DEF Rows, FirstVersion
  <2>2. Applied(e, [version |-> FirstVersion, edit |-> e]) /\ put[e].saw = NoRow
    BY <1>2 DEF Insert
  <2>3. TypeOK'
    BY <1>1, <2>1, <2>2, WritesStayTyped DEF Insert, Versioned
  <2>. QED
    BY <1>1, <1>2, <2>1, <2>2, <2>3, AppliedStep
<1>3. CASE schema[put[e].target] # NoRow
  <2>1. TypeOK' /\ UNCHANGED schemaVars
    BY <1>3, SMT
    DEF Insert, Gone, schemaVars, themeVars, Versioned, TypeOK
  <2>. QED
    BY <2>1, SchemaUntouched
<1>. QED
  BY <1>2, <1>3

LEMMA UpdateStep ==
  ASSUME Versioned, NEW h \in Handlers, NEW e \in Edits, Update(h, e)
  PROVE  Versioned'
<1> DEFINE row == schema[put[e].target]
           new == [version |-> NextVersion(row.version), edit |-> e]
<1>1. put[e] # NoPut /\ put[e].target \in Targets
  BY CustomizationAssumption DEF Update, Versioned, TypeOK, Puts
<1>2. CASE WhereVersion(row, put[e].saw.version)
  <2>1. row # NoRow /\ put[e].saw # NoRow /\ put[e].saw.version = row.version
    BY <1>2 DEF WhereVersion, Update
  <2>2. row.version \in Nat
    BY <1>1, <2>1 DEF Versioned, TypeOK, Rows
  <2>3. new \in Rows /\ new.version = row.version + 1
    BY <2>2 DEF Rows, NextVersion
  <2>4. Applied(e, new)
    BY <1>2 DEF Update
  <2>5. TypeOK'
    <3> HIDE DEF new
    <3>. QED
      BY <1>1, <2>3, <2>4, WritesStayTyped DEF Update, Versioned
  <2>. QED
    <3> HIDE DEF new
    <3>. QED
      BY <1>1, <2>1, <2>3, <2>4, <2>5, AppliedStep
<1>3. CASE ~WhereVersion(row, put[e].saw.version)
  <2>1. TypeOK' /\ UNCHANGED schemaVars
    BY <1>3, SMT
    DEF Update, Gone, schemaVars, themeVars, Versioned, TypeOK
  <2>. QED
    BY <2>1, SchemaUntouched
<1>. QED
  BY <1>2, <1>3

LEMMA DeleteStep ==
  ASSUME Versioned, NEW t \in Targets, Delete(t)
  PROVE  Versioned'
<1>1. TypeOK'
  BY SMT DEF Delete, themeVars, Versioned, TypeOK
<1>2. \A e \in Edits : Undisturbed(e)' => Undisturbed(e) /\ put[e].target # t
  BY DEF Delete, Undisturbed
<1>3. \A e \in Edits : Undisturbed(e)' => schema'[put'[e].target] = schema[put[e].target]
  BY <1>2 DEF Delete, Versioned, TypeOK, Undisturbed, Puts
<1>4. UNCHANGED <<put, applied, blind>>
  BY DEF Delete
<1>. QED
  BY <1>1, <1>2, <1>3, <1>4
  DEF Versioned, SeenIsOlder, AppliedIsNewer, OnlyComposed, NoLostUpdate, AppliedOnce

\* Requests that do not write schemas keep the types.
LEMMA OtherSteps ==
  ASSUME TypeOK, NEW h \in Handlers,
         \/ \E e \in Edits : Receive(h, e)
         \/ \E body \in Bodies : PutTheme(h, body)
         \/ InsertTheme(h)
         \/ Die(h)
  PROVE  TypeOK' /\ UNCHANGED schemaVars
<1>1. ASSUME NEW e \in Edits, Receive(h, e) PROVE TypeOK' /\ UNCHANGED schemaVars
  BY <1>1, SMT DEF Receive, TypeOK, schemaVars, themeVars
<1>2. ASSUME NEW body \in Bodies, PutTheme(h, body)
      PROVE  TypeOK' /\ UNCHANGED schemaVars
  <2>1. \A row \in Bodies : Upserted(row, body) \in Bodies
    BY DEF Upserted, Bodies
  <2>2. themes' \in Seq(Bodies)
    BY <1>2, <2>1 DEF PutTheme, TypeOK
  <2>3. theming' \in [Handlers -> Bodies \cup {NoBody}] /\ themePuts' \in Nat
    BY <1>2 DEF PutTheme, TypeOK
  <2>4. overlapped' \in BOOLEAN
    BY <1>2, Zenon DEF PutTheme, TypeOK
  <2>5. UNCHANGED <<schemaVars, job>>
    BY <1>2 DEF PutTheme
  <2>. QED
    BY <2>2, <2>3, <2>4, <2>5 DEF TypeOK, schemaVars
<1>3. CASE InsertTheme(h)
  BY <1>3, SMT DEF InsertTheme, TypeOK, schemaVars
<1>4. CASE Die(h)
  BY <1>4, SMT DEF Die, TypeOK, schemaVars
<1>. QED
  BY <1>1, <1>2, <1>3, <1>4

LEMMA VersionedStep == Versioned /\ [Next]_vars => Versioned'
<1> SUFFICES ASSUME Versioned, [Next]_vars PROVE Versioned'
  OBVIOUS
<1>1. TypeOK
  BY DEF Versioned
<1>2. ASSUME NEW t \in Targets, Delete(t) PROVE Versioned'
  BY <1>2, DeleteStep
<1>3. ASSUME NEW t \in Targets, NEW e \in Edits, Compose(e, t) PROVE Versioned'
  BY <1>3, ComposeStep
<1>4. ASSUME NEW h \in Handlers, NEW e \in Edits, Insert(h, e) PROVE Versioned'
  BY <1>4, InsertStep
<1>5. ASSUME NEW h \in Handlers, NEW e \in Edits, Update(h, e) PROVE Versioned'
  BY <1>5, UpdateStep
<1>6. ASSUME NEW h \in Handlers,
             \/ \E e \in Edits : Receive(h, e)
             \/ \E body \in Bodies : PutTheme(h, body)
             \/ InsertTheme(h)
             \/ Die(h)
      PROVE  Versioned'
  BY <1>1, <1>6, OtherSteps, SchemaUntouched
<1>7. CASE UNCHANGED vars
  <2>1. TypeOK' /\ UNCHANGED schemaVars
    BY <1>1, <1>7 DEF vars, TypeOK, schemaVars, themeVars
  <2>. QED
    BY <2>1, SchemaUntouched
<1>. QED
  BY <1>2, <1>3, <1>4, <1>5, <1>6, <1>7 DEF Next, Handle

LEMMA AlwaysVersioned == Spec => []Versioned
  BY VersionedInit, VersionedStep, PTL DEF Spec

\* Types are kept by every request on schemas and themes.
THEOREM TypeCorrect == Spec => []TypeOK
<1>1. Versioned => TypeOK
  BY DEF Versioned
<1>. QED
  BY <1>1, AlwaysVersioned, PTL

\* putSchema's check of If-Match and the guarded UPDATE together lose no
\* update, whatever happens between the two.
THEOREM NoUpdateIsLost == Spec => []NoLostUpdate
<1>1. Versioned => NoLostUpdate
  BY DEF Versioned
<1>. QED
  BY <1>1, AlwaysVersioned, PTL

\* A PUT may be sent any number of times: one copy is applied, the others get
\* 409.
THEOREM RepeatedPutsAreHarmless == Spec => []AppliedOnce
<1>1. Versioned => AppliedOnce
  BY DEF Versioned
<1>. QED
  BY <1>1, AlwaysVersioned, PTL

-----------------------------------------------------------------------------
(* The theme.                                                              *)

\* Only overlapping PUTs wait for their INSERT together, or wait for it while
\* there is a theme already.
ThemeInv ==
  /\ TypeOK /\ OneTheme
  /\ \A h \in Handlers : theming[h] # NoBody /\ themes # <<>> => overlapped
  /\ \A g, h \in Handlers :
       theming[g] # NoBody /\ theming[h] # NoBody /\ g # h => overlapped

LEMMA ThemeInit == Init => ThemeInv
<1>1. Init => TypeOK
  BY VersionedInit DEF Versioned
<1>. QED
  BY <1>1 DEF Init, ThemeInv, OneTheme

LEMMA ThemeStep == ThemeInv /\ TypeOK' /\ [Next]_vars => ThemeInv'
<1> SUFFICES ASSUME ThemeInv, TypeOK', [Next]_vars PROVE ThemeInv'
  OBVIOUS
<1>1. ASSUME UNCHANGED themeVars PROVE ThemeInv'
  BY <1>1 DEF themeVars, ThemeInv, OneTheme
<1>2. ASSUME NEW h \in Handlers, NEW body \in Bodies, PutTheme(h, body)
      PROVE  ThemeInv'
  <2>1. CASE themes = <<>>
    <3>1. /\ theming' = [theming EXCEPT ![h] = body] /\ themes' = <<>>
          /\ overlapped \/ (\E g \in Handlers : theming[g] # NoBody) => overlapped'
      BY <1>2, <2>1, Zenon DEF PutTheme, NoTheme
    <3>. QED
      BY <3>1 DEF ThemeInv, OneTheme, TypeOK
  <2>2. CASE themes # <<>>
    <3>1. /\ themes' = [i \in DOMAIN themes |-> Upserted(themes[i], body)]
          /\ UNCHANGED <<theming, overlapped>>
      BY <1>2, <2>2 DEF PutTheme, NoTheme
    <3>2. Len(themes') = Len(themes) /\ themes' # <<>>
      BY <2>2, <3>1 DEF ThemeInv, TypeOK
    <3>. QED
      BY <2>2, <3>1, <3>2 DEF ThemeInv, OneTheme
  <2>. QED
    BY <2>1, <2>2
<1>3. ASSUME NEW h \in Handlers, InsertTheme(h) PROVE ThemeInv'
  <2>1. /\ theming[h] # NoBody /\ theming'[h] = NoBody /\ overlapped' = overlapped
        /\ \A g \in Handlers \ {h} : theming'[g] = theming[g]
    BY <1>3 DEF InsertTheme, ThemeInv, TypeOK
  <2>2. Len(themes') > 1 => themes # <<>>
    <3>1. theming[h] \in Bodies /\ themes' = Append(themes, theming[h])
      BY <1>3, <2>1 DEF InsertTheme, ThemeInv, TypeOK
    <3>. QED
      BY <3>1 DEF ThemeInv, TypeOK
  <2>. QED
    BY <2>1, <2>2 DEF ThemeInv, OneTheme
<1>4. ASSUME NEW h \in Handlers, Die(h) PROVE ThemeInv'
  BY <1>4 DEF Die, ThemeInv, OneTheme, TypeOK
<1>5. CASE UNCHANGED vars
  BY <1>1, <1>5 DEF vars
<1>6. ASSUME NEW t \in Targets, Delete(t) \/ \E e \in Edits : Compose(e, t)
      PROVE  ThemeInv'
  BY <1>1, <1>6 DEF Delete, Compose
<1>7. ASSUME NEW h \in Handlers, NEW e \in Edits,
             Receive(h, e) \/ Insert(h, e) \/ Update(h, e)
      PROVE  ThemeInv'
  BY <1>1, <1>7 DEF Receive, Insert, Update, Gone
<1>. QED
  BY <1>2, <1>3, <1>4, <1>5, <1>6, <1>7 DEF Next, Handle

\* PUT /theme makes a second row in one way only: two first PUTs that overlap
\* between their UPDATE and their INSERT (theme_scope is not UNIQUE).
THEOREM SecondThemeNeedsOverlap == Spec => []OneTheme
<1>1. Versioned => TypeOK
  BY DEF Versioned
<1>2. ThemeInv => OneTheme
  BY DEF ThemeInv
<1>. QED
  BY <1>1, <1>2, AlwaysVersioned, ThemeInit, ThemeStep, PTL DEF Spec
=============================================================================
