------------------------ MODULE InboundWebhooksProofs ------------------------
(***************************************************************************)
(* Proofs about InboundWebhooks for any payments, event ids, handlers and  *)
(* bounds, whatever the failures.                                          *)
(***************************************************************************)
EXTENDS InboundWebhooks, FiniteSetTheorems, TLAPS

(***************************************************************************)
(* Types.                                                                  *)
(***************************************************************************)

LEMMA TypeInit == Init => TypeOK
  BY InboundAssumption DEF Init, TypeOK

\* A handler that ends leaves every other one with a completed payment.
LEMMA DoneKeepsHandlers ==
  ASSUME TypeOK, NEW h \in Handlers, Done(h), UNCHANGED completed
  PROVE  /\ pc' \in [Handlers ->
                       {"idle", "checking", "inserting", "emitting", "replying"}]
         /\ about' \in [Handlers -> Payments \cup {NoPayment}]
         /\ \A k \in Handlers : pc'[k] # "idle" => about'[k] \in completed'
  BY DEF TypeOK, Done

LEMMA AnsweredIsCompleted ==
  ASSUME TypeOK, NEW h \in Handlers, pc[h] # "idle", Ok(h), UNCHANGED completed
  PROVE  answered' \subseteq completed'
  BY DEF TypeOK, Ok

\* What a busy handler is about has an event id.
LEMMA AboutHasId ==
  ASSUME TypeOK, NEW h \in Handlers, pc[h] # "idle"
  PROVE  about[h] \in Payments /\ IdOf[about[h]] \in Ids
  BY InboundAssumption DEF TypeOK

LEMMA TypeStep == TypeOK /\ [Next]_vars => TypeOK'
<1> SUFFICES ASSUME TypeOK, [Next]_vars PROVE TypeOK'
  OBVIOUS
<1>1. ASSUME NEW p \in Payments, Complete(p) PROVE TypeOK'
  BY <1>1 DEF Complete, TypeOK
<1>2. ASSUME NEW h \in Handlers, NEW p \in Payments, Notify(h, p)
      PROVE  TypeOK'
  BY <1>2 DEF Notify, TypeOK
<1>3. ASSUME NEW h \in Handlers, Check(h) PROVE TypeOK'
  <2>1. CASE Seen(IdOf[about[h]])
    <3>1. Ok(h) /\ Done(h) /\ UNCHANGED completed /\ pc[h] # "idle"
      BY <1>3, <2>1 DEF Check, Ok
    <3> QED
      BY <1>3, <2>1, <3>1, DoneKeepsHandlers, AnsweredIsCompleted DEF Check, TypeOK
  <2>2. CASE ~ Seen(IdOf[about[h]])
    <3>1. IdOf[about[h]] \in Ids
      BY <1>3, AboutHasId DEF Check
    <3>2. overlaps' \in [Ids -> Nat]
      BY <1>3, <2>2, <3>1 DEF Check, TypeOK
    <3> QED
      BY <1>3, <2>2, <3>2 DEF Check, TypeOK
  <2> QED
    BY <2>1, <2>2
<1>4. ASSUME NEW h \in Handlers, CheckFails(h) PROVE TypeOK'
  BY <1>4, DoneKeepsHandlers DEF CheckFails, Fails, TypeOK
<1>5. ASSUME NEW h \in Handlers, InsertRow(h) PROVE TypeOK'
  <2>1. IdOf[about[h]] \in Ids
    BY <1>5, AboutHasId DEF InsertRow, Moves
  <2> QED
    BY <1>5, <2>1 DEF InsertRow, Moves, TypeOK
<1>6. ASSUME NEW h \in Handlers, InsertRowFails(h) PROVE TypeOK'
  BY <1>6 DEF InsertRowFails, Moves, Fails, TypeOK
<1>7. ASSUME NEW h \in Handlers, InsertEvent(h) PROVE TypeOK'
  <2>1. IdOf[about[h]] \in Ids
    BY <1>7, AboutHasId DEF InsertEvent, Moves
  <2>2. emitted' \in [Ids -> Nat]
    BY <1>7, <2>1 DEF InsertEvent, Emits, TypeOK
  <2> QED
    BY <1>7, <2>2 DEF InsertEvent, Moves, TypeOK
<1>8. ASSUME NEW h \in Handlers, InsertFails(h) PROVE TypeOK'
  <2>1. PICK s \in {"inserting", "emitting"} : Moves(h, s, "replying")
    BY <1>8 DEF InsertFails
  <2>2. /\ pc[h] # "idle" /\ pc' = [pc EXCEPT ![h] = "replying"]
        /\ UNCHANGED <<status, completed, answered, about, overlaps, calls>>
    BY <2>1 DEF Moves
  <2> QED
    BY <1>8, <2>2 DEF InsertFails, Fails, TypeOK
<1>9. ASSUME NEW h \in Handlers, Reply(h) PROVE TypeOK'
  <2>1. Ok(h) /\ Done(h) /\ UNCHANGED completed /\ pc[h] # "idle"
    BY <1>9 DEF Reply, Ok
  <2> QED
    BY <1>9, <2>1, DoneKeepsHandlers, AnsweredIsCompleted DEF Reply, TypeOK
<1>10. ASSUME NEW h \in Handlers, Die(h) PROVE TypeOK'
  BY <1>10, DoneKeepsHandlers DEF Die, Fails, TypeOK
<1>11. CASE UNCHANGED vars
  BY <1>11 DEF vars, TypeOK
<1> QED
  BY <1>1, <1>2, <1>3, <1>4, <1>5, <1>6, <1>7, <1>8, <1>9, <1>10, <1>11
  DEF Next, Handle

\* Types are kept by every step of every handling, its failures included.
THEOREM TypeCorrect == Spec => []TypeOK
  BY TypeInit, TypeStep, PTL DEF Spec

(***************************************************************************)
(* How often an event is emitted.                                          *)
(***************************************************************************)

\* Handlings of an id whose next statement is the event.
Emitting(g) == {h \in Handlers : pc[h] = "emitting" /\ IdOf[about[h]] = g}

\* Before the dedup row there is a failure for each event that is there or is
\* being inserted, and all but one of the handlings past the check overlapped
\* another.  After it nobody passes the check: what is past it may emit yet.
CountedOf(g) ==
  IF g \in inbound
  THEN emitted[g] + Cardinality(Past(g)) <= 1 + overlaps[g] + faults
  ELSE /\ emitted[g] + Cardinality(Emitting(g)) <= faults
       /\ Cardinality(Past(g)) <= 1 + overlaps[g]

Counted == \A g \in Ids : CountedOf(g)

\* Handlings of one id are finitely many, those that emit among those past the check.
LEMMA CrowdsAreFinite ==
  ASSUME NEW g
  PROVE  /\ IsFiniteSet(Past(g)) /\ Cardinality(Past(g)) \in Nat
         /\ IsFiniteSet(Emitting(g)) /\ Cardinality(Emitting(g)) \in Nat
<1>1. Past(g) \subseteq Handlers /\ Emitting(g) \subseteq Handlers
  BY DEF Past, Emitting
<1> QED
  BY <1>1, InboundAssumption, FS_Subset, FS_CardinalityType

\* A crowd that loses a member, if it has that member, is smaller by one.
LEMMA OneLess ==
  ASSUME NEW S, IsFiniteSet(S), NEW h \in S
  PROVE  /\ Cardinality(S) \in Nat /\ Cardinality(S \ {h}) \in Nat
         /\ Cardinality(S \ {h}) = Cardinality(S) - 1
<1>1. IsFiniteSet(S \ {h}) /\ Cardinality(S \ {h}) = Cardinality(S) - 1
  BY FS_RemoveElement
<1> QED
  BY <1>1, FS_CardinalityType

LEMMA CountedInit == Init => Counted
<1> SUFFICES ASSUME Init, NEW g \in Ids PROVE CountedOf(g)
  BY DEF Counted
<1>1. Past(g) = {} /\ Emitting(g) = {}
  BY DEF Init, Past, Emitting
<1>2. Cardinality(Past(g)) = 0 /\ Cardinality(Emitting(g)) = 0
  BY <1>1, FS_EmptySet
<1> QED
  BY <1>2 DEF Init, CountedOf

\* Nothing is to be shown of an id whose handlings and counts stay, whatever fails.
LEMMA CountStays ==
  ASSUME TypeOK, NEW g \in Ids, CountedOf(g),
         (g \in inbound') <=> (g \in inbound),
         Past(g)' \subseteq Past(g), Emitting(g)' \subseteq Emitting(g),
         emitted'[g] = emitted[g], overlaps'[g] = overlaps[g],
         faults' \in {faults, faults + 1}
  PROVE  CountedOf(g)'
<1>1. Cardinality(Past(g)') <= Cardinality(Past(g)) /\ Cardinality(Past(g)') \in Nat
  BY CrowdsAreFinite, FS_Subset, FS_CardinalityType
<1>2. Cardinality(Emitting(g)') <= Cardinality(Emitting(g))
      /\ Cardinality(Emitting(g)') \in Nat
  BY CrowdsAreFinite, FS_Subset, FS_CardinalityType
<1>3. Cardinality(Past(g)) \in Nat /\ Cardinality(Emitting(g)) \in Nat
  BY CrowdsAreFinite
<1>4. emitted[g] \in Nat /\ overlaps[g] \in Nat /\ faults \in Nat
  BY DEF TypeOK
<1> QED
  BY <1>1, <1>2, <1>3, <1>4 DEF CountedOf

\* Each step of a handling keeps the count of every id.
LEMMA CountStep == TypeOK /\ Counted /\ [Next]_vars => Counted'
<1> SUFFICES ASSUME TypeOK, Counted, [Next]_vars, NEW g \in Ids PROVE CountedOf(g)'
  BY DEF Counted
<1>a. CountedOf(g)
  BY DEF Counted
<1>b. emitted[g] \in Nat /\ overlaps[g] \in Nat /\ faults \in Nat
  BY DEF TypeOK
<1>c. /\ IsFiniteSet(Past(g)) /\ Cardinality(Past(g)) \in Nat
      /\ IsFiniteSet(Emitting(g)) /\ Cardinality(Emitting(g)) \in Nat
  BY CrowdsAreFinite
<1>1. ASSUME NEW p \in Payments, Complete(p) PROVE CountedOf(g)'
  BY <1>a, <1>b, <1>1, CountStays DEF Complete, Past, Emitting
<1>2. ASSUME NEW h \in Handlers, NEW p \in Payments, Notify(h, p)
      PROVE  CountedOf(g)'
  <2>1. Past(g)' \subseteq Past(g) /\ Emitting(g)' \subseteq Emitting(g)
    BY <1>2 DEF Notify, Past, Emitting, TypeOK
  <2> QED
    BY <1>a, <1>b, <1>2, <2>1, CountStays DEF Notify
\* A handler that is done leaves the crowds it was in.
<1>d. ASSUME NEW h \in Handlers, Done(h)
      PROVE  Past(g)' \subseteq Past(g) /\ Emitting(g)' \subseteq Emitting(g)
  BY <1>d DEF Done, Past, Emitting, TypeOK
<1>3. ASSUME NEW h \in Handlers, Check(h) PROVE CountedOf(g)'
  <2>1. CASE Seen(IdOf[about[h]])
    <3>1. Done(h) /\ UNCHANGED <<inbound, emitted, overlaps, faults>>
      BY <1>3, <2>1 DEF Check, Ok
    <3>2. Past(g)' \subseteq Past(g) /\ Emitting(g)' \subseteq Emitting(g)
      BY <1>d, <3>1
    <3> QED
      BY <1>a, <1>b, <3>1, <3>2, CountStays
  <2>2. CASE ~ Seen(IdOf[about[h]]) /\ IdOf[about[h]] # g
    <3>1. Past(g)' \subseteq Past(g) /\ Emitting(g)' \subseteq Emitting(g)
      BY <1>3, <2>2 DEF Check, Past, Emitting, TypeOK
    <3>2. overlaps'[g] = overlaps[g] /\ UNCHANGED <<inbound, emitted, faults>>
      BY <1>3, <2>2 DEF Check, TypeOK
    <3> QED
      BY <1>a, <1>b, <3>1, <3>2, CountStays
  <2>3. CASE ~ Seen(IdOf[about[h]]) /\ IdOf[about[h]] = g
    <3>1. g \notin inbound /\ UNCHANGED <<inbound, emitted, faults>>
      BY <1>3, <2>3 DEF Check, Seen
    <3>2. h \notin Past(g) /\ Past(g)' = Past(g) \cup {h} /\ Emitting(g)' = Emitting(g)
      BY <1>3, <2>3 DEF Check, Past, Emitting, TypeOK
    <3>3. Cardinality(Past(g)') = Cardinality(Past(g)) + 1
      BY <1>c, <3>2, FS_AddElement
    <3>4. overlaps'[g] = IF Past(g) = {} THEN overlaps[g] ELSE overlaps[g] + 1
      BY <1>3, <2>3 DEF Check, TypeOK
    <3>5. Past(g) = {} => Cardinality(Past(g)) = 0
      BY FS_EmptySet
    <3> QED
      BY <1>a, <1>b, <1>c, <3>1, <3>2, <3>3, <3>4, <3>5 DEF CountedOf
  <2> QED
    BY <2>1, <2>2, <2>3
<1>4. ASSUME NEW h \in Handlers, CheckFails(h) PROVE CountedOf(g)'
  BY <1>a, <1>b, <1>d, <1>4, CountStays DEF CheckFails, Fails
\* Another id's handling changes nothing for this one.
<1>e. ASSUME NEW h \in Handlers, NEW s \in {"inserting", "emitting"},
             NEW t \in {"emitting", "replying"}, Moves(h, s, t), IdOf[about[h]] # g
      PROVE  Past(g)' \subseteq Past(g) /\ Emitting(g)' \subseteq Emitting(g)
  BY <1>e DEF Moves, Past, Emitting, TypeOK
\* Its own goes from the row to the event.
<1>f. ASSUME NEW h \in Handlers, Moves(h, "inserting", "emitting"), IdOf[about[h]] = g
      PROVE  /\ Past(g)' = Past(g)
             /\ Cardinality(Emitting(g)') = Cardinality(Emitting(g)) + 1
  <2>1. /\ Past(g)' = Past(g)
        /\ h \notin Emitting(g) /\ Emitting(g)' = Emitting(g) \cup {h}
    BY <1>f DEF Moves, Past, Emitting, TypeOK
  <2> QED
    BY <1>c, <2>1, FS_AddElement
<1>5. ASSUME NEW h \in Handlers, InsertRow(h) PROVE CountedOf(g)'
  <2>1. CASE IdOf[about[h]] # g
    BY <1>a, <1>b, <1>e, <1>5, <2>1, CountStays DEF InsertRow, Moves
  <2>2. CASE IdOf[about[h]] = g
    <3>1. Past(g)' = Past(g) /\ g \in inbound' /\ UNCHANGED <<emitted, overlaps, faults>>
      BY <1>f, <1>5, <2>2 DEF InsertRow, Moves
    <3> QED
      BY <1>a, <1>b, <1>c, <3>1 DEF CountedOf
  <2> QED
    BY <2>1, <2>2
<1>6. ASSUME NEW h \in Handlers, InsertRowFails(h) PROVE CountedOf(g)'
  <2>0. faults' = faults + 1 /\ UNCHANGED <<inbound, emitted, overlaps>>
    BY <1>6 DEF InsertRowFails, Moves, Fails
  <2>1. CASE IdOf[about[h]] # g
    BY <1>a, <1>b, <1>e, <1>6, <2>0, <2>1, CountStays DEF InsertRowFails
  <2>2. CASE IdOf[about[h]] = g
    <3>1. /\ Past(g)' = Past(g)
          /\ Cardinality(Emitting(g)') = Cardinality(Emitting(g)) + 1
      BY <1>f, <1>6, <2>2 DEF InsertRowFails
    <3> QED
      BY <1>a, <1>b, <1>c, <2>0, <3>1 DEF CountedOf
  <2> QED
    BY <2>1, <2>2
<1>7. ASSUME NEW h \in Handlers, InsertEvent(h) PROVE CountedOf(g)'
  <2>0. /\ Moves(h, "emitting", "replying") /\ UNCHANGED <<inbound, overlaps, faults>>
        /\ emitted' = [emitted EXCEPT ![IdOf[about[h]]] = @ + 1]
    BY <1>7 DEF InsertEvent, Moves, Emits
  <2>1. CASE IdOf[about[h]] # g
    <3>1. emitted'[g] = emitted[g]
      BY <2>0, <2>1 DEF TypeOK
    <3> QED
      BY <1>a, <1>b, <1>e, <2>0, <2>1, <3>1, CountStays
  <2>2. CASE IdOf[about[h]] = g
    <3>1. emitted'[g] = emitted[g] + 1
      BY <2>0, <2>2 DEF TypeOK
    <3>2. /\ h \in Past(g) /\ Past(g)' = Past(g) \ {h}
          /\ h \in Emitting(g) /\ Emitting(g)' = Emitting(g) \ {h}
      BY <2>0, <2>2 DEF Moves, Past, Emitting, TypeOK
    <3>3. /\ Cardinality(Past(g)') = Cardinality(Past(g)) - 1
          /\ Cardinality(Past(g)') \in Nat
      BY <1>c, <3>2, OneLess
    <3>4. /\ Cardinality(Emitting(g)') = Cardinality(Emitting(g)) - 1
          /\ Cardinality(Emitting(g)') \in Nat
      BY <1>c, <3>2, OneLess
    <3> QED
      BY <1>a, <1>b, <1>c, <2>0, <3>1, <3>3, <3>4 DEF CountedOf
  <2> QED
    BY <2>1, <2>2
<1>8. ASSUME NEW h \in Handlers, InsertFails(h) PROVE CountedOf(g)'
  <2>1. PICK s \in {"inserting", "emitting"} : Moves(h, s, "replying")
    BY <1>8 DEF InsertFails
  <2>2. Past(g)' \subseteq Past(g) /\ Emitting(g)' \subseteq Emitting(g)
    BY <2>1 DEF Moves, Past, Emitting, TypeOK
  <2> QED
    BY <1>a, <1>b, <1>8, <2>1, <2>2, CountStays DEF InsertFails, Moves, Fails
<1>9. ASSUME NEW h \in Handlers, Reply(h) PROVE CountedOf(g)'
  BY <1>a, <1>b, <1>d, <1>9, CountStays DEF Reply, Ok
<1>10. ASSUME NEW h \in Handlers, Die(h) PROVE CountedOf(g)'
  BY <1>a, <1>b, <1>d, <1>10, CountStays DEF Die, Fails
<1>11. CASE UNCHANGED vars
  BY <1>a, <1>b, <1>11, CountStays DEF vars, Past, Emitting
<1> QED
  BY <1>1, <1>2, <1>3, <1>4, <1>5, <1>6, <1>7, <1>8, <1>9, <1>10, <1>11
  DEF Next, Handle

\* However notifications are repeated and overlap, and whichever statements
\* fail, an event beyond the first of its id comes from a handling that passed
\* isInboundSeen among others, or from a failure (ingestInboundAndEmit).
THEOREM EmittedByTheCheck == Spec => []EmittedOnce
<1>1. TypeOK /\ Counted => EmittedOnce
  <2> SUFFICES ASSUME TypeOK, Counted, NEW g \in Ids
               PROVE  emitted[g] <=
                        faults + (IF g \in inbound THEN 1 + overlaps[g] ELSE 0)
    BY DEF EmittedOnce
  <2>1. CountedOf(g) /\ emitted[g] \in Nat /\ overlaps[g] \in Nat /\ faults \in Nat
    BY DEF Counted, TypeOK
  <2>2. Cardinality(Past(g)) \in Nat /\ Cardinality(Emitting(g)) \in Nat
    BY CrowdsAreFinite
  <2> QED
    BY <2>1, <2>2 DEF CountedOf
<1> QED
  BY <1>1, TypeInit, TypeStep, CountedInit, CountStep, PTL DEF Spec

(***************************************************************************)
(* What is lost.                                                           *)
(***************************************************************************)

\* Ids that a handling has taken up for good and whose event is neither there
\* nor about to be inserted.
Gone ==
  {g \in Ids :
     /\ \/ g \in inbound
        \/ \E p \in answered : IdOf[p] = g
        \/ \E h \in Handlers : pc[h] = "replying" /\ IdOf[about[h]] = g
     /\ emitted[g] = 0
     /\ Emitting(g) = {}}

\* They are finitely many: one more with each failure.
LossesCounted == IsFiniteSet(Gone) /\ Cardinality(Gone) <= faults

\* A step that takes no new id away loses nothing.
LEMMA NothingLost ==
  ASSUME TypeOK, TypeOK', LossesCounted, Gone' \subseteq Gone,
         faults' \in {faults, faults + 1}
  PROVE  LossesCounted'
<1>1. IsFiniteSet(Gone') /\ Cardinality(Gone') <= Cardinality(Gone)
  BY FS_Subset DEF LossesCounted
<1>2. Cardinality(Gone) \in Nat /\ Cardinality(Gone') \in Nat
  BY <1>1, FS_CardinalityType DEF LossesCounted
<1> QED
  BY <1>1, <1>2 DEF LossesCounted, TypeOK

\* One failure costs one event at most.
LEMMA OneLost ==
  ASSUME TypeOK, LossesCounted, NEW g, Gone' \subseteq Gone \cup {g},
         faults' = faults + 1
  PROVE  LossesCounted'
<1>1. /\ IsFiniteSet(Gone \cup {g})
      /\ Cardinality(Gone \cup {g}) =
           IF g \in Gone THEN Cardinality(Gone) ELSE Cardinality(Gone) + 1
  BY FS_AddElement DEF LossesCounted
<1>2. IsFiniteSet(Gone') /\ Cardinality(Gone') <= Cardinality(Gone \cup {g})
  BY <1>1, FS_Subset
<1>3. Cardinality(Gone) \in Nat /\ Cardinality(Gone') \in Nat
  BY <1>2, FS_CardinalityType DEF LossesCounted
<1> QED
  BY <1>1, <1>2, <1>3 DEF LossesCounted, TypeOK

LEMMA LossesInit == Init => LossesCounted
<1> SUFFICES ASSUME Init PROVE LossesCounted
  OBVIOUS
<1>1. Gone = {} /\ faults = 0
  BY DEF Init, Gone
<1> QED
  BY <1>1, FS_EmptySet DEF LossesCounted

LEMMA LossesStep ==
  TypeOK /\ TypeOK' /\ LossesCounted /\ [Next]_vars => LossesCounted'
<1> SUFFICES ASSUME TypeOK, TypeOK', LossesCounted, [Next]_vars
             PROVE  LossesCounted'
  OBVIOUS
<1>1. ASSUME NEW p \in Payments, Complete(p) PROVE LossesCounted'
  BY <1>1, NothingLost DEF Complete, Gone, Emitting
<1>2. ASSUME NEW h \in Handlers, NEW p \in Payments, Notify(h, p)
      PROVE  LossesCounted'
  <2>1. Gone' \subseteq Gone
    BY <1>2 DEF Notify, Gone, Emitting, TypeOK
  <2> QED
    BY <1>2, <2>1, NothingLost DEF Notify
<1>3. ASSUME NEW h \in Handlers, Check(h) PROVE LossesCounted'
  <2>1. Gone' \subseteq Gone
    <3>1. CASE Seen(IdOf[about[h]])
      BY <1>3, <3>1 DEF Check, Seen, Ok, Done, Gone, Emitting, TypeOK
    <3>2. CASE ~ Seen(IdOf[about[h]])
      BY <1>3, <3>2 DEF Check, Gone, Emitting, TypeOK
    <3> QED
      BY <3>1, <3>2
  <2> QED
    BY <1>3, <2>1, NothingLost DEF Check
<1>4. ASSUME NEW h \in Handlers, CheckFails(h) PROVE LossesCounted'
  <2>1. Gone' \subseteq Gone
    BY <1>4 DEF CheckFails, Done, Gone, Emitting, TypeOK
  <2> QED
    BY <1>4, <2>1, NothingLost DEF CheckFails, Fails
<1>5. ASSUME NEW h \in Handlers, InsertRow(h) PROVE LossesCounted'
  <2>1. h \in Emitting(IdOf[about[h]])'
    BY <1>5 DEF InsertRow, Moves, Emitting, TypeOK
  <2>2. Gone' \subseteq Gone
    BY <1>5, <2>1 DEF InsertRow, Moves, Gone, Emitting, TypeOK
  <2> QED
    BY <1>5, <2>2, NothingLost DEF InsertRow
<1>6. ASSUME NEW h \in Handlers, InsertRowFails(h) PROVE LossesCounted'
  <2>1. Gone' \subseteq Gone
    BY <1>6 DEF InsertRowFails, Moves, Gone, Emitting, TypeOK
  <2> QED
    BY <1>6, <2>1, NothingLost DEF InsertRowFails, Fails
<1>7. ASSUME NEW h \in Handlers, InsertEvent(h) PROVE LossesCounted'
  <2> DEFINE g == IdOf[about[h]]
  <2>1. g \in Ids
    BY <1>7, AboutHasId DEF InsertEvent, Moves
  <2>2. emitted'[g] # 0 /\ \A i \in Ids \ {g} : emitted'[i] = emitted[i]
    BY <1>7, <2>1 DEF InsertEvent, Emits, TypeOK
  <2>3. \A i \in Ids \ {g} : Emitting(i)' = {} => Emitting(i) = {}
    BY <1>7 DEF InsertEvent, Moves, Emitting, TypeOK
  <2>4. \A i \in Ids \ {g} :
          (\E k \in Handlers : pc'[k] = "replying" /\ IdOf[about'[k]] = i)
            => \E k \in Handlers : pc[k] = "replying" /\ IdOf[about[k]] = i
    BY <1>7 DEF InsertEvent, Moves, TypeOK
  <2>5. UNCHANGED <<inbound, answered, faults>>
    BY <1>7 DEF InsertEvent, Moves
  <2>6. Gone' \subseteq Gone
    BY <2>2, <2>3, <2>4, <2>5 DEF Gone
  <2> QED
    BY <2>5, <2>6, NothingLost
<1>8. ASSUME NEW h \in Handlers, InsertFails(h) PROVE LossesCounted'
  <2> DEFINE g == IdOf[about[h]]
  <2>1. PICK s \in {"inserting", "emitting"} : Moves(h, s, "replying")
    BY <1>8 DEF InsertFails
  <2>2. Gone' \subseteq Gone \cup {g}
    BY <1>8, <2>1 DEF InsertFails, Moves, Gone, Emitting, TypeOK
  <2>3. faults' = faults + 1
    BY <1>8 DEF InsertFails, Fails
  <2> QED
    BY <2>2, <2>3, OneLost
<1>9. ASSUME NEW h \in Handlers, Reply(h) PROVE LossesCounted'
  <2>1. Gone' \subseteq Gone
    BY <1>9 DEF Reply, Ok, Done, Gone, Emitting, TypeOK
  <2> QED
    BY <1>9, <2>1, NothingLost DEF Reply
<1>10. ASSUME NEW h \in Handlers, Die(h) PROVE LossesCounted'
  <2> DEFINE g == IdOf[about[h]]
  <2>1. Gone' \subseteq Gone \cup {g}
    BY <1>10 DEF Die, Done, Gone, Emitting, TypeOK
  <2>2. faults' = faults + 1
    BY <1>10 DEF Die, Fails
  <2> QED
    BY <2>1, <2>2, OneLost
<1>11. CASE UNCHANGED vars
  BY <1>11, NothingLost DEF vars, Gone, Emitting
<1> QED
  BY <1>1, <1>2, <1>3, <1>4, <1>5, <1>6, <1>7, <1>8, <1>9, <1>10, <1>11
  DEF Next, Handle

\* However notifications repeat and interleave, whichever statement fails and
\* wherever a handling dies, the gateway events that were answered 200 and will
\* never be emitted are no more than the failures (ingestInboundAndEmit takes
\* every error for a replay, and answers from a row whose event failed).
THEOREM LossesAreFaults == Spec => []OnlyFaultsLose
<1>1. TypeOK /\ LossesCounted => OnlyFaultsLose
  <2> SUFFICES ASSUME TypeOK, LossesCounted PROVE OnlyFaultsLose
    OBVIOUS
  <2>1. Lost \subseteq Gone
    BY DEF Lost, Gone, Emitting
  <2>2. IsFiniteSet(Lost) /\ Cardinality(Lost) <= Cardinality(Gone)
    BY <2>1, FS_Subset DEF LossesCounted
  <2>3. Cardinality(Lost) \in Nat /\ Cardinality(Gone) \in Nat /\ faults \in Nat
    BY <2>2, FS_CardinalityType DEF LossesCounted, TypeOK
  <2> QED
    BY <2>2, <2>3 DEF LossesCounted, OnlyFaultsLose
<1> QED
  BY <1>1, TypeInit, TypeStep, LossesInit, LossesStep, PTL DEF Spec
=============================================================================
