---------------------------- MODULE InboundWebhooks ----------------------------
(***************************************************************************)
(* Inbound gateway webhooks: the gateway (or the sandbox's /mock/3ds page) *)
(* notifies that the payer has completed a payment left in                 *)
(* requires_action, and repeats itself.  A notification is looked up by    *)
(* its gateway event id; an unseen one gets a dedup row and an outbox      *)
(* event, by two statements that are no transaction.                       *)
(***************************************************************************)
EXTENDS Naturals, FiniteSets

CONSTANTS
  Payments,   \* payments that wait for their payer
  Ids,        \* gateway event ids
  IdOf,       \* the event id the gateway gives the completion of a payment
  Handlers,   \* notifications being handled at the same time
  NoPayment,  \* what an idle handler is about
  MaxCalls,   \* bound on the notifications sent
  MaxFaults   \* bound on the failures of the database and of handlers

ASSUME InboundAssumption ==
  /\ IdOf \in [Payments -> Ids]
  /\ IsFiniteSet(Handlers)
  /\ NoPayment \notin Payments
  /\ MaxCalls \in Nat /\ MaxFaults \in Nat

VARIABLES
  status,     \* the status of each payment row; no handler here writes it
  completed,  \* payments the payer has completed at the gateway
  inbound,    \* the inbound_webhook table: event ids seen
  emitted,    \* payment.succeeded events in the outbox, per event id
  answered,   \* payments whose notification was answered 200
  pc, about,  \* per handler: its step and the payment it is about
  overlaps,   \* history: handlings of an id that passed the check among others
  calls, faults

vars ==
  <<status, completed, inbound, emitted, answered, pc, about, overlaps, calls, faults>>

Init ==
  /\ status = [p \in Payments |-> "requires_action"]
  /\ completed = {}
  /\ inbound = {}
  /\ emitted = [g \in Ids |-> 0]
  /\ answered = {}
  /\ pc = [h \in Handlers |-> "idle"]
  /\ about = [h \in Handlers |-> NoPayment]
  /\ overlaps = [g \in Ids |-> 0]
  /\ calls = 0 /\ faults = 0

\* The payer completes the challenge at the gateway.
Complete(p) ==
  /\ p \notin completed
  /\ completed' = completed \cup {p}
  /\ UNCHANGED <<status, inbound, emitted, answered, pc, about, overlaps, calls, faults>>

\* The gateway notifies, and repeats itself: its last answer may be lost.
Notify(h, p) ==
  /\ pc[h] = "idle"
  /\ p \in completed
  /\ calls < MaxCalls
  /\ calls' = calls + 1
  /\ pc' = [pc EXCEPT ![h] = "checking"]
  /\ about' = [about EXCEPT ![h] = p]
  /\ UNCHANGED <<status, completed, inbound, emitted, answered, overlaps, faults>>

\* The request goes.  Mutant: the handler is freed and keeps its step.
Done_StepKept(h) ==
  /\ UNCHANGED pc
  /\ about' = [about EXCEPT ![h] = NoPayment]
Done(h) ==
  /\ pc' = [pc EXCEPT ![h] = "idle"]
  /\ about' = [about EXCEPT ![h] = NoPayment]

\* With 200 the gateway stops.
Ok(h) == answered' = answered \cup {about[h]} /\ Done(h)

Fails == faults < MaxFaults /\ faults' = faults + 1

\* Handlings of an id that are past the check and may still emit.
Past(g) ==
  {h \in Handlers : pc[h] \in {"inserting", "emitting"} /\ IdOf[about[h]] = g}

\* isInboundSeen.  Mutant: the look-up is left to the UNIQUE index.
Seen_Never(g) == FALSE
Seen(g) == g \in inbound

\* An id that was seen is answered at once.
Check(h) ==
  LET g == IdOf[about[h]]
  IN  /\ pc[h] = "checking"
      /\ IF Seen(g)
         THEN Ok(h) /\ UNCHANGED overlaps
         ELSE /\ pc' = [pc EXCEPT ![h] = "inserting"]
              /\ overlaps' = [overlaps EXCEPT ![g] = IF Past(g) = {} THEN @ ELSE @ + 1]
              /\ UNCHANGED <<about, answered>>
      /\ UNCHANGED <<status, completed, inbound, emitted, calls, faults>>

\* The check itself fails: an error, not a 200.
CheckFails(h) ==
  /\ pc[h] = "checking"
  /\ Fails
  /\ Done(h)
  /\ UNCHANGED <<status, completed, inbound, emitted, answered, overlaps, calls>>

Moves(h, from, to) ==
  /\ pc[h] = from
  /\ pc' = [pc EXCEPT ![h] = to]
  /\ UNCHANGED <<status, completed, answered, about, overlaps, calls>>

\* The first statement.  The UNIQUE index refuses a second row of the id; as
\* the statements are no transaction, the next one runs all the same.
InsertRow(h) ==
  /\ Moves(h, "inserting", "emitting")
  /\ inbound' = inbound \cup {IdOf[about[h]]}
  /\ UNCHANGED <<emitted, faults>>

\* It fails alone: no row, and the next statement runs all the same.
InsertRowFails(h) ==
  /\ Moves(h, "inserting", "emitting")
  /\ Fails
  /\ UNCHANGED <<inbound, emitted>>

\* Mutant: the event is left to a later pass.
Emits_Later(g) == UNCHANGED emitted
Emits(g) == emitted' = [emitted EXCEPT ![g] = @ + 1]

\* The second statement: the event, under an id of its own.
InsertEvent(h) ==
  /\ Moves(h, "emitting", "replying")
  /\ Emits(IdOf[about[h]])
  /\ UNCHANGED <<inbound, faults>>

\* It fails, or the whole query does before its first statement.
InsertFails(h) ==
  /\ \E s \in {"inserting", "emitting"} : Moves(h, s, "replying")
  /\ Fails
  /\ UNCHANGED <<inbound, emitted>>

\* 200, whether the query went through, was refused (a replay, it is taken
\* for) or failed.
Reply(h) ==
  /\ pc[h] = "replying"
  /\ Ok(h)
  /\ UNCHANGED <<status, completed, inbound, emitted, overlaps, calls, faults>>

\* The process dies before it answers.
Die(h) ==
  /\ pc[h] # "idle"
  /\ Fails
  /\ Done(h)
  /\ UNCHANGED <<status, completed, inbound, emitted, answered, overlaps, calls>>

Handle(h) ==
  \/ Check(h) \/ CheckFails(h)
  \/ InsertRow(h) \/ InsertRowFails(h) \/ InsertEvent(h) \/ InsertFails(h)
  \/ Reply(h) \/ Die(h)

Next ==
  \/ \E p \in Payments : Complete(p)
  \/ \E h \in Handlers : (\E p \in Payments : Notify(h, p)) \/ Handle(h)

Spec == Init /\ [][Next]_vars

-----------------------------------------------------------------------------
(* Properties.                                                             *)

\* Every variable has its type, and only completed payments are notified of.
TypeOK ==
  /\ status \in [Payments -> {"requires_action", "succeeded"}]
  /\ completed \subseteq Payments
  /\ inbound \subseteq Ids
  /\ emitted \in [Ids -> Nat]
  /\ answered \subseteq completed
  /\ pc \in [Handlers -> {"idle", "checking", "inserting", "emitting", "replying"}]
  /\ about \in [Handlers -> Payments \cup {NoPayment}]
  /\ \A h \in Handlers : pc[h] # "idle" => about[h] \in completed
  /\ overlaps \in [Ids -> Nat]
  /\ calls \in Nat /\ faults \in Nat

\* A gateway event becomes one canonical event, and its dedup row is there
\* first.  Each further one is due to a handling that passed the check while
\* another was past it, or to a failure; each one without its row to a failure.
\* The UNIQUE index gives no more: it is the check that stops repeats.
EmittedOnce ==
  \A g \in Ids :
    emitted[g] <= faults + (IF g \in inbound THEN 1 + overlaps[g] ELSE 0)

\* Each failure costs at most one gateway event, and nothing else does: no more
\* ids were answered 200 and have no event, nor a handling about to insert it,
\* than requests failed.  A handling that dies or fails between its statements
\* leaves a row that every repeat is answered from, and counts as one.
Lost ==
  {g \in Ids :
     /\ \E p \in answered : IdOf[p] = g
     /\ emitted[g] = 0
     /\ \A h \in Handlers : ~ (pc[h] = "emitting" /\ IdOf[about[h]] = g)}
OnlyFaultsLose == Cardinality(Lost) <= faults

-----------------------------------------------------------------------------
(* What the repository's documents say and the code does not keep; the     *)
(* README tells how each comes about.                                      *)

\* Every payment whose completion was answered 200 has an event of its own:
\* the gateway will not send it again, so what is not emitted by then is lost.
EachPaymentAnnounced ==
  \A g \in Ids : Cardinality({p \in answered : IdOf[p] = g}) <= emitted[g]

\* payment.succeeded says what the payment row says.
EventsMatchRows ==
  \A p \in Payments : emitted[IdOf[p]] > 0 => status[p] = "succeeded"
=============================================================================
