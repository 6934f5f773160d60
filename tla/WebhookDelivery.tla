---------------------------- MODULE WebhookDelivery ----------------------------
(***************************************************************************)
(* The outbox drainer and the replay endpoint: every event of the outbox   *)
(* is POSTed to every enabled endpoint subscribed to its type until it is  *)
(* accepted or its attempts are used up.                                   *)
(*                                                                         *)
(* A timer starts a drain pass every few seconds whether or not the last   *)
(* one has ended, so passes overlap; a pass reads the outbox, the          *)
(* endpoints and the delivery rows in separate requests and works from     *)
(* what it read.  The merchant changes endpoints and asks for replays in   *)
(* between, and the process may restart, which forgets the in-memory       *)
(* backoff windows and every attempt in flight.                            *)
(***************************************************************************)
EXTENDS Naturals, Sequences, Functions

CONSTANTS
  Events,       \* ids of outbox events
  Endpoints,    \* ids of webhook endpoints
  Types,        \* canonical event types
  TypeOf,       \* the type of each event
  ObjectOf,     \* the domain object each event is about
  MaxAttempts,  \* values of an endpoint's max_attempts
  Workers,      \* drain passes and replays under way at the same time
  MaxChanges,   \* bound on the endpoint requests of the merchant
  MaxReplays,   \* bound on the replays
  MaxRestarts,  \* bound on the restarts of the process
  Watched       \* pairs whose POSTs the history counts

ASSUME DeliveryAssumption ==
  /\ TypeOf \in [Events -> Types]
  /\ DOMAIN ObjectOf = Events
  /\ MaxAttempts \subseteq Nat \ {0}
  /\ Watched \subseteq Events \X Endpoints
  /\ MaxChanges \in Nat /\ MaxReplays \in Nat /\ MaxRestarts \in Nat

VARIABLES
  outbox,    \* the events inserted so far, in the order of created_at
  endpoint,  \* the webhook_endpoint table
  delivery,  \* the event_delivery table, one row per event and endpoint
  cooling,   \* pairs whose window in the cooldown map has not passed
  pass,      \* per worker: its step and what it read
  flight,    \* per worker and pair: the attempt it is making
  posts,     \* POSTs made per pair (history)
  accepted,  \* pairs whose endpoint has answered 2xx (history)
  window,    \* pairs whose last failure is less than a backoff ago (history)
  early,     \* POSTs of drain passes per pair made inside a window (history)
  spared,    \* per pass: pairs settled when it began, not reset since (history)
  changes, replays, restarts

vars == <<outbox, endpoint, delivery, cooling, pass, flight, posts, accepted,
          window, early, spared, changes, replays, restarts>>

Pairs == Events \X Endpoints

EndpointRows == [live: BOOLEAN, enabled: BOOLEAN, events: SUBSET Types,
                 max: MaxAttempts \cup {0}]
NoEndpoint == [live |-> FALSE, enabled |-> FALSE, events |-> {}, max |-> 0]

DeliveryRows == [made: BOOLEAN, attempt: Nat, delivered: BOOLEAN,
                 deadlettered: BOOLEAN]
NoDelivery == [made |-> FALSE, attempt |-> 0, delivered |-> FALSE,
               deadlettered |-> FALSE]
\* Mutant: attempts are counted from zero.
FirstAttempt_Zero == [made |-> TRUE, attempt |-> 0, delivered |-> FALSE,
                      deadlettered |-> FALSE]
FirstAttempt == [made |-> TRUE, attempt |-> 1, delivered |-> FALSE,
                 deadlettered |-> FALSE]

\* Read and not yet POSTed; POSTed; answered; marked in the row.
Stages == {"none", "read", "posted", "accepted", "refused", "settled", "failed"}
Flights == [stage: Stages, attempt: Nat, max: MaxAttempts \cup {0}]
NoFlight == [stage |-> "none", attempt |-> 0, max |-> 0]

Steps == {"idle", "listing_endpoints", "listing_deliveries", "creating",
          "selected", "ensuring", "resetting", "reloading", "reloaded", "sending"}
\* `hot` is what the cooldown map says at the instant a pass began, its `now`.
Passes == [step: Steps, seen: SUBSET Events, hot: SUBSET Pairs, todo: SUBSET Pairs,
           missing: SUBSET Pairs, rows: [Endpoints -> EndpointRows]]
NoPass == [step |-> "idle", seen |-> {}, hot |-> {}, todo |-> {}, missing |-> {},
           rows |-> [p \in Endpoints |-> NoEndpoint]]

Emitted == Range(outbox)

Init ==
  /\ outbox = <<>>
  /\ endpoint = [p \in Endpoints |-> NoEndpoint]
  /\ delivery = [x \in Pairs |-> NoDelivery]
  /\ cooling = {}
  /\ pass = [w \in Workers |-> NoPass]
  /\ flight = [w \in Workers |-> [x \in Pairs |-> NoFlight]]
  /\ posts = [x \in Watched |-> 0]
  /\ accepted = {}
  /\ window = {}
  /\ early = [x \in Watched |-> 0]
  /\ spared = [w \in Workers |-> {}]
  /\ changes = 0 /\ replays = 0 /\ restarts = 0

history == <<posts, accepted, window, early, spared>>
bounds == <<changes, replays, restarts>>

-----------------------------------------------------------------------------
(* The merchant's endpoints and the domain's events.                       *)

\* The domain inserts an event with a state change.
Emit(e) ==
  /\ e \notin Emitted
  /\ outbox' = Append(outbox, e)
  /\ UNCHANGED <<endpoint, delivery, cooling, pass, flight, history, bounds>>

Change(p, row) ==
  /\ changes < MaxChanges
  /\ changes' = changes + 1
  /\ endpoint' = [endpoint EXCEPT ![p] = row]
  /\ UNCHANGED <<outbox, delivery, cooling, pass, flight, history, replays,
                 restarts>>

CreateEndpoint(p, enabled, types, max) ==
  /\ endpoint[p] = NoEndpoint
  /\ Change(p, [live |-> TRUE, enabled |-> enabled, events |-> types, max |-> max])

\* PATCH sets the fields of the body; an empty allow-list is refused.
PatchEndpoint(p, enabled, types, max) ==
  /\ endpoint[p].live
  /\ types # {}
  /\ Change(p, [endpoint[p] EXCEPT !.enabled = enabled, !.events = types,
                                   !.max = max])

\* DELETE leaves the endpoint's delivery rows behind.
DeleteEndpoint(p) ==
  /\ endpoint[p].live
  /\ Change(p, [endpoint[p] EXCEPT !.live = FALSE])

-----------------------------------------------------------------------------
(* A drain pass.                                                           *)

\* What a pass that read these events and endpoints has to deliver.
Subscribed(row, e) == row.live /\ row.enabled /\ TypeOf[e] \in row.events
Owed(events, rows) ==
  {x \in events \X Endpoints : Subscribed(rows[x[2]], x[1])}

Settled(row) == row.delivered \/ row.deadlettered

\* Mutant: a dead-lettered row is due again.
Pending_Deadlettered(x) == delivery[x].made /\ ~delivery[x].delivered
\* Mutant: off by one, the last attempt is never picked.
Pending_BeforeLast(x) ==
  /\ delivery[x].made /\ ~Settled(delivery[x])
  /\ delivery[x].attempt < endpoint[x[2]].max
Pending(x) == delivery[x].made /\ ~Settled(delivery[x])

\* The cooldown map, compared with the instant the pass began.
\* Mutant: it is not consulted.
Cooled_Any(w, x) == TRUE
Cooled(w, x) == x \notin pass[w].hot

Step(w, step) == pass' = [pass EXCEPT ![w].step = step]

\* The timer fires; the clock and the outbox are read.
BeginPass(w) ==
  /\ pass[w].step = "idle"
  /\ pass' = [pass EXCEPT ![w] = [NoPass EXCEPT !.step = "listing_endpoints",
                                                !.seen = Emitted, !.hot = cooling]]
  /\ spared' = [spared EXCEPT ![w] = {x \in Pairs : Settled(delivery[x])}]
  /\ UNCHANGED <<outbox, endpoint, delivery, cooling, flight, posts, accepted, window,
                 early, bounds>>

ListEndpoints(w) ==
  /\ pass[w].step = "listing_endpoints"
  /\ pass' = [pass EXCEPT ![w].step = "listing_deliveries",
                          ![w].rows = endpoint,
                          ![w].todo = Owed(pass[w].seen, endpoint)]
  /\ UNCHANGED <<outbox, endpoint, delivery, cooling, flight, history, bounds>>

ListDeliveries(w) ==
  /\ pass[w].step = "listing_deliveries"
  /\ pass' = [pass EXCEPT ![w].step = "creating",
                ![w].missing = {x \in pass[w].todo : ~delivery[x].made}]
  /\ UNCHANGED <<outbox, endpoint, delivery, cooling, flight, history, bounds>>

\* INSERT of one missing row: the UNIQUE index keeps a row that exists.
Inserted(x) == IF delivery[x].made THEN delivery
               ELSE [delivery EXCEPT ![x] = FirstAttempt]

CreateDelivery(w, x) ==
  /\ pass[w].step = "creating"
  /\ x \in pass[w].missing
  /\ delivery' = Inserted(x)
  /\ pass' = [pass EXCEPT ![w].missing = @ \ {x}]
  /\ UNCHANGED <<outbox, endpoint, cooling, flight, history, bounds>>

\* The rows of `work` are read: their attempts go by what they say.
Hold(w, work) ==
  flight' = [flight EXCEPT ![w] =
    [x \in Pairs |-> IF x \in work
                     THEN [stage |-> "read", attempt |-> delivery[x].attempt,
                           max |-> pass[w].rows[x[2]].max]
                     ELSE NoFlight]]

\* Their requests leave before anything else runs; the rest is let go.
Post(w, work) ==
  /\ flight' = [flight EXCEPT ![w] =
        [x \in Pairs |-> IF x \in work THEN [flight[w][x] EXCEPT !.stage = "posted"]
                         ELSE NoFlight]]
  /\ posts' = [x \in Watched |-> posts[x] + (IF x \in work THEN 1 ELSE 0)]

ReadBy(w) == {x \in Pairs : flight[w][x].stage = "read"}

\* The rows are read again, and the pending ones of the pass picked.
SelectDeliveries(w) ==
  /\ pass[w].step = "creating"
  /\ pass[w].missing = {}
  /\ Hold(w, {x \in pass[w].todo : Pending(x)})
  /\ Step(w, "selected")
  /\ UNCHANGED <<outbox, endpoint, delivery, cooling, history, bounds>>

\* The ones that are due are attempted at once, whatever happened to them since.
PostDue(w) ==
  LET due == {x \in ReadBy(w) : Cooled(w, x)}
  IN  /\ pass[w].step = "selected"
      /\ Post(w, due)
      /\ early' = [x \in Watched |-> early[x] + (IF x \in due \cap window THEN 1 ELSE 0)]
      /\ Step(w, "sending")
      /\ UNCHANGED <<outbox, endpoint, delivery, cooling, accepted, window, spared,
                     bounds>>

EndPass(w) ==
  /\ pass[w].step = "sending"
  /\ \A x \in Pairs : flight[w][x] = NoFlight
  /\ pass' = [pass EXCEPT ![w] = NoPass]
  /\ spared' = [spared EXCEPT ![w] = {}]
  /\ UNCHANGED <<outbox, endpoint, delivery, cooling, flight, posts, accepted, window,
                 early, bounds>>

-----------------------------------------------------------------------------
(* One attempt.                                                            *)

\* The endpoint answers 2xx.
Accepts(w, x) ==
  /\ flight[w][x].stage = "posted"
  /\ flight' = [flight EXCEPT ![w][x].stage = "accepted"]
  /\ accepted' = accepted \cup {x}
  /\ UNCHANGED <<outbox, endpoint, delivery, cooling, pass, posts, window, early, spared,
                 bounds>>

\* It answers anything else, is unreachable, or its 2xx is lost.
Refuses(w, x) ==
  /\ flight[w][x].stage = "posted"
  /\ flight' = [flight EXCEPT ![w][x].stage = "refused"]
  /\ \/ accepted' = accepted \cup {x}
     \/ UNCHANGED accepted
  /\ UNCHANGED <<outbox, endpoint, delivery, cooling, pass, posts, window, early, spared,
                 bounds>>

Is2xx(f) == f.stage = "accepted"

\* Mutant: off by one, one attempt more than the endpoint asked for.
Exhausted_Late(f) == f.attempt > f.max
Exhausted(f) == f.attempt >= f.max

NextAttempt(f) == f.attempt + 1

\* The UPDATE of the row; the cooldown map follows when it has been answered.
Marked(w, x, row, stage) ==
  /\ delivery' = [delivery EXCEPT ![x] = row]
  /\ flight' = [flight EXCEPT ![w][x].stage = stage]
  /\ window' = IF stage = "failed" THEN window \cup {x} ELSE window \ {x}
  /\ UNCHANGED <<outbox, endpoint, cooling, pass, posts, accepted, early, spared, bounds>>

MarkDelivered(w, x) ==
  /\ Is2xx(flight[w][x])
  /\ Marked(w, x, [delivery[x] EXCEPT !.delivered = TRUE], "settled")

MarkDeadlettered(w, x) ==
  LET f == flight[w][x]
  IN  /\ f.stage = "refused" /\ Exhausted(f)
      /\ Marked(w, x, [delivery[x] EXCEPT !.deadlettered = TRUE, !.attempt = f.attempt],
                "settled")

MarkFailed(w, x) ==
  LET f == flight[w][x]
  IN  /\ f.stage = "refused" /\ ~Exhausted(f)
      /\ Marked(w, x, [delivery[x] EXCEPT !.attempt = NextAttempt(f)], "failed")

\* cooldownMs.delete: no pass finds the pair in the map.  The attempt is over.
Forget(w, x) ==
  /\ flight[w][x].stage = "settled"
  /\ cooling' = cooling \ {x}
  /\ pass' = [v \in Workers |-> [pass[v] EXCEPT !.hot = @ \ {x}]]
  /\ flight' = [flight EXCEPT ![w][x] = NoFlight]
  /\ UNCHANGED <<outbox, endpoint, delivery, history, bounds>>

\* cooldownMs.set: the window ends after the start of every pass under way.
Remember(w, x) ==
  /\ flight[w][x].stage = "failed"
  /\ cooling' = cooling \cup {x}
  /\ pass' = [v \in Workers |-> IF pass[v].step = "idle" THEN pass[v]
                                ELSE [pass[v] EXCEPT !.hot = @ \cup {x}]]
  /\ flight' = [flight EXCEPT ![w][x] = NoFlight]
  /\ UNCHANGED <<outbox, endpoint, delivery, history, bounds>>

\* A backoff window passes; a pass that began before it did does not see that.
Elapse(x) ==
  /\ x \in window \cup cooling
  /\ cooling' = cooling \ {x}
  /\ window' = window \ {x}
  /\ UNCHANGED <<outbox, endpoint, delivery, pass, flight, posts, accepted, early, spared,
                 bounds>>

-----------------------------------------------------------------------------
(* Replay, and restarts.                                                   *)

\* POST .../redeliver reads the endpoint, enabled or not, and the event.
BeginReplay(w, x) ==
  /\ pass[w].step = "idle"
  /\ replays < MaxReplays
  /\ replays' = replays + 1
  /\ x[1] \in Emitted
  /\ endpoint[x[2]].live
  /\ pass' = [pass EXCEPT ![w] = [NoPass EXCEPT !.step = "ensuring", !.todo = {x},
                                                !.rows = endpoint]]
  /\ UNCHANGED <<outbox, endpoint, delivery, cooling, flight, history, changes,
                 restarts>>

\* The row is found, or made.
EnsureDelivery(w) ==
  /\ pass[w].step = "ensuring"
  /\ \E x \in pass[w].todo : delivery' = Inserted(x)
  /\ Step(w, "resetting")
  /\ UNCHANGED <<outbox, endpoint, cooling, flight, history, bounds>>

\* The row starts over; its backoff window stays.
ResetForReplay(w) ==
  /\ pass[w].step = "resetting"
  /\ \E x \in pass[w].todo :
       /\ delivery' = [delivery EXCEPT ![x] = FirstAttempt]
       /\ spared' = [v \in Workers |-> spared[v] \ {x}]
  /\ Step(w, "reloading")
  /\ UNCHANGED <<outbox, endpoint, cooling, flight, posts, accepted, window, early, bounds>>

\* The row is read back, whatever it says by now.
Reload(w) ==
  /\ pass[w].step = "reloading"
  /\ Hold(w, pass[w].todo)
  /\ Step(w, "reloaded")
  /\ UNCHANGED <<outbox, endpoint, delivery, cooling, history, bounds>>

\* It is attempted, its backoff window notwithstanding.
Redeliver(w) ==
  /\ pass[w].step = "reloaded"
  /\ Post(w, ReadBy(w))
  /\ Step(w, "sending")
  /\ UNCHANGED <<outbox, endpoint, delivery, cooling, accepted, window, early, spared,
                 bounds>>

\* The process stops and starts again: passes, attempts and the cooldown map
\* are gone, the tables and the merchant's clocks are not.
Restart ==
  /\ restarts < MaxRestarts
  /\ restarts' = restarts + 1
  /\ pass' = [w \in Workers |-> NoPass]
  /\ flight' = [w \in Workers |-> [x \in Pairs |-> NoFlight]]
  /\ cooling' = {}
  /\ spared' = [w \in Workers |-> {}]
  /\ UNCHANGED <<outbox, endpoint, delivery, posts, accepted, window, early, changes,
                 replays>>

-----------------------------------------------------------------------------

Merchant ==
  \E p \in Endpoints :
    \/ \E enabled \in BOOLEAN, types \in SUBSET Types, max \in MaxAttempts :
         CreateEndpoint(p, enabled, types, max) \/ PatchEndpoint(p, enabled, types, max)
    \/ DeleteEndpoint(p)

Drain(w) ==
  \/ BeginPass(w) \/ ListEndpoints(w) \/ ListDeliveries(w)
  \/ \E x \in Pairs : CreateDelivery(w, x)
  \/ SelectDeliveries(w) \/ PostDue(w) \/ EndPass(w)

Replay(w) == EnsureDelivery(w) \/ ResetForReplay(w) \/ Reload(w) \/ Redeliver(w)

Attempt(w, x) ==
  Accepts(w, x) \/ Refuses(w, x) \/ MarkDelivered(w, x) \/ MarkDeadlettered(w, x)
    \/ MarkFailed(w, x) \/ Forget(w, x) \/ Remember(w, x)

Next ==
  \/ \E e \in Events : Emit(e)
  \/ Merchant
  \/ \E w \in Workers :
       \/ Drain(w) \/ Replay(w)
       \/ \E x \in Pairs : BeginReplay(w, x) \/ Attempt(w, x)
  \/ \E x \in Pairs : Elapse(x)
  \/ Restart

Spec == Init /\ [][Next]_vars

\* The timer keeps firing, handlers run on, a POST is answered or fails, and
\* time passes.
LiveSpec ==
  /\ Spec
  /\ \A x \in Pairs : WF_vars(Elapse(x))
  /\ \A w \in Workers :
       /\ WF_vars(Drain(w)) /\ WF_vars(Replay(w))
       /\ \A x \in Pairs : WF_vars(Attempt(w, x))

-----------------------------------------------------------------------------
(* Properties.                                                             *)

\* Every variable has its type; a row counts from its first attempt, and an
\* attempt in flight has a row (the drainer makes it before it POSTs).
TypeOK ==
  /\ outbox \in Seq(Events)
  /\ endpoint \in [Endpoints -> EndpointRows]
  /\ delivery \in [Pairs -> DeliveryRows]
  /\ cooling \subseteq Pairs /\ window \subseteq Pairs /\ accepted \subseteq Pairs
  /\ pass \in [Workers -> Passes]
  /\ flight \in [Workers -> [Pairs -> Flights]]
  /\ posts \in [Watched -> Nat] /\ early \in [Watched -> Nat]
  /\ spared \in [Workers -> SUBSET Pairs]
  /\ changes \in Nat /\ replays \in Nat /\ restarts \in Nat
  /\ \A x \in Pairs : delivery[x].made => delivery[x].attempt >= 1
  /\ \A w \in Workers, x \in Pairs :
       flight[w][x].stage # "none" => delivery[x].made

\* A pass that begins after a delivery was settled does not take it up, unless
\* a replay has reset it since: overlapping passes, late marks of other attempts
\* and restarts do not bring it back.  (A pass that began before may yet send it.)
SettledIsSkipped ==
  \A w \in Workers, x \in Pairs : x \in spared[w] => flight[w][x] = NoFlight

\* Retries wait.  Drain passes that do not overlap POST a pair inside its backoff
\* window only because a restart has emptied the cooldown map, once for each.
RetriesWait == \A x \in Watched : early[x] <= restarts

\* No more POSTs are made for a pair than its endpoint's max_attempts, which
\* a replay grants anew; a restart may leave one uncounted (the attempt
\* counter lives in the row, and passes that overlap count one attempt twice).
WithinBudget ==
  \A x \in Watched :
    endpoint[x[2]].live => posts[x] <= (replays + 1) * endpoint[x[2]].max + restarts

Wanted(x) == x[1] \in Emitted /\ Subscribed(endpoint[x[2]], x[1])

Before(e, f) ==
  \E i, j \in DOMAIN outbox : i < j /\ outbox[i] = e /\ outbox[j] = f

\* Two events of one object that an endpoint wants, the older one first.
InSequence(x, y) ==
  /\ x[2] = y[2] /\ Wanted(x) /\ Wanted(y)
  /\ ObjectOf[x[1]] = ObjectOf[y[1]] /\ Before(x[1], y[1])

\* No event is silently dropped: while an enabled endpoint stays subscribed
\* to it, the event is delivered or dead-lettered, although passes overlap
\* and write each other's attempt counts, and the process restarts.
EventuallySettled ==
  \A x \in Pairs : Wanted(x) ~> (Settled(delivery[x]) \/ ~Wanted(x))

-----------------------------------------------------------------------------
(* What the repository's documents say and the code does not keep; the     *)
(* README tells how each comes about.                                      *)

\* A delivery is either delivered or dead-lettered, never both: the marks are
\* unconditional updates, so a late failure may meet a row already delivered.
OneOutcome ==
  \A x \in Pairs : ~(delivery[x].delivered /\ delivery[x].deadlettered)

\* An endpoint accepts the events of one object in the order they happened
\* (the drainer attempts all the due work of a pass at once).
InOrder ==
  [][\A x, y \in Pairs :
       InSequence(x, y) /\ y \in accepted' \ accepted
         => x \in accepted \/ Settled(delivery[x])]_vars
=============================================================================
